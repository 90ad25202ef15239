----------------------------- MODULE TokenCache -----------------------------
(***************************************************************************)
(* The access token of a channel that posts from threads: _access_token of *)
(* channels/qq_official.py, and the same in feishu.py and woa.py.  A       *)
(* thread takes the token from the cache, or asks for one and writes it    *)
(* and its expiry into the cache, in two assignments; then it posts with   *)
(* it.  There is no lock.                                                  *)
(*                                                                         *)
(* Time is counted in seconds; what a thread does between two calls takes  *)
(* none.                                                                   *)
(***************************************************************************)
EXTENDS Integers, Sequences

CONSTANTS
  Threads,     (* threads of the channel                                    *)
  Lives,       (* what the service may give a token, expires_in             *)
  CheckMargin, (* a token of the cache has more than that left, 60          *)
  StoreMargin, (* what is taken off its life, 60; 300 in woa.py             *)
  Timeout,     (* of a call, 15                                             *)
  MaxTokens,   (* bound: tokens of the service                              *)
  MaxTime      (* bound: time                                               *)

ASSUME TokenAssumption ==
  /\ CheckMargin \in Nat /\ StoreMargin \in Nat /\ Timeout \in Nat
  /\ MaxTokens \in Nat /\ MaxTime \in Nat
  /\ Timeout <= CheckMargin + StoreMargin
  /\ Lives \subseteq {n \in Nat : 2 * Timeout <= n}

VARIABLES
  now,     (* time                                                          *)
  ends,    (* service: when its tokens end                                  *)
  token,   (* _token, 0 for none                                            *)
  expires, (* _token_expires_at                                             *)
  thread,  (* pc; since: `now` of the code; got, life: the answer; used:    *)
           (* the token it posts with; confused: it came from a cache that  *)
           (* was Confused (history)                                        *)
  owner    (* history: the token `expires` was written for                  *)

tokenVars == <<now, ends, token, expires, thread, owner>>

Free == [pc |-> "free", since |-> 0, got |-> 0, life |-> 0, used |-> 0,
         confused |-> FALSE]
Enters(t, pc) == thread' = [thread EXCEPT ![t] = [@ EXCEPT !.pc = pc, !.since = now]]

-----------------------------------------------------------------------------
Looks(t) ==
  /\ thread[t].pc = "free"
  /\ IF token # 0 /\ expires > now + CheckMargin THEN Enters(t, "returning") ELSE Enters(t, "asking")
  /\ UNCHANGED <<now, ends, token, expires, owner>>

(* The service makes a token, or gives the last one again while it lasts.  *)
ServiceAnswers(t) ==
  /\ thread[t].pc = "asking"
  /\ \/ /\ Len(ends) < MaxTokens
        /\ \E life \in Lives :
             /\ ends' = Append(ends, now + life)
             /\ thread' = [thread EXCEPT ![t] =
                             [@ EXCEPT !.pc = "answered", !.got = Len(ends) + 1, !.life = life]]
     \/ /\ ends # <<>> /\ ends[Len(ends)] - now >= 2 * Timeout
        /\ thread' = [thread EXCEPT ![t] =
                        [@ EXCEPT !.pc = "answered", !.got = Len(ends),
                                  !.life = ends[Len(ends)] - now]]
        /\ UNCHANGED ends
  /\ UNCHANGED <<now, token, expires, owner>>

(* An error, or no answer in time. *)
Fails(t) ==
  /\ thread[t].pc \in {"asking", "answered"}
  /\ thread' = [thread EXCEPT ![t] = Free]
  /\ UNCHANGED <<now, ends, token, expires, owner>>

WritesToken(t) ==
  /\ thread[t].pc = "answered"
  /\ token' = thread[t].got
  /\ thread' = [thread EXCEPT ![t].pc = "writing"]
  /\ UNCHANGED <<now, ends, expires, owner>>

(* Mutant of WritesExpiry: the margin is added. *)
WritesExpiryLater(t) ==
  /\ thread[t].pc = "writing"
  /\ expires' = thread[t].since + thread[t].life + StoreMargin
  /\ owner' = thread[t].got
  /\ thread' = [thread EXCEPT ![t].pc = "returning"]
  /\ UNCHANGED <<now, ends, token>>

(* Counted from before the call.  A life that is no number raises.         *)
WritesExpiry(t) ==
  /\ thread[t].pc = "writing"
  /\ \/ /\ expires' = thread[t].since + thread[t].life - StoreMargin
        /\ owner' = thread[t].got
        /\ thread' = [thread EXCEPT ![t].pc = "returning"]
     \/ thread' = [thread EXCEPT ![t] = Free] /\ UNCHANGED <<expires, owner>>
  /\ UNCHANGED <<now, ends, token>>

(* How much earlier than another one a token may end that is used under    *)
(* the expiry of the other.                                                *)
Slack == CheckMargin + StoreMargin - Timeout

(* Two threads have left a token in the cache under the expiry of one that *)
(* ends a good deal later.                                                 *)
Confused == token # 0 /\ owner # 0 /\ ends[owner] > ends[token] + Slack

(* What is in the cache now, whoever has put it there; or, in woa.py, the  *)
(* token that was just given.                                              *)
Returns(t) ==
  /\ thread[t].pc = "returning"
  /\ \E own \in BOOLEAN :
       /\ own => thread[t].got # 0
       /\ thread' = [thread EXCEPT ![t] =
                       [@ EXCEPT !.pc = "posting", !.since = now,
                                 !.used = IF own THEN thread[t].got ELSE token,
                                 !.confused = ~own /\ Confused]]
  /\ UNCHANGED <<now, ends, token, expires, owner>>

Posts(t) ==
  /\ thread[t].pc = "posting"
  /\ thread' = [thread EXCEPT ![t] = Free]
  /\ UNCHANGED <<now, ends, token, expires, owner>>

(* A call ends by its timeout, and time passes only in calls. *)
Tick ==
  /\ now < MaxTime
  /\ \A t \in Threads :
       \/ thread[t].pc = "free"
       \/ thread[t].pc \in {"asking", "answered", "posting"} /\ now - thread[t].since < Timeout
  /\ now' = now + 1
  /\ UNCHANGED <<ends, token, expires, thread, owner>>

TokenInit ==
  /\ now = 0 /\ ends = <<>> /\ token = 0 /\ expires = 0 /\ owner = 0
  /\ thread = [t \in Threads |-> Free]

TokenNext ==
  \/ Tick
  \/ \E t \in Threads :
       \/ Looks(t) \/ ServiceAnswers(t) \/ Fails(t) \/ WritesToken(t) \/ WritesExpiry(t)
       \/ Returns(t) \/ Posts(t)

TokenSpec == TokenInit /\ [][TokenNext]_tokenVars
-----------------------------------------------------------------------------
(* "a cached, still-valid access_token" (qq_official.py:155): a token does *)
(* not end while a thread posts with it, however the threads write their   *)
(* tokens and expiries in between each other; unless they had lives that   *)
(* differ by more than the margins make up for.                            *)
TokenIsValid ==
  \A t \in Threads : thread[t].pc = "posting" =>
    thread[t].confused \/ now <= ends[thread[t].used]
=============================================================================
