---------------------------- MODULE WebhookRelay ----------------------------
(***************************************************************************)
(* A WOA message on its way in: the webhook of channels/woa.py behind the  *)
(* HTTP server of httpx.py, in the relay of scripts/wps_relay.py, which    *)
(* hands the message to the management API of the bridge core.             *)
(*                                                                         *)
(* A thread of the HTTP server takes a request, gives it to the event loop *)
(* as a coroutine, and waits 30 seconds for its result.  The coroutine has *)
(* no await: it keeps the loop while it posts to the core, for up to ten   *)
(* seconds.  The WPS platform calls again when it is not answered in time. *)
(* Timeouts come at any moment here.  Platform and network are external.   *)
(***************************************************************************)
EXTENDS Naturals, Sequences, SequencesExt

CONSTANTS
  Messages,    (* messages of the platform                                 *)
  NoId,        (* of them, those without an id                             *)
  Droppable,   (* bound: of them, those of which a call may be dropped     *)
  DedupMax,    (* _dedup_max, 2000 in the code                             *)
  MaxCalls,    (* bound: calls of the webhook                              *)
  MaxCrashes,  (* bound: restarts of the relay                             *)
  MaxExpiries  (* bound: times remembered ids grow too old                 *)

ASSUME RelayAssumption ==
  /\ NoId \subseteq Messages /\ Droppable \subseteq Messages /\ DedupMax \in Nat \ {0}
  /\ MaxCalls \in Nat /\ MaxCrashes \in Nat /\ MaxExpiries \in Nat

VARIABLES
  calls,      (* calls of the webhook so far, up to MaxCalls               *)
  waiting,    (* calls whose HTTP thread waits for the result              *)
  loop,       (* coroutines the relay's loop has not run yet               *)
  forwarding, (* the call whose coroutine runs, or Nothing                 *)
  seen,       (* _seen, in insertion order                                 *)
  core,       (* calls on their way into the core's queue                  *)
  replied,    (* calls the core has answered                               *)
  crashes, expiries,   (* so far, up to the bounds                         *)
  (* History, read by the properties only:                                 *)
  accepted,   (* messages in the core's queue, in order                    *)
  answered,   (* messages for which the platform was answered with success *)
  failed,     (* messages whose forwarding raised                          *)
  dropped,    (* messages of which a call ended before the post            *)
  forgotten   (* messages whose id is not remembered any more              *)

boundVars   == <<calls, crashes, expiries>>
coreVars    == <<core, replied, accepted>>
historyVars == <<answered, failed, dropped, forgotten>>
relayVars   == <<waiting, loop, forwarding, seen, boundVars, coreVars, historyVars>>

(* A call of the webhook, the n-th, for message m. *)
Calls   == [msg : Messages, n : 1..MaxCalls]
Nothing == [msg |-> "none", n |-> 0]
Idle    == forwarding = Nothing

-----------------------------------------------------------------------------
(* The HTTP server of the relay. *)

(* _handle up to its wait: the coroutine is given to the loop. *)
PlatformCalls(m) ==
  /\ calls < MaxCalls
  /\ calls' = calls + 1
  /\ LET call == [msg |-> m, n |-> calls'] IN
     waiting' = waiting \cup {call} /\ loop' = Append(loop, call)
  /\ UNCHANGED <<forwarding, seen, crashes, expiries, coreVars, historyVars>>

(* 30 seconds are over: the platform gets an error, the coroutine goes on. *)
ThreadTimesOut(call) ==
  /\ call \in waiting
  /\ waiting' = waiting \ {call}
  /\ UNCHANGED <<loop, forwarding, seen, boundVars, coreVars, historyVars>>

(* _route returns success, whatever became of the message. *)
Returns(call) ==
  /\ waiting' = waiting \ {call}
  /\ answered' = IF call \in waiting THEN answered \cup {call.msg} ELSE answered

-----------------------------------------------------------------------------
(* _handle_message_event and _is_seen. *)

(* Mutants of Marked: no limit; the newest id goes. *)
MarkedAll(ids, m) == Append(ids, m)
MarkedFirst(ids, m) == IF Len(ids) < DedupMax THEN Append(ids, m) ELSE ids

(* One id more; beyond the limit the oldest one goes. *)
Marked(ids, m) ==
  LET marked == Append(ids, m) IN
  IF Len(marked) > DedupMax THEN Tail(marked) ELSE marked

(* The oldest ids are gone when they are too old. *)
Fresh(ids) ==
  \/ ids = seen /\ UNCHANGED expiries
  \/ ids # seen /\ expiries < MaxExpiries /\ expiries' = expiries + 1

(* History: these ids are remembered no more. *)
Forgets(ids) == forgotten' = forgotten \cup ids

(* Mutant of Runs: the platform is answered before the message is passed on. *)
RunsAnswered ==
  /\ Idle /\ loop # <<>>
  /\ loop' = Tail(loop)
  /\ LET call == Head(loop) IN
     /\ Returns(call)
     /\ \E ids \in Suffixes(seen) :
          /\ Fresh(ids)
          /\ IF Contains(ids, call.msg)
             THEN seen' = ids /\ UNCHANGED forwarding
             ELSE seen' = Marked(ids, call.msg) /\ forwarding' = call
     /\ Forgets(ToSet(seen) \ ToSet(seen'))
  /\ UNCHANGED <<calls, crashes, coreVars, failed, dropped>>

(* The coroutine up to the post to the core.  A message seen before is     *)
(* answered at once; one without an id is not looked up.                   *)
Runs ==
  /\ Idle /\ loop # <<>>
  /\ loop' = Tail(loop)
  /\ LET call == Head(loop) IN
     \/ /\ call.msg \in NoId
        /\ forwarding' = call
        /\ UNCHANGED <<seen, expiries, waiting, answered, forgotten>>
     \/ /\ call.msg \notin NoId
        /\ \E ids \in Suffixes(seen) :
             /\ Fresh(ids)
             /\ IF Contains(ids, call.msg)
                THEN seen' = ids /\ Returns(call) /\ UNCHANGED forwarding
                ELSE /\ seen' = Marked(ids, call.msg)
                     /\ forwarding' = call
                     /\ UNCHANGED <<waiting, answered>>
             /\ Forgets((ToSet(seen) \ ToSet(ids)) \cup (ToSet(ids) \ ToSet(seen')))
  /\ UNCHANGED <<calls, crashes, coreVars, failed, dropped>>

(* The coroutine ends before the post, and the platform is told of success *)
(* all the same.  Before the id is looked up the topic or the signature is *)
(* not ours, the call too old, or the data cannot be decrypted; after it   *)
(* was marked, the message is not meant for us or cannot be parsed.        *)
Drops ==
  /\ Idle /\ loop # <<>>
  /\ loop' = Tail(loop)
  /\ LET call == Head(loop) IN
     /\ call.msg \in Droppable
     /\ Returns(call)
     /\ dropped' = dropped \cup {call.msg}
     /\ \/ UNCHANGED <<seen, expiries, forgotten>>
        \/ /\ call.msg \notin NoId
           /\ \E ids \in Suffixes(seen) :
                /\ Fresh(ids) /\ ~Contains(ids, call.msg)
                /\ seen' = Marked(ids, call.msg)
                /\ Forgets((ToSet(seen) \ ToSet(ids)) \cup (ToSet(ids) \ ToSet(seen')))
  /\ UNCHANGED <<calls, crashes, forwarding, coreVars, failed>>

-----------------------------------------------------------------------------
(* enqueue_inbound of the relay, and POST /message of the core. *)

OnItsWay(call) == Contains(core, call) \/ call \in replied

(* The request reaches the core, or the connection fails. *)
Forwards ==
  /\ ~Idle /\ ~OnItsWay(forwarding)
  /\ core' = Append(core, forwarding)
  /\ UNCHANGED <<waiting, loop, forwarding, seen, boundVars, replied, accepted, historyVars>>

Hears ==
  /\ ~Idle /\ forwarding \in replied
  /\ Returns(forwarding)
  /\ forwarding' = Nothing
  /\ UNCHANGED <<loop, seen, boundVars, coreVars, failed, dropped, forgotten>>

(* Mutant of Fails: the post to the core has no timeout. *)
FailsToConnect ==
  /\ ~Idle /\ ~OnItsWay(forwarding)
  /\ Returns(forwarding)
  /\ failed' = failed \cup {forwarding.msg}
  /\ forwarding' = Nothing
  /\ UNCHANGED <<loop, seen, boundVars, coreVars, dropped, forgotten>>

(* No connection, or no answer in ten seconds: printed, and no more.       *)
Fails ==
  /\ ~Idle
  /\ Returns(forwarding)
  /\ failed' = failed \cup {forwarding.msg}
  /\ forwarding' = Nothing
  /\ UNCHANGED <<loop, seen, boundVars, coreVars, dropped, forgotten>>

(* The core's loop runs _message; the answer goes to whoever still waits.  *)
CoreAccepts ==
  /\ core # <<>>
  /\ core' = Tail(core)
  /\ replied' = replied \cup {Head(core)}
  /\ accepted' = Append(accepted, Head(core).msg)
  /\ UNCHANGED <<waiting, loop, forwarding, seen, boundVars, historyVars>>

(* The relay starts again; the callers get no answer. *)
Crash ==
  /\ crashes < MaxCrashes
  /\ crashes' = crashes + 1
  /\ waiting' = {} /\ loop' = <<>> /\ forwarding' = Nothing /\ seen' = <<>>
  /\ Forgets(ToSet(seen))
  /\ UNCHANGED <<calls, expiries, coreVars, answered, failed, dropped>>

-----------------------------------------------------------------------------
RelayInit ==
  /\ calls = 0
  /\ waiting = {} /\ loop = <<>> /\ forwarding = Nothing /\ seen = <<>>
  /\ core = <<>> /\ replied = {} /\ crashes = 0 /\ expiries = 0
  /\ accepted = <<>> /\ answered = {} /\ failed = {} /\ dropped = {} /\ forgotten = {}

RelayLoop == Runs \/ Drops \/ Forwards \/ Hears \/ Fails

RelayNext ==
  \/ \E m \in Messages : PlatformCalls(m)
  \/ \E call \in waiting : ThreadTimesOut(call)
  \/ RelayLoop \/ CoreAccepts \/ Crash

RelaySpec == RelayInit /\ [][RelayNext]_relayVars

(* The relay's event loop runs, and its sockets time out.  Nothing is      *)
(* asked of the core.                                                      *)
FairRelaySpec == RelaySpec /\ WF_relayVars(RelayLoop)
-----------------------------------------------------------------------------
(* The values the variables take. *)
TypeOK ==
  /\ calls \in 0..MaxCalls
  /\ waiting \subseteq Calls /\ loop \in Seq(Calls) /\ forwarding \in Calls \cup {Nothing}
  /\ seen \in Seq(Messages \ NoId) /\ Len(seen) <= DedupMax
  /\ core \in Seq(Calls) /\ replied \subseteq Calls
  /\ crashes \in 0..MaxCrashes /\ expiries \in 0..MaxExpiries
  /\ accepted \in Seq(Messages) /\ answered \subseteq Messages
  /\ failed \subseteq Messages /\ dropped \subseteq Messages /\ forgotten \subseteq Messages

(* Whatever is called again, times out or fails on the way, a message      *)
(* enters the core's queue once, as long as its id is remembered.          *)
TakenOnce ==
  \A i, j \in DOMAIN accepted :
    i # j /\ accepted[i] = accepted[j] => accepted[i] \in NoId \cup forgotten

(* The platform, which calls no more after a success, has been told so     *)
(* only when the message is in the core's queue, with two exceptions:      *)
(* forwarding it has failed (wps_relay.py:58), or a call of it was dropped *)
(* before that (woa.py:249 and the early returns of                        *)
(* _handle_message_event).  A call that timed out or found the message     *)
(* seen, and a crash, lose none.                                           *)
AnsweredIsForwarded == answered \subseteq ToSet(accepted) \cup failed \cup dropped

(* Every call is dealt with: a core that does not answer holds the loop    *)
(* up, but not for good.                                                   *)
InTheLoop(n) == forwarding.n = n \/ \E i \in DOMAIN loop : loop[i].n = n

LoopDrains == \A n \in 1..MaxCalls : InTheLoop(n) ~> ~InTheLoop(n)
=============================================================================
