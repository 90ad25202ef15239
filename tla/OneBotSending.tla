---------------------------- MODULE OneBotSending ----------------------------
(***************************************************************************)
(* Sending on the OneBot channel (channels/qq.py): a try is a request on   *)
(* the WebSocket, whose answer is matched by its echo number and waited    *)
(* for with a timeout.  The channel's own task, _loop, reads the answers   *)
(* and reconnects.  The OneBot server and the network are external.        *)
(***************************************************************************)
EXTENDS Sending

CONSTANT MaxLosses   (* bound: connections lost *)

ASSUME OneBotAssumption == MaxLosses \in Nat

VARIABLES
  link,      (* "up"; "lost": closed, but _loop has not noticed; "down":   *)
             (* _ws is None                                                *)
  requests,  (* written to the connection, not yet handled by the server   *)
  answers,   (* written by the server, not yet read by _loop               *)
  pending,   (* echo numbers in _pending                                   *)
  nextEcho,  (* _next_echo                                                 *)
  future,    (* what each task waits for: an echo, and its answer          *)
  losses     (* connections lost, up to MaxLosses                          *)

linkVars   == <<link, requests, answers, losses>>
echoVars   == <<pending, nextEcho>>
oneBotVars == <<linkVars, echoVars, future>>

NoFuture == [echo |-> 0, answer |-> "none"]

-----------------------------------------------------------------------------
(* QQOneBotChannel.send and _request. *)

(* Without a socket it raises; on a closed one it raises after the echo    *)
(* was entered, and the entry stays.  Else the request is written, and the *)
(* task is "waiting": in ws.send, until the socket has taken it, and then  *)
(* 15 seconds for the answer.                                              *)
Tries(t) ==
  /\ at[t].pc = "trying"
  /\ \/ /\ link = "down"
        /\ at' = [at EXCEPT ![t] = Failed(t)]
        /\ UNCHANGED <<echoVars, requests, future>>
     \/ /\ link # "down"
        /\ nextEcho' = nextEcho + 1
        /\ pending' = pending \cup {nextEcho'}
        /\ IF link = "lost"
           THEN at' = [at EXCEPT ![t] = Failed(t)] /\ UNCHANGED <<requests, future>>
           ELSE /\ at' = [at EXCEPT ![t].pc = "waiting"]
                /\ future' = [future EXCEPT ![t] = [NoFuture EXCEPT !.echo = nextEcho']]
                /\ requests' = Append(requests, [echo |-> nextEcho', part |-> Part(t)])
  /\ UNCHANGED <<link, answers, losses, sends, historyVars>>

(* Mutant of Wakes: any answer is taken for a success. *)
WakesUnchecked(t) ==
  /\ Turn
  /\ at[t].pc = "waiting" /\ future[t].answer # "none"
  /\ at' = [at EXCEPT ![t] = Settled(t)]
  /\ delivered' = delivered \cup {Part(t)}
  /\ future' = [future EXCEPT ![t] = NoFuture]
  /\ UNCHANGED <<linkVars, echoVars, sends, shown, unanswered, late>>

Wakes(t) ==
  /\ Turn
  /\ at[t].pc = "waiting" /\ future[t].answer # "none"
  /\ IF future[t].answer = "ok"
     THEN at' = [at EXCEPT ![t] = Settled(t)] /\ delivered' = delivered \cup {Part(t)}
     ELSE at' = [at EXCEPT ![t] = Failed(t)] /\ UNCHANGED delivered
  /\ future' = [future EXCEPT ![t] = NoFuture]
  /\ UNCHANGED <<linkVars, echoVars, sends, shown, unanswered, late>>

(* Mutant of TimesOut: only the wait for a live connection is bounded.     *)
TimesOutWhenUp(t) ==
  /\ Turn
  /\ at[t].pc = "waiting" /\ link = "up"
  /\ pending' = pending \ {future[t].echo}
  /\ future' = [future EXCEPT ![t] = NoFuture]
  /\ at' = [at EXCEPT ![t] = Failed(t)]
  /\ unanswered' = unanswered \cup {Part(t)}
  /\ UNCHANGED <<linkVars, nextEcho, sends, shown, delivered, late>>

(* 15 seconds are over; the answer may have come in the same moment, and   *)
(* is then dropped.                                                        *)
TimesOut(t) ==
  /\ Turn
  /\ at[t].pc = "waiting"
  /\ pending' = pending \ {future[t].echo}
  /\ future' = [future EXCEPT ![t] = NoFuture]
  /\ at' = [at EXCEPT ![t] = Failed(t)]
  /\ unanswered' = unanswered \cup {Part(t)}
  /\ UNCHANGED <<linkVars, nextEcho, sends, shown, delivered, late>>

(* The connection ends while the task is in ws.send, which raises although *)
(* the request may arrive; the entry of the echo stays.                    *)
SendRaises(t) ==
  /\ Turn
  /\ at[t].pc = "waiting" /\ link # "up"
  /\ future' = [future EXCEPT ![t] = NoFuture]
  /\ at' = [at EXCEPT ![t] = Failed(t)]
  /\ unanswered' = unanswered \cup {Part(t)}
  /\ UNCHANGED <<linkVars, echoVars, sends, shown, delivered, late>>

-----------------------------------------------------------------------------
(* QQOneBotChannel._loop and _handle. *)

(* An answer settles the future of its echo, once. *)
Handles ==
  /\ Turn
  /\ link # "down" /\ answers # <<>>
  /\ answers' = Tail(answers)
  /\ LET a == Head(answers) IN
     /\ pending' = pending \ {a.echo}
     /\ future' = [t \in Tasks |->
                     IF a.echo \in pending /\ future[t].echo = a.echo
                     THEN [future[t] EXCEPT !.answer = a.status] ELSE future[t]]
  /\ UNCHANGED <<link, requests, losses, nextEcho, taskVars, historyVars>>

(* Mutant of Notices: the lost requests are forgotten, their waiters not.  *)
NoticesForgets ==
  /\ Turn
  /\ link = "lost" /\ answers = <<>>
  /\ link' = "down" /\ pending' = {}
  /\ UNCHANGED <<requests, answers, losses, nextEcho, future, taskVars, historyVars>>

(* What had arrived is read before the end of the connection is.           *)
Notices ==
  /\ Turn
  /\ link = "lost" /\ answers = <<>>
  /\ link' = "down"
  /\ UNCHANGED <<requests, answers, losses, echoVars, future, taskVars, historyVars>>

Connects ==
  /\ Turn
  /\ link = "down" /\ requests = <<>>
  /\ link' = "up"
  /\ UNCHANGED <<requests, answers, losses, echoVars, future, taskVars, historyVars>>

-----------------------------------------------------------------------------
(* The OneBot server: one request after the other, each answered as long   *)
(* as the connection is there; it is done with one connection before the   *)
(* next one.                                                               *)
ServerHandles ==
  /\ requests # <<>>
  /\ requests' = Tail(requests)
  /\ LET r == Head(requests)
         Says(status) ==
           answers' = IF link = "up" THEN Append(answers, [echo |-> r.echo, status |-> status])
                      ELSE answers IN
     \/ shown' = Append(shown, r.part) /\ Says("ok")
     \/ UNCHANGED shown /\ Says("failed")
  /\ UNCHANGED <<link, losses, echoVars, future, taskVars, delivered, unanswered, late>>

(* What had not arrived may be lost, either way.                           *)
ConnectionLost ==
  /\ link = "up" /\ losses < MaxLosses
  /\ losses' = losses + 1
  /\ link' = "lost"
  /\ \E k \in 0 .. Len(requests) : requests' = SubSeq(requests, 1, k)
  /\ \E k \in 0 .. Len(answers) : answers' = SubSeq(answers, 1, k)
  /\ UNCHANGED <<echoVars, future, taskVars, historyVars>>

-----------------------------------------------------------------------------
OneBotInit ==
  /\ link = "down" /\ requests = <<>> /\ answers = <<>> /\ losses = 0
  /\ pending = {} /\ nextEcho = 0 /\ future = [t \in Tasks |-> NoFuture]

(* A task that is sending goes on: ws.send comes to an end, if only when   *)
(* the library gives up a connection that takes nothing, and the answer's  *)
(* time does.                                                              *)
OneBotProceeds(t) ==
  \/ Resumes(t) /\ UNCHANGED oneBotVars
  \/ Tries(t) \/ Wakes(t) \/ TimesOut(t)

OneBotNext ==
  \/ \E t \in Tasks :
       (Sends(t) /\ UNCHANGED oneBotVars) \/ OneBotProceeds(t) \/ SendRaises(t)
  \/ Handles \/ Notices \/ Connects
  \/ ServerHandles \/ ConnectionLost

OneBotSpec ==
  /\ SendingInit /\ OneBotInit
  /\ [][OneBotNext]_<<taskVars, historyVars, oneBotVars>>
-----------------------------------------------------------------------------
(* Whoever waits for an answer will get it if it comes: the echo is in     *)
(* _pending, over lost connections too, and is nobody else's.              *)
WaitersAreListed ==
  \A t \in Tasks :
    future[t].echo # 0 =>
      /\ at[t].pc = "waiting"
      /\ future[t].answer = "none" => future[t].echo \in pending
      /\ \A u \in Tasks \ {t} : future[u].echo # future[t].echo
=============================================================================
