---------------------------- MODULE FeishuSocket ----------------------------
(***************************************************************************)
(* The long connection of the dsh-feishu plugin (plugins/dsh-feishu/lib/   *)
(* client.js with the onMessage of index.js): one coroutine, connect(),    *)
(* that shares the JavaScript event loop with the events of its socket and *)
(* with stop().  An action is the code from one await to the next.         *)
(***************************************************************************)
EXTENDS FeishuEvents

VARIABLE queue   (* `pending` in _runSocket: frames that have come, waiting *)

frameVars == <<arriving, queue, inHand>>
vars == <<pc, stopped, sock, frameVars, acks, serviceVars, faults, historyVars>>

(* A callback runs to its end, and what it resolves runs on, before the    *)
(* next event: connect() is not in the middle of taking queued frames.     *)
EventTurn == ~(pc = "frame" /\ queue # <<>>)

-----------------------------------------------------------------------------
(* connect(). *)

(* The loop goes round unless stop() was called meanwhile. *)
RoundAgain == pc' = IF stopped THEN "ended" ELSE "address"
BackOff    == pc' = IF stopped THEN "ended" ELSE "backoff"

(* An error leaves _runSocket: the socket stays open without its           *)
(* listeners, and what it brings is acknowledged by nobody.                *)
Abandons ==
  /\ BackOff
  /\ sock' = "none" /\ arriving' = <<>> /\ queue' = <<>> /\ inHand' = 0

(* The address has come; the new socket is made without another look at    *)
(* _stopped.                                                               *)
GetAddress ==
  /\ pc = "address"
  /\ \/ pc' = "open" /\ sock' = "connecting" /\ UNCHANGED faults
     \/ Fault /\ BackOff /\ UNCHANGED sock
  /\ arriving' = <<>> /\ queue' = <<>>
  /\ UNCHANGED <<stopped, inHand, acks, serviceVars, historyVars>>

Opened ==
  /\ pc = "open" /\ sock = "connecting"
  /\ pc' = "frame" /\ sock' = "open" /\ arriving' \in Backlogs
  /\ UNCHANGED <<stopped, queue, inHand, acks, serviceVars, faults, historyVars>>


WakeUp ==
  /\ pc = "backoff"
  /\ RoundAgain
  /\ UNCHANGED <<stopped, sock, frameVars, acks, serviceVars, faults, historyVars>>

(* The close event.  The listener does nothing while connect() is in       *)
(* onMessage; before the open event it is an error.                        *)
Closed ==
  /\ EventTurn
  /\ sock = "closing" /\ arriving = <<>>
  /\ sock' = "closed"
  /\ \/ pc = "frame" /\ RoundAgain /\ UNCHANGED deaf
     \/ pc = "open" /\ BackOff /\ UNCHANGED deaf
     \/ pc = "handler" /\ deaf' = TRUE /\ UNCHANGED pc
  /\ UNCHANGED <<stopped, frameVars, acks, serviceVars, faults>>
  /\ UNCHANGED <<taken, acked, told, untold>>

Stop ==
  /\ ~stopped
  /\ EventTurn
  /\ stopped' = TRUE
  /\ IF sock \in {"connecting", "open"}
     THEN sock' = "closing" /\ arriving' = <<>>
     ELSE UNCHANGED <<sock, arriving>>
  /\ UNCHANGED <<pc, queue, inHand, acks, serviceVars, faults, historyVars>>

-----------------------------------------------------------------------------
(* _runSocket and _handleFrame. *)

(* Mutant of Arrives: the queue is a stack. *)
ArrivesInFront ==
  /\ EventTurn
  /\ pc \in {"frame", "handler"} /\ arriving # <<>>
  /\ arriving' = Tail(arriving)
  /\ queue' = <<Head(arriving)>> \o queue
  /\ UNCHANGED <<pc, stopped, sock, inHand, acks, serviceVars, faults, historyVars>>

(* The message listener: into the queue, from which connect() takes it.    *)
Arrives ==
  /\ EventTurn
  /\ pc \in {"frame", "handler"} /\ arriving # <<>>
  /\ arriving' = Tail(arriving)
  /\ queue' = Append(queue, Head(arriving))
  /\ UNCHANGED <<pc, stopped, sock, inHand, acks, serviceVars, faults, historyVars>>

(* An event that is not for us is acknowledged; one without plain text     *)
(* makes the handler raise; for the others onMessage is called, and has    *)
(* the agent at once or awaits it.                                         *)
TakesFrame ==
  /\ pc = "frame" /\ queue # <<>>
  /\ LET e == Head(queue) IN
     \/ /\ e \in Rich
        /\ Abandons
        /\ NotAcknowledged(e)
        /\ UNCHANGED <<acks, acked, taken>>
     \/ /\ e \notin Rich
        /\ queue' = Tail(queue)
        /\ UNCHANGED <<sock, arriving, serviceVars, faults>>
        /\ \/ /\ Acknowledges(e)
              /\ taken' = IF e \in Others THEN taken ELSE Append(taken, e)
              /\ UNCHANGED <<pc, inHand>>
           \/ /\ e \notin Others
              /\ pc' = "handler" /\ inHand' = e
              /\ UNCHANGED <<acks, acked, taken>>
  /\ UNCHANGED <<stopped, told, untold, deaf>>

(* The agent is made and has the message; or there is none and an apology  *)
(* goes out, or fails as well, which is swallowed; all acknowledged.  Or   *)
(* onMessage raises.                                                       *)
Handled ==
  /\ pc = "handler"
  /\ \/ /\ \/ taken' = Append(taken, inHand) /\ UNCHANGED <<told, untold, faults>>
           \/ told' = told \cup {inHand} /\ Fault /\ UNCHANGED <<taken, untold>>
           \/ untold' = untold \cup {inHand} /\ Fault /\ UNCHANGED <<taken, told>>
        /\ Acknowledges(inHand)
        /\ pc' = "frame" /\ inHand' = 0
        /\ UNCHANGED <<sock, arriving, queue>>
     \/ Fault /\ Abandons /\ UNCHANGED <<acks, acked, taken, told, untold>>
  /\ UNCHANGED <<stopped, serviceVars, deaf>>

Client == GetAddress \/ Opened \/ WakeUp \/ Closed \/ Arrives \/ TakesFrame \/ Handled

Init == EventsInit /\ queue = <<>>

Next == Client \/ Stop \/ (EventsNext /\ UNCHANGED queue)

Spec == Init /\ [][Next]_vars
=============================================================================
