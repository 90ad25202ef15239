---------------------------- MODULE FeishuChannel ----------------------------
(***************************************************************************)
(* The long connection of the feishu channel (channels/feishu.py): one     *)
(* task, _long_conn_loop, that hands a message to the hub and then writes  *)
(* its acknowledgement.  Whatever leaves the loop over the frames closes   *)
(* the socket and is followed by a pause.                                  *)
(***************************************************************************)
EXTENDS FeishuEvents

channelVars ==
  <<pc, stopped, sock, arriving, inHand, acks, serviceVars, faults, historyVars>>

(* Leaving `async with` closes the socket; what is under way is lost. *)
LeavesSocket ==
  /\ pc' = "backoff"
  /\ sock' = "none" /\ arriving' = <<>> /\ inHand' = 0

RequestsEndpoint ==
  /\ pc = "address"
  /\ \/ pc' = "open" /\ sock' = "connecting" /\ UNCHANGED faults
     \/ pc' = "backoff" /\ Fault /\ UNCHANGED sock
  /\ UNCHANGED <<stopped, arriving, inHand, acks, serviceVars, historyVars>>

Connects ==
  /\ pc = "open" /\ sock = "connecting"
  /\ pc' = "frame" /\ sock' = "open" /\ arriving' \in Backlogs
  /\ UNCHANGED <<stopped, inHand, acks, serviceVars, faults, historyVars>>

Retries ==
  /\ pc = "backoff"
  /\ pc' = "address"
  /\ UNCHANGED <<stopped, sock, arriving, inHand, acks, serviceVars, faults>>
  /\ UNCHANGED historyVars

LosesSocket ==
  /\ pc \in {"open", "frame"} /\ sock = "closing" /\ arriving = <<>>
  /\ LeavesSocket
  /\ UNCHANGED <<stopped, acks, serviceVars, faults, historyVars>>

(* _handle_event: a message that is for us goes to the hub. *)
Delivers(e) ==
  /\ pc' = "ack" /\ inHand' = e
  /\ arriving' = Tail(arriving)
  /\ taken' = IF e \in Others \cup Rich THEN taken ELSE Append(taken, e)
  /\ UNCHANGED <<sock, serviceVars, faults>>

(* Mutant of HandlesEvent: an exception of the handler is caught in it.    *)
HandlesEventCaught ==
  /\ pc = "frame" /\ arriving # <<>>
  /\ Delivers(Head(arriving))
  /\ UNCHANGED <<stopped, acks, acked, told, untold, deaf>>

(* _handle_ws_frame up to its await, with _handle_event.  The event is     *)
(* looked at and, if it is for us, delivered; an exception ends the loop.  *)
HandlesEvent ==
  /\ pc = "frame" /\ arriving # <<>>
  /\ LET e == Head(arriving) IN
     \/ e \notin Rich /\ Delivers(e)
     \/ e \in Rich /\ LeavesSocket /\ NotAcknowledged(e) /\ UNCHANGED taken
  /\ UNCHANGED <<stopped, acks, acked, told, untold, deaf>>

(* ws.send of the acknowledgement; that it raises is ignored. *)
WritesAck ==
  /\ pc = "ack"
  /\ pc' = "frame" /\ inHand' = 0
  /\ Acknowledges(inHand)
  /\ UNCHANGED <<stopped, sock, arriving, serviceVars, faults>>
  /\ UNCHANGED <<taken, told, untold, deaf>>

(* stop() cancels the task, at whichever await it is. *)
Cancel ==
  /\ ~stopped
  /\ stopped' = TRUE /\ pc' = "ended"
  /\ sock' = "none" /\ arriving' = <<>> /\ inHand' = 0
  /\ UNCHANGED <<acks, serviceVars, faults, historyVars>>

Channel == RequestsEndpoint \/ Connects \/ Retries \/ LosesSocket \/ HandlesEvent \/ WritesAck

ChannelNext == Channel \/ Cancel \/ EventsNext

ChannelSpec == EventsInit /\ [][ChannelNext]_channelVars
=============================================================================
