----------------------------- MODULE QqOfficial -----------------------------
(***************************************************************************)
(* The receiving side of the qq_official channel (channels/qq_official.py):*)
(* one task, _ws_loop, that is the other client of QqGateway.  Unlike the  *)
(* plugin it takes a frame and hands its message to the hub without an     *)
(* await, closes the socket whenever it leaves it, pauses after every      *)
(* connection, and is stopped by cancelling the task.  `arriving` is also  *)
(* the buffer of the websockets library, which gives out what had come     *)
(* before it reports that the connection has closed.                       *)
(***************************************************************************)
EXTENDS QqGateway

channelVars == <<pc, stopped, sock, arriving, clientVars, gatewayVars, boundVars, historyVars>>

(* Leaving `async with` closes the socket; the loop sleeps and goes round. *)
LeavesSocket ==
  /\ pc' = "backoff"
  /\ sock' = "none" /\ arriving' = <<>>
  /\ gateway' = [gateway EXCEPT !.attached = FALSE]

-----------------------------------------------------------------------------
(* _ws_loop: a token and the address from threads, then the connection. *)
Discovers ==
  /\ pc = "address"
  /\ \/ pc' = "open" /\ sock' = "connecting" /\ UNCHANGED faults
     \/ pc' = "backoff" /\ Fault /\ UNCHANGED sock
  /\ UNCHANGED <<stopped, arriving, clientVars, gatewayVars, sent, repushes, historyVars>>

Connects ==
  /\ pc = "open" /\ sock = "connecting"
  /\ pc' = "hello" /\ sock' = "open" /\ arriving' = <<Plain("hello")>>
  /\ UNCHANGED <<stopped, clientVars, gatewayVars, boundVars, historyVars>>

Retries ==
  /\ pc = "backoff"
  /\ pc' = "address"
  /\ UNCHANGED <<stopped, sock, arriving, clientVars, gatewayVars, boundVars, historyVars>>

(* The connection has closed, or a frame of the handshake is not there     *)
(* within 15 seconds: an exception, or the end of the iteration.           *)
LosesSocket ==
  /\ \/ pc \in Handshake \cup {"open", "frame"} /\ sock = "closing" /\ arriving = <<>>
        /\ UNCHANGED faults
     \/ pc \in Handshake /\ sock = "open" /\ Fault
  /\ LeavesSocket
  /\ asked' = Nobody
  /\ UNCHANGED <<stopped, clientVars, sent, repushes, historyVars>>

(* stop() cancels the task, at whichever await it is. *)
Cancel ==
  /\ ~stopped
  /\ stopped' = TRUE /\ pc' = "ended"
  /\ sock' = "none" /\ arriving' = <<>>
  /\ gateway' = [gateway EXCEPT !.attached = FALSE]
  /\ asked' = Nobody
  /\ UNCHANGED <<clientVars, boundVars, historyVars>>

-----------------------------------------------------------------------------
(* _handshake.  A session is resumed; what is not RESUMED falls through to *)
(* a fresh IDENTIFY, and INVALID_SESSION forgets session and position.     *)
ReceivesHello ==
  /\ pc = "hello"
  /\ pc' = IF session # 0 THEN "resumed" ELSE "ready"
  /\ UNCHANGED <<session, lastSeq>>
  /\ Asks(IF session # 0 THEN "resume" ELSE "identify")

(* Mutant of ReceivesResumeAnswer: the position is kept for the next       *)
(* session.                                                                *)
ResumeAnswerKeepsSeq(op) ==
  /\ pc = "resumed"
  /\ IF op = "resumed"
     THEN pc' = "frame" /\ UNCHANGED <<session, lastSeq, asked>>
     ELSE /\ pc' = "ready"
          /\ session' = IF op = "invalid" THEN 0 ELSE session
          /\ UNCHANGED lastSeq
          /\ Asks("identify")

ReceivesResumeAnswer(op) ==
  /\ pc = "resumed"
  /\ IF op = "resumed"
     THEN pc' = "frame" /\ UNCHANGED <<session, lastSeq, asked>>
     ELSE /\ pc' = "ready"
          /\ IF op = "invalid" THEN session' = 0 /\ lastSeq' = 0
                               ELSE UNCHANGED <<session, lastSeq>>
          /\ Asks("identify")

ReceivesReady(frame) ==
  /\ pc = "ready" /\ frame.op = "ready"
  /\ pc' = "frame"
  /\ session' = frame.seq
  /\ UNCHANGED <<lastSeq, asked>>

ShakesHands ==
  /\ arriving # <<>>
  /\ LET frame == Head(arriving) IN
     \/ /\ ReceivesHello \/ ReceivesResumeAnswer(frame.op) \/ ReceivesReady(frame)
        /\ arriving' = Tail(arriving)
        /\ UNCHANGED <<sock, gateway>>
     \/ /\ pc = "ready" /\ frame.op # "ready"
        /\ LeavesSocket
        /\ UNCHANGED <<session, lastSeq, asked>>
  /\ UNCHANGED <<stopped, recent, boundVars, historyVars>>

-----------------------------------------------------------------------------
(* _run: one frame after the other, each to its end. *)

(* Mutant of RemembersId: a full deque takes no more ids. *)
RemembersFirst(m) == recent' = IF Len(recent) = Recent THEN recent ELSE Append(recent, m)

(* deque(maxlen=200): the oldest id goes. *)
RemembersId(m) ==
  recent' = IF Len(recent) = Recent THEN Append(Tail(recent), m) ELSE Append(recent, m)

(* _on_c2c_message of a text that the channel accepts. *)
TakesMessage(m, n) ==
  /\ lastSeq' = n
  /\ IF Contains(recent, m) THEN UNCHANGED <<recent, taken, handed>>
     ELSE RemembersId(m) /\ taken' = Append(taken, m) /\ handed' = handed \cup {m}
  /\ arriving' = Tail(arriving)
  /\ UNCHANGED <<pc, sock, session, gateway>>

RunsFrame ==
  /\ pc = "frame"
  /\ arriving # <<>>
  /\ LET frame == Head(arriving) IN
     \/ frame.op = "message" /\ TakesMessage(frame.id, frame.seq)
     \/ frame.op = "reconnect" /\ LeavesSocket /\ UNCHANGED <<clientVars, taken, handed>>
     \/ /\ frame.op = "invalid"
        /\ LeavesSocket
        /\ session' = 0 /\ lastSeq' = 0
        /\ UNCHANGED <<recent, taken, handed>>
  /\ UNCHANGED <<stopped, asked, boundVars, refused, failed, deaf>>

Channel == Discovers \/ Connects \/ Retries \/ LosesSocket \/ ShakesHands \/ RunsFrame

ChannelNext == Channel \/ Cancel \/ GatewayNext

ChannelSpec == GatewayInit /\ [][ChannelNext]_channelVars
=============================================================================
