---------------------------- MODULE PluginSocket ----------------------------
(***************************************************************************)
(* The long connection of the dsh-qq plugin (plugins/dsh-qq/lib/client.js  *)
(* with the onMessage of index.js): one coroutine, connect(), that opens a *)
(* WebSocket, shakes hands with the gateway (IDENTIFY or RESUME), takes    *)
(* one frame at a time, and starts again when the socket goes.  It shares  *)
(* the JavaScript event loop with the events of the socket and with        *)
(* stop().  An action is the code from one await to the next; `pc` says    *)
(* which await connect() is in.                                            *)
(*                                                                         *)
(* The gateway is QqGateway's; the agents service is external too.         *)
(***************************************************************************)
EXTENDS QqGateway

VARIABLE queue   (* `pending` in _runSocket: frames that have come, waiting *)

vars == <<pc, stopped, sock, arriving, queue, clientVars, gatewayVars,
          boundVars, historyVars>>

(* A callback runs to its end, and what it resolves runs on, before the    *)
(* next event: connect() is not in the middle of taking queued frames.     *)
EventTurn == ~(pc = "frame" /\ queue # <<>>)

-----------------------------------------------------------------------------
(* connect(): the loop around one socket after the other. *)

(* Mutant of RoundAgain: only an error looks at _stopped. *)
RoundAgainAlways == pc' = "address"

(* The loop goes round unless stop() was called meanwhile. *)
RoundAgain == pc' = IF stopped THEN "ended" ELSE "address"
BackOff == pc' = IF stopped THEN "ended" ELSE "backoff"

(* An error leaves _runSocket: the socket stays as it is, without its      *)
(* listeners, and what it still brings is lost.                            *)
Abandons ==
  /\ BackOff
  /\ sock' = "none" /\ arriving' = <<>> /\ queue' = <<>>
  /\ gateway' = [gateway EXCEPT !.attached = FALSE]

(* The token and the address have come; the new socket is made without     *)
(* another look at _stopped.                                               *)
GetAddress ==
  /\ pc = "address"
  /\ \/ pc' = "open" /\ sock' = "connecting" /\ UNCHANGED faults
     \/ Fault /\ BackOff /\ UNCHANGED sock
  /\ arriving' = <<>> /\ queue' = <<>>
  /\ UNCHANGED <<stopped, clientVars, gatewayVars, sent, repushes, historyVars>>

Opened ==
  /\ pc = "open" /\ sock = "connecting"
  /\ sock' = "open"
  /\ pc' = "hello"
  /\ arriving' = <<Plain("hello")>>
  /\ UNCHANGED <<stopped, queue, clientVars, gatewayVars, boundVars, historyVars>>

WakeUp ==
  /\ pc = "backoff"
  /\ RoundAgain
  /\ UNCHANGED <<stopped, sock, arriving, queue, clientVars, gatewayVars>>
  /\ UNCHANGED <<boundVars, historyVars>>

(* The close event.  It ends a wait for a frame and fails a handshake; the *)
(* listener does nothing while connect() is in onMessage.                  *)
Closed ==
  /\ EventTurn
  /\ sock = "closing" /\ arriving = <<>>
  /\ sock' = "closed"
  /\ gateway' = [gateway EXCEPT !.attached = FALSE]
  /\ asked' = Nobody
  /\ \/ pc = "frame" /\ RoundAgain /\ UNCHANGED deaf
     \/ pc \in Handshake \cup {"open"} /\ BackOff /\ UNCHANGED deaf
     \/ pc = "handler" /\ deaf' = TRUE /\ UNCHANGED pc
  /\ UNCHANGED <<stopped, arriving, queue, clientVars, boundVars, taken, outcomeVars>>

Stop ==
  /\ ~stopped
  /\ EventTurn
  /\ stopped' = TRUE
  /\ IF sock \in {"connecting", "open"}
     THEN sock' = "closing" /\ arriving' = <<>>
     ELSE UNCHANGED <<sock, arriving>>
  /\ UNCHANGED <<pc, queue, clientVars, gatewayVars, boundVars, historyVars>>

-----------------------------------------------------------------------------
(* The handshake, and the frames that arrive. *)

(* _handshake.  The session of a READY frame is in its `seq`.              *)
ShakeHands ==
  LET answer == Head(arriving).op IN
  \/ /\ pc = "hello" /\ session # 0
     /\ pc' = "resumed" /\ UNCHANGED <<session, lastSeq>> /\ Asks("resume")
  \/ /\ pc = "hello" /\ session = 0
     /\ pc' = "ready" /\ UNCHANGED <<session, lastSeq>> /\ Asks("identify")
  \/ /\ pc = "resumed" /\ answer = "resumed"
     /\ pc' = "frame" /\ UNCHANGED <<session, lastSeq, asked>>
  \/ /\ pc = "resumed" /\ answer = "invalid"
     /\ pc' = "ready" /\ session' = 0 /\ lastSeq' = 0 /\ Asks("identify")
  \/ /\ pc = "resumed" /\ answer \notin {"resumed", "invalid"}
     /\ pc' = "ready" /\ UNCHANGED <<session, lastSeq>> /\ Asks("identify")
  \/ /\ pc = "ready"
     /\ pc' = "frame" /\ session' = Head(arriving).seq /\ UNCHANGED <<lastSeq, asked>>

Shakes ==
  /\ pc \in Handshake
  /\ arriving # <<>>
  /\ \/ /\ pc = "ready" => Head(arriving).op = "ready"
        /\ arriving' = Tail(arriving)
        /\ ShakeHands
        /\ UNCHANGED <<sock, queue, gateway>>
     \/ /\ pc = "ready" /\ Head(arriving).op # "ready"
        /\ Abandons
        /\ UNCHANGED <<session, lastSeq, asked>>
  /\ UNCHANGED <<stopped, recent, boundVars, historyVars>>

(* Mutant of Arrives: a frame counts as received when it is queued. *)
ArrivesCounted ==
  /\ EventTurn
  /\ pc \in {"frame", "handler"}
  /\ arriving # <<>>
  /\ arriving' = Tail(arriving)
  /\ queue' = Append(queue, Head(arriving))
  /\ lastSeq' = IF Head(arriving).op = "message" THEN Head(arriving).seq ELSE lastSeq
  /\ UNCHANGED <<pc, stopped, sock, session, recent, gatewayVars, boundVars>>
  /\ UNCHANGED historyVars

(* The message listener: into the queue, from which connect() takes it.    *)
Arrives ==
  /\ EventTurn
  /\ pc \in {"frame", "handler"}
  /\ arriving # <<>>
  /\ arriving' = Tail(arriving)
  /\ queue' = Append(queue, Head(arriving))
  /\ UNCHANGED <<pc, stopped, sock, clientVars, gatewayVars, boundVars, historyVars>>

(* The ids are in a Set, which keeps their order: the oldest one goes.     *)
Remember(m) ==
  LET ids == Append(recent, m) IN
  recent' = IF Len(ids) > Recent THEN Tail(ids) ELSE ids

Reconnect ==
  /\ sock' = IF sock = "open" THEN "closing" ELSE sock
  /\ arriving' = <<>>
  /\ UNCHANGED <<pc, clientVars, historyVars>>

Forget ==
  /\ session' = 0 /\ lastSeq' = 0
  /\ UNCHANGED <<pc, sock, arriving, recent, historyVars>>

(* _handleFrame for a message: a new one is remembered and goes to its     *)
(* agent, at once if the agents service has it; if not, onMessage awaits   *)
(* the making of one.                                                      *)
Take(m, n) ==
  /\ lastSeq' = n
  /\ IF Contains(recent, m) THEN UNCHANGED <<recent, pc, taken, handed>>
     ELSE /\ Remember(m)
          /\ taken' = Append(taken, m)
          /\ \/ pc' = "frame" /\ handed' = handed \cup {m}
             \/ pc' = "handler" /\ UNCHANGED handed
  /\ UNCHANGED <<session, sock, arriving, refused, failed, deaf>>

TakesFrame ==
  /\ pc = "frame"
  /\ queue # <<>>
  /\ queue' = Tail(queue)
  /\ LET frame == Head(queue) IN
     \/ frame.op = "message" /\ Take(frame.id, frame.seq)
     \/ frame.op = "reconnect" /\ Reconnect
     \/ frame.op = "invalid" /\ Forget
  /\ UNCHANGED <<stopped, gatewayVars, boundVars>>

(* onMessage goes on with the message that was taken last: its agent is    *)
(* made and has it, or there is none and an apology goes out, or that      *)
(* fails too and the exception leaves _runSocket.                          *)
Handled ==
  /\ pc = "handler"
  /\ LET m == Last(taken) IN
     \/ /\ pc' = "frame"
        /\ \/ handed' = handed \cup {m} /\ UNCHANGED <<refused, faults>>
           \/ refused' = refused \cup {m} /\ Fault /\ UNCHANGED handed
        /\ UNCHANGED <<sock, arriving, queue, gateway, failed>>
     \/ /\ failed' = failed \cup {m} /\ Fault
        /\ Abandons
        /\ UNCHANGED <<handed, refused>>
  /\ UNCHANGED <<stopped, clientVars, asked, sent, repushes, taken, deaf>>

-----------------------------------------------------------------------------
Init == GatewayInit /\ queue = <<>>

Client == GetAddress \/ Opened \/ WakeUp \/ Closed \/ Shakes \/ Arrives \/ TakesFrame \/ Handled

Next == Client \/ Stop \/ (GatewayNext /\ UNCHANGED queue)

Spec == Init /\ [][Next]_vars

(* The event loop runs what can run; the services that are called answer   *)
(* or fail; the gateway answers.                                           *)
FairSpec == Spec /\ WF_vars(Client) /\ WF_vars(Answers /\ UNCHANGED queue)
-----------------------------------------------------------------------------
(* The effect that a plugin registers, "torn down when the plugin fiber    *)
(* unloads" (index.js), is stop(): whatever await the client is in and     *)
(* whatever comes at the same time, its coroutine ends and leaves the      *)
(* socket that stop() closed.  Two cases are left out: a client that has   *)
(* missed the end of its socket waits for good, and one that was getting   *)
(* an address opens that socket after stop(), and keeps it.                *)
StopEnds ==
  (stopped /\ pc # "address" /\ sock \notin {"connecting", "open"})
    ~> (pc = "ended" \/ deaf)

(* When its connection ends the client makes another one (client.js,       *)
(* "keeps the socket alive ... and reconnects with RESUME after short      *)
(* drops").                                                                *)
ReconnectsAfterDrop == sock = "closed" ~> sock = "open" \/ stopped
=============================================================================
