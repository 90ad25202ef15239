------------------------------ MODULE QqGateway ------------------------------
(***************************************************************************)
(* The gateway of the QQ open platform and what a client of it keeps: the  *)
(* session it resumes, the position in it, and the ids of recent messages. *)
(* There are two clients, the dsh-qq plugin (PluginSocket) and the         *)
(* qq_official channel of the bridge (QqOfficial); this module has what is *)
(* the same for both, and the properties both must have.                   *)
(*                                                                         *)
(* The gateway is external: it does what the clients' handshakes and their *)
(* tests expect of it.                                                     *)
(***************************************************************************)
EXTENDS Naturals, Sequences, SequencesExt

CONSTANTS
  Recent,      (* remembered message ids: 500 in the plugin, 200 in the    *)
               (* channel                                                  *)
  MaxMessages, (* bound: messages people send                              *)
  MaxRepushes, (* bound: times the gateway pushes a message again          *)
  MaxFaults    (* bound: connections lost, sessions expired, failed calls  *)

ASSUME SocketAssumption ==
  /\ Recent \in Nat \ {0}
  /\ MaxMessages \in Nat /\ MaxRepushes \in Nat /\ MaxFaults \in Nat

VARIABLES
  pc,        (* what the client's coroutine awaits, see below              *)
  stopped,   (* stop() has been called                                     *)
  sock,      (* the socket in use, see below                               *)
  arriving,  (* frames the client has not been given yet                   *)
  session,   (* _sessionId, _session_id; 0 for none                        *)
  lastSeq,   (* _lastSeq, _last_seq                                        *)
  recent,    (* _recentMsgIds, _recent_msg_ids, in insertion order         *)
  asked,     (* what the gateway was last asked: [op, session, seq]        *)
  gateway,   (* [session, valid, attached, log]: its session, whether it   *)
             (* can be resumed, is fed to the socket, and its events       *)
  sent, repushes, faults,   (* so far, up to the bounds                    *)
  (* History, read by the properties only:                                 *)
  taken,     (* messages the client has taken, in order; they have an      *)
             (* outcome unless it awaits one in onMessage:                 *)
  handed,    (* given to their agent, or to the hub                        *)
  refused,   (* no agent, and the sender was told                          *)
  failed,    (* no agent, and telling the sender failed too                *)
  deaf       (* the client has missed the end of its socket                *)

clientVars  == <<session, lastSeq, recent>>
gatewayVars == <<asked, gateway>>
boundVars   == <<sent, repushes, faults>>
outcomeVars == <<handed, refused, failed>>
historyVars == <<taken, outcomeVars, deaf>>

(* `pc` is "address" for a token and the gateway's URL, "open" for the     *)
(* open event, one of Handshake for that frame, "frame" for the next one,  *)
(* "handler" for onMessage, "backoff" for the pause after a socket, and    *)
(* "ended".  `sock` is "none", "connecting", "open", "closing" when no     *)
(* frames come but those under way and then the close event, or "closed".  *)
Handshake == {"hello", "resumed", "ready"}

Messages == 1..MaxMessages
Plain(op)  == [op |-> op, id |-> 0, seq |-> 0]
Push(m, n) == [op |-> "message", id |-> m, seq |-> n]
Nobody     == [op |-> "none", session |-> 0, seq |-> 0]

Fault == faults < MaxFaults /\ faults' = faults + 1

(* A client asks for its session, or for a new one. *)
Asks(op) == asked' = [op |-> op, session |-> session', seq |-> lastSeq']

-----------------------------------------------------------------------------
(* The gateway answers what it is asked, resumes a session from the        *)
(* position it is told, and pushes every message of its session in order,  *)
(* some of them again.                                                     *)

Pushes(log, from) == [i \in 1 .. Len(log) - from |-> Push(log[from + i], from + i)]

Answers ==
  /\ asked.op # "none" /\ sock = "open"
  /\ asked' = Nobody
  /\ \/ /\ asked.op = "identify"
        /\ gateway' = [session |-> gateway.session + 1, valid |-> TRUE,
                       attached |-> TRUE, log |-> <<>>]
        /\ arriving' = <<[Plain("ready") EXCEPT !.seq = gateway'.session]>>
     \/ /\ asked.op = "resume" /\ gateway.valid
        /\ gateway' = [gateway EXCEPT !.attached = TRUE]
        /\ arriving' = <<Plain("resumed")>> \o Pushes(gateway.log, asked.seq)
     \/ /\ asked.op = "resume" /\ ~gateway.valid
        /\ arriving' = <<Plain("invalid")>> /\ UNCHANGED gateway
  /\ UNCHANGED <<pc, stopped, sock, clientVars, boundVars, historyVars>>

(* It turns a request away: it asks to reconnect, or refuses an IDENTIFY.  *)
TurnsAway ==
  /\ asked.op # "none" /\ sock = "open"
  /\ asked' = Nobody
  /\ Fault
  /\ \/ arriving' = <<Plain("reconnect")>> /\ sock' = "closing"
     \/ asked.op = "identify" /\ arriving' = <<Plain("invalid")>> /\ UNCHANGED sock
  /\ UNCHANGED <<pc, stopped, clientVars, gateway, sent, repushes, historyVars>>

Logs(m) ==
  /\ gateway' = [gateway EXCEPT !.log = Append(@, m)]
  /\ arriving' = IF gateway.attached /\ sock = "open"
                 THEN Append(arriving, Push(m, Len(gateway.log) + 1)) ELSE arriving
  /\ UNCHANGED <<pc, stopped, sock, clientVars, asked, faults, historyVars>>

PersonSends ==
  /\ gateway.valid /\ sent < MaxMessages
  /\ sent' = sent + 1
  /\ Logs(sent')
  /\ UNCHANGED repushes

PushesAgain ==
  /\ gateway.valid /\ repushes < MaxRepushes
  /\ repushes' = repushes + 1
  /\ \E i \in DOMAIN gateway.log : Logs(gateway.log[i])
  /\ UNCHANGED sent

AsksToReconnect ==
  /\ gateway.attached /\ sock = "open"
  /\ Fault
  /\ arriving' = Append(arriving, Plain("reconnect"))
  /\ UNCHANGED <<pc, stopped, sock, clientVars, gatewayVars>>
  /\ UNCHANGED <<sent, repushes, historyVars>>

(* The session ends; the gateway says so on its connection and closes it.  *)
SessionExpires ==
  /\ gateway.valid
  /\ Fault
  /\ gateway' = [gateway EXCEPT !.valid = FALSE, !.attached = FALSE]
  /\ IF gateway.attached /\ sock = "open"
     THEN sock' = "closing" /\ arriving' = Append(arriving, Plain("invalid"))
     ELSE UNCHANGED <<sock, arriving>>
  /\ UNCHANGED <<pc, stopped, clientVars, asked, sent, repushes>>
  /\ UNCHANGED historyVars

(* What had not arrived may be lost. *)
ConnectionLost ==
  /\ sock \in {"connecting", "open"}
  /\ Fault
  /\ sock' = "closing"
  /\ \E k \in 0 .. Len(arriving) : arriving' = SubSeq(arriving, 1, k)
  /\ gateway' = [gateway EXCEPT !.attached = FALSE]
  /\ asked' = Nobody
  /\ UNCHANGED <<pc, stopped, clientVars, sent, repushes, historyVars>>

-----------------------------------------------------------------------------
GatewayInit ==
  /\ pc = "address" /\ stopped = FALSE /\ sock = "none" /\ arriving = <<>>
  /\ session = 0 /\ lastSeq = 0 /\ recent = <<>>
  /\ asked = Nobody
  /\ gateway = [session |-> 0, valid |-> FALSE, attached |-> FALSE, log |-> <<>>]
  /\ sent = 0 /\ repushes = 0 /\ faults = 0
  /\ taken = <<>> /\ handed = {} /\ refused = {} /\ failed = {} /\ deaf = FALSE

GatewayNext ==
  \/ Answers \/ TurnsAway \/ PersonSends \/ PushesAgain
  \/ AsksToReconnect \/ SessionExpires \/ ConnectionLost
-----------------------------------------------------------------------------
(* Repeated pushes of a message are deduplicated, and messages are taken   *)
(* in the order they were sent, over any number of resumes; only what has  *)
(* left the bounded set of remembered ids can come a second time.          *)
TakenOnceInOrder ==
  \A i, j \in DOMAIN taken : i < j =>
    \/ taken[i] < taken[j]
    \/ \E k \in 1 .. j - 1 : taken[k] = taken[j] /\ j - k > Recent

(* The position a RESUME gives covers no message of the session that was   *)
(* not taken: what waits in the queue is pushed again.                     *)
PositionIsTaken ==
  session = gateway.session =>
    /\ lastSeq <= Len(gateway.log)
    /\ \A i \in 1 .. lastSeq : Contains(taken, gateway.log[i])

(* A message of the session the client is in reaches its agent or the hub, *)
(* or its sender is told that there is no agent, over lost connections and *)
(* failed calls, as long as the session can be resumed, the client is not  *)
(* stopped and has not missed the end of its socket.  One case is left     *)
(* out, and a person is then waiting for nothing: the plugin has counted   *)
(* the message and remembered its id when making the agent and telling the *)
(* sender fail one after the other (index.js:114-117).                     *)
MessagesArrive ==
  \A m \in Messages :
    (Contains(gateway.log, m) /\ session = gateway.session)
      ~> (m \in handed \cup refused \cup failed \/ ~gateway.valid \/ stopped \/ deaf)
=============================================================================
