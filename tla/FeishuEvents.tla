---------------------------- MODULE FeishuEvents ----------------------------
(***************************************************************************)
(* The event service of Feishu as its long connection shows it: it pushes  *)
(* every event until a client acknowledges it, again on each connection.   *)
(* There are two clients, the feishu channel of the bridge (FeishuChannel) *)
(* and the dsh-feishu plugin (FeishuSocket); this module has what is the   *)
(* same for both, and the properties both must have.                       *)
(*                                                                         *)
(* The service is external: the clients acknowledge, so it may push again. *)
(***************************************************************************)
EXTENDS Naturals, Sequences, SequencesExt

CONSTANTS
  MaxEvents, (* bound: events of the service                               *)
  Others,    (* of them, no messages for us: other types, chats, no text,  *)
             (* and messages that are encrypted                            *)
  Rich,      (* of them, messages whose content has no plain text and      *)
             (* makes the handler raise, such as a post of several lines   *)
  MaxFaults  (* bound: connections lost, failed calls, repeated pushes     *)

Events == 1..MaxEvents

ASSUME FeishuAssumption ==
  /\ MaxEvents \in Nat /\ MaxFaults \in Nat
  /\ Others \subseteq Events /\ Rich \subseteq Events /\ Others \cap Rich = {}

VARIABLES
  pc,        (* what the client's coroutine awaits, see below              *)
  stopped,   (* stop() has been called                                     *)
  sock,      (* the socket in use, see below                               *)
  arriving,  (* events pushed that the client has not been given yet       *)
  inHand,    (* the event the handler is at, 0 for none                    *)
  acks,      (* acknowledgements written that the service has not read     *)
  unacked,   (* events the service goes on pushing                         *)
  emitted, faults,   (* so far, up to the bounds                           *)
  (* History, read by the properties only:                                 *)
  taken,     (* events handed on, in order                                 *)
  acked,     (* events the client has acknowledged                         *)
  told,      (* events with no agent, whose sender was asked to repeat     *)
  untold,    (* events with no agent, where that apology failed as well    *)
  deaf       (* the client has missed the end of its socket                *)

serviceVars == <<unacked, emitted>>
historyVars == <<taken, acked, told, untold, deaf>>

refused == told \cup untold   (* there was no agent for them *)

(* `pc` is "address" for the URL of the service, "open" for the open       *)
(* event, "frame" for the next frame, "handler" for onMessage, "ack" for   *)
(* the writing of an acknowledgement, "backoff" for the pause after an     *)
(* error, and "ended".  `sock` is "none", "connecting", "open", "closing"  *)
(* when no frames come but those under way and then the close event, or    *)
(* "closed".                                                               *)

Fault == faults < MaxFaults /\ faults' = faults + 1

(* A connection begins with what was not acknowledged, in order: the one   *)
(* element of this set.                                                    *)
Backlogs ==
  {q \in SetToSeqs(unacked) : \A i, j \in DOMAIN q : i < j => q[i] < q[j]}

(* The client acknowledges e; on a closed socket nobody hears it. *)
Acknowledges(e) ==
  /\ acked' = acked \cup {e}
  /\ acks' = IF sock = "open" THEN Append(acks, e) ELSE acks

(* The handler raised over e: the service pushes it again on the next      *)
(* connection, or at some time gives it up.                                *)
NotAcknowledged(e) ==
  /\ \/ Fault /\ UNCHANGED unacked
     \/ unacked' = unacked \ {e} /\ UNCHANGED faults
  /\ UNCHANGED emitted

-----------------------------------------------------------------------------
Emits ==
  /\ emitted < MaxEvents
  /\ emitted' = emitted + 1
  /\ unacked' = unacked \cup {emitted'}
  /\ arriving' = IF sock = "open" THEN Append(arriving, emitted') ELSE arriving
  /\ UNCHANGED <<pc, stopped, sock, inHand, acks, faults, historyVars>>

PushesAgain ==
  /\ sock = "open"
  /\ Fault
  /\ \E e \in unacked : arriving' = Append(arriving, e)
  /\ UNCHANGED <<pc, stopped, sock, inHand, acks, serviceVars, historyVars>>

ReadsAck ==
  /\ acks # <<>>
  /\ acks' = Tail(acks)
  /\ unacked' = unacked \ {Head(acks)}
  /\ UNCHANGED <<pc, stopped, sock, inHand, arriving, emitted, faults, historyVars>>

(* What had not arrived may be lost, either way. *)
ConnectionLost ==
  /\ sock \in {"connecting", "open"}
  /\ Fault
  /\ sock' = "closing"
  /\ \E k \in 0 .. Len(arriving) : arriving' = SubSeq(arriving, 1, k)
  /\ \E k \in 0 .. Len(acks) : acks' = SubSeq(acks, 1, k)
  /\ UNCHANGED <<pc, stopped, inHand, serviceVars, historyVars>>

-----------------------------------------------------------------------------
EventsInit ==
  /\ pc = "address" /\ stopped = FALSE /\ sock = "none"
  /\ arriving = <<>> /\ inHand = 0 /\ acks = <<>> /\ unacked = {}
  /\ emitted = 0 /\ faults = 0
  /\ taken = <<>> /\ acked = {} /\ told = {} /\ untold = {} /\ deaf = FALSE

EventsNext == Emits \/ PushesAgain \/ ReadsAck \/ ConnectionLost
-----------------------------------------------------------------------------
(* A message that was acknowledged, and so is not pushed again, was handed *)
(* on, or its sender was asked to repeat it.  It is lost in silence in one *)
(* case only: there was no agent for it, and the apology failed as well,   *)
(* which the plugin swallows (plugins/dsh-feishu/lib/index.js:120).        *)
AckedIsTaken == acked \ untold \subseteq ToSet(taken) \cup told \cup Others

(* Messages are handed on in the order they were sent, over lost           *)
(* connections and repeated pushes; a message can come late only when it   *)
(* has come before, or there was no agent for it then.                     *)
OrderKept ==
  \A i, j \in DOMAIN taken : i < j /\ taken[j] < taken[i] =>
    \/ \E k \in 1 .. i - 1 : taken[k] = taken[j]
    \/ taken[j] \in refused

=============================================================================
