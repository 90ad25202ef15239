------------------------------ MODULE Sending ------------------------------
(***************************************************************************)
(* A text on its way out: BridgeHub._send and _send_one of hub.py.  A text *)
(* goes out in parts, and each part is tried a few times on the channel of *)
(* the conversation.                                                       *)
(*                                                                         *)
(* Several tasks send at once (the consumer, the mux reader, catch-up), on *)
(* one event loop: an action is the code from one await to the next.  What *)
(* a try does is the channel's: OneBotSending for channels/qq.py, and      *)
(* HttpSending for those that post from a thread.  This module has what    *)
(* they share, and what both must do: implement Delivery.                  *)
(***************************************************************************)
EXTENDS Naturals, Sequences, SequencesExt

CONSTANTS
  Tasks,     (* the tasks that send                                        *)
  Parts,     (* of a task: parts of its texts, what split_message returns  *)
  Attempts,  (* tries of a part, sendRetries + 1                           *)
  MaxSends   (* bound: texts a task sends                                  *)

ASSUME SendingAssumption ==
  /\ Parts \in [Tasks -> Nat \ {0}] /\ Attempts \in Nat \ {0} /\ MaxSends \in Nat

VARIABLES
  at,        (* where each task is, see below                              *)
  sends,     (* texts each task has begun, up to MaxSends                  *)
  (* History, read by the properties only:                                 *)
  shown,     (* parts people saw, in order                                 *)
  delivered, (* parts for which channel.send returned                      *)
  unanswered,(* parts with a try that was given up without an answer       *)
  late       (* parts shown by a post that had been given up               *)

taskVars    == <<at, sends>>
historyVars == <<shown, delivered, unanswered, late>>

(* `at` is [pc, part, attempt], with pc "idle"; "trying" on the way to the *)
(* next await; "waiting" for the channel; "pausing" before the next try.   *)
Idle == [pc |-> "idle", part |-> 1, attempt |-> 1]

Texts   == [task : Tasks, text : 1..MaxSends, part : Nat \ {0}]
Part(t) == [task |-> t, text |-> sends[t], part |-> at[t].part]

(* No other coroutine runs while a task is on its way to its next await.   *)
Turn == \A t \in Tasks : at[t].pc # "trying"

-----------------------------------------------------------------------------
Sends(t) ==
  /\ Turn
  /\ at[t].pc = "idle" /\ sends[t] < MaxSends
  /\ sends' = [sends EXCEPT ![t] = @ + 1]
  /\ at' = [at EXCEPT ![t] = [Idle EXCEPT !.pc = "trying"]]
  /\ UNCHANGED historyVars

(* The part is done with, shown or given up. *)
Settled(t) ==
  IF at[t].part < Parts[t]
  THEN [Idle EXCEPT !.pc = "trying", !.part = at[t].part + 1]
  ELSE Idle

(* channel.send raised: a pause and another try, or the part is given up.  *)
Failed(t) ==
  IF at[t].attempt < Attempts THEN [at[t] EXCEPT !.pc = "pausing"] ELSE Settled(t)

Resumes(t) ==
  /\ Turn
  /\ at[t].pc = "pausing"
  /\ at' = [at EXCEPT ![t] = [pc |-> "trying", part |-> @.part, attempt |-> @.attempt + 1]]
  /\ UNCHANGED <<sends, historyVars>>

SendingInit ==
  /\ at = [t \in Tasks |-> Idle] /\ sends = [t \in Tasks |-> 0]
  /\ shown = <<>> /\ delivered = {} /\ unanswered = {} /\ late = {}
-----------------------------------------------------------------------------
(* Sending keeps the promise of Delivery: what counts as sent was shown,   *)
(* so no answer is taken for that to another request; nothing is shown     *)
(* again, nor after it was given up, but for a try without an answer; and  *)
(* parts come in order (config.example.yaml:23), whatever was tried again. *)
Promise == INSTANCE Delivery
  WITH part <- [t \in Tasks |-> IF at[t].pc = "idle" THEN 0 ELSE at[t].part]
DeliveryRefinement == Promise!DeliverySpec

(* Sending comes to an end, with no answer and no connection too: neither  *)
(* the consumer nor the mux reader is held up for good.                    *)
SendsEnd == \A t \in Tasks : []<>(at[t].pc = "idle")
=============================================================================
