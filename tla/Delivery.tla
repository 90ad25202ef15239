------------------------------ MODULE Delivery ------------------------------
(***************************************************************************)
(* What BridgeHub._send promises of a text, whatever the channel: its      *)
(* parts are shown in order; what counts as sent was shown; a part is      *)
(* shown again, or after it was given up, only if a try of it ended        *)
(* without an answer, so that nobody could know.                           *)
(*                                                                         *)
(* The abstract specification that Sending implements on each channel.     *)
(***************************************************************************)
EXTENDS Naturals, Sequences, SequencesExt

CONSTANTS
  Tasks,     (* the tasks that send                                        *)
  Parts,     (* of a task: parts of its texts                              *)
  MaxSends   (* bound: texts a task sends                                  *)

VARIABLES
  sends,      (* texts each task has begun                                 *)
  part,       (* the part each task is at, 0 between texts                 *)
  shown,      (* parts people saw, in order                                *)
  delivered,  (* parts that count as sent                                  *)
  unanswered, (* parts with a try that ended without an answer             *)
  late        (* parts shown by such a try, at any time                    *)

deliveryVars == <<sends, part, shown, delivered, unanswered, late>>

Texts      == [task : Tasks, text : Nat \ {0}, part : Nat \ {0}]
Current(t) == [task |-> t, text |-> sends[t], part |-> part[t]]

(* p is of the same task as q, and q is to be shown after it. *)
Before(p, q) ==
  p.task = q.task /\ (p.text < q.text \/ (p.text = q.text /\ p.part < q.part))

-----------------------------------------------------------------------------
Begin(t) ==
  /\ part[t] = 0 /\ sends[t] < MaxSends
  /\ sends' = [sends EXCEPT ![t] = @ + 1]
  /\ part' = [part EXCEPT ![t] = 1]
  /\ UNCHANGED <<shown, delivered, unanswered, late>>

(* The next part, or the end of the text. *)
MoveOn(t) == part' = [part EXCEPT ![t] = IF @ < Parts[t] THEN @ + 1 ELSE 0]

Deliver(t) ==
  /\ part[t] # 0 /\ Contains(shown, Current(t))
  /\ delivered' = delivered \cup {Current(t)}
  /\ MoveOn(t)
  /\ UNCHANGED <<sends, shown, unanswered, late>>

(* A try ends, without an answer or with a refusal; another one follows or *)
(* none.                                                                   *)
Fail(t) ==
  /\ part[t] # 0
  /\ unanswered' \in {unanswered, unanswered \cup {Current(t)}}
  /\ MoveOn(t) \/ UNCHANGED part
  /\ UNCHANGED <<sends, shown, delivered, late>>

Show(p) ==
  /\ \/ p \in unanswered
     \/ ~Contains(shown, p) /\ \E t \in Tasks : part[t] # 0 /\ p = Current(t)
  /\ shown' = Append(shown, p)
  /\ UNCHANGED <<sends, part, delivered, unanswered>>

(* In order, or late. *)
ShowInTurn(p) ==
  /\ \A i \in DOMAIN shown : ~Before(p, shown[i])
  /\ Show(p) /\ UNCHANGED late

ShowLate(p) == p \in unanswered /\ Show(p) /\ late' = late \cup {p}

-----------------------------------------------------------------------------
DeliveryInit ==
  /\ sends = [t \in Tasks |-> 0] /\ part = [t \in Tasks |-> 0]
  /\ shown = <<>> /\ delivered = {} /\ unanswered = {} /\ late = {}

(* What may be shown. *)
Showable == unanswered \cup {Current(t) : t \in Tasks}

DeliveryNext ==
  \/ \E t \in Tasks : Begin(t) \/ Deliver(t) \/ Fail(t)
  \/ \E p \in Showable : ShowInTurn(p) \/ ShowLate(p)

DeliverySpec == DeliveryInit /\ [][DeliveryNext]_deliveryVars
-----------------------------------------------------------------------------
(* The values the variables take. *)
DeliveryTypeOK ==
  /\ sends \in [Tasks -> Nat]
  /\ part \in [Tasks -> Nat] /\ \A t \in Tasks : part[t] # 0 => sends[t] # 0
  /\ shown \in Seq(Texts) /\ delivered \subseteq Texts
  /\ unanswered \subseteq Texts /\ late \subseteq unanswered

(* A part that counts as sent was shown. *)
DeliveredIsShown == \A p \in delivered : Contains(shown, p)

(* A person sees a part twice only if a try of it ended without an answer. *)
ShownAgainOnlyUnanswered ==
  \A i, j \in DOMAIN shown : i < j /\ shown[i] = shown[j] => shown[i] \in unanswered

(* What one task sends is shown in order, save what is late. *)
PartsInOrder ==
  \A i, j \in DOMAIN shown : i < j /\ Before(shown[j], shown[i]) => shown[j] \in late
=============================================================================
