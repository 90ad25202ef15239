--------------------------- MODULE Sending_proofs ---------------------------
(***************************************************************************)
(* Theorems about sending: each kind of channel implements Delivery, for   *)
(* all tasks, texts, attempts and bounds.  First what the channels share,  *)
(* then the invariant and the steps of each of them.                       *)
(***************************************************************************)
EXTENDS OneBotSending, HttpSending, TLAPS

Busy(t)      == at[t].pc # "idle"
Before(p, q) == Promise!Before(p, q)

(* Its task has come to p. *)
Reached(p) ==
  \/ p.text < sends[p.task]
  \/ p.text = sends[p.task] /\ (Busy(p.task) => p.part <= at[p.task].part)

(* Delivery allows to show p. *)
Open(p) == ~Contains(shown, p) \/ p \in unanswered

SendTypes ==
  /\ at \in [Tasks -> [pc : {"idle", "trying", "waiting", "pausing"},
                       part : Nat \ {0}, attempt : Nat \ {0}]]
  /\ sends \in [Tasks -> 0 .. MaxSends] /\ \A t \in Tasks : Busy(t) => sends[t] # 0
  /\ shown \in Seq(Texts) /\ delivered \subseteq Texts /\ unanswered \subseteq Texts

(* Nothing is shown before its task has come to it, and what a task tries  *)
(* again was not shown before, as far as somebody could know.              *)
SendInv ==
  /\ SendTypes
  /\ \A i \in DOMAIN shown : Reached(shown[i])
  /\ \A p \in unanswered : Reached(p)
  /\ \A t \in Tasks : at[t].pc \in {"trying", "pausing"} => Open(Part(t))

-----------------------------------------------------------------------------
(* What is known of the sequence of parts that people saw. *)
LEMMA ContainsIsElement ==
  ASSUME SendTypes, NEW p
  PROVE  Contains(shown, p) <=> \E i \in DOMAIN shown : shown[i] = p
  BY DEF Contains, SendTypes

LEMMA OneMoreShown ==
  ASSUME SendTypes, NEW q \in Texts, shown' = Append(shown, q)
  PROVE  /\ shown' \in Seq(Texts)
         /\ \A i \in DOMAIN shown' : (i \in DOMAIN shown /\ shown'[i] = shown[i]) \/ shown'[i] = q
         /\ \A p : Contains(shown', p) <=> Contains(shown, p) \/ p = q
<1>1. shown \in Seq(Texts) /\ shown' \in Seq(Texts)
  BY DEF SendTypes
<1>2. /\ DOMAIN shown' = DOMAIN shown \cup {Len(shown) + 1}
      /\ \A i \in DOMAIN shown : shown'[i] = shown[i]
      /\ shown'[Len(shown) + 1] = q
  BY <1>1
<1>3. \A p : Contains(shown', p) <=> \E i \in DOMAIN shown' : shown'[i] = p
  BY <1>1 DEF Contains
<1> QED BY <1>1, <1>2, <1>3, ContainsIsElement

LEMMA PartIsText == ASSUME SendTypes, NEW t \in Tasks, Busy(t) PROVE Part(t) \in Texts /\ Reached(Part(t))
  BY SendingAssumption DEF SendTypes, Part, Texts, Reached

(* What is reached does not come after what its task is at. *)
LEMMA ReachedIsNotAfter ==
  ASSUME SendTypes, NEW t \in Tasks, Busy(t), NEW q \in Texts, Reached(q)
  PROVE  ~Before(Part(t), q)
  BY SendingAssumption DEF SendTypes, Before, Promise!Before, Part, Reached, Texts

LEMMA UnreachedIsUnseen ==
  ASSUME SendInv, NEW q, ~Reached(q)
  PROVE  ~Contains(shown, q)
  BY ContainsIsElement DEF SendInv

-----------------------------------------------------------------------------
(* The steps of a task. *)
Places == [pc : {"idle", "trying", "waiting", "pausing"}, part : Nat \ {0}, attempt : Nat \ {0}]

LEMMA ResumesInPlace ==
  ASSUME SendTypes, NEW t \in Tasks, Resumes(t)
  PROVE  LET x == [pc |-> "trying", part |-> at[t].part, attempt |-> at[t].attempt + 1] IN
         /\ x \in Places /\ x.pc = "trying" /\ x.part = at[t].part /\ at[t].pc = "pausing"
         /\ at' = [at EXCEPT ![t] = x] /\ UNCHANGED <<sends, historyVars>>
<1>1. at[t] \in Places
  BY DEF SendTypes, Places
<1>2. [pc |-> "trying", part |-> at[t].part, attempt |-> at[t].attempt + 1] \in Places
  BY <1>1 DEF Places
<1> QED BY <1>2 DEF Resumes

LEMMA SettledPlace ==
  ASSUME SendTypes, NEW t \in Tasks
  PROVE  /\ Settled(t) \in Places
         /\ \/ Settled(t).pc = "idle"
            \/ Settled(t).pc = "trying" /\ Settled(t).part = at[t].part + 1
<1>1. \/ Settled(t) = [pc |-> "idle", part |-> 1, attempt |-> 1]
      \/ Settled(t) = [pc |-> "trying", part |-> at[t].part + 1, attempt |-> 1]
  BY DEF Settled, Idle
<1> QED BY <1>1 DEF SendTypes, Places

LEMMA FailedPlace ==
  ASSUME SendTypes, NEW t \in Tasks
  PROVE  /\ Failed(t) \in Places
         /\ \/ Failed(t).pc = "idle"
            \/ Failed(t).pc = "trying" /\ Failed(t).part = at[t].part + 1
            \/ Failed(t).pc = "pausing" /\ Failed(t).part = at[t].part
  BY SettledPlace DEF SendTypes, Failed, Places

(* What a step of another task, or of a task that stays at its part, keeps. *)
LEMMA OtherParts ==
  ASSUME SendTypes, NEW t \in Tasks, NEW x \in Places, at' = [at EXCEPT ![t] = x], UNCHANGED sends
  PROVE  \A u \in Tasks : (u # t \/ x.part = at[t].part) => Part(u)' = Part(u)
  BY DEF SendTypes, Part, Places

(* A task goes on: with its part, with the next one or with none.          *)
LEMMA TaskMoves ==
  ASSUME SendInv, NEW t \in Tasks, Busy(t), NEW x \in Places, at' = [at EXCEPT ![t] = x],
         UNCHANGED <<sends, shown>>, delivered' \subseteq Texts,
         unanswered' \in {unanswered, unanswered \cup {Part(t)}},
         \/ x.pc = "idle"
         \/ x.part = at[t].part + 1
         \/ x.part = at[t].part /\ (x.pc \in {"trying", "pausing"} => Open(Part(t))')
  PROVE  SendInv' /\ \A p \in Texts : (Reached(p) => Reached(p)') /\ (Open(p) => Open(p)')
<1>1. SendTypes /\ at \in [Tasks -> Places]
  BY DEF SendInv, SendTypes, Places
<1>2. SendTypes'
  BY <1>1, PartIsText DEF SendTypes, Places, Busy
<1>3. \A p \in Texts : (Reached(p) => Reached(p)')
  BY <1>1 DEF Reached, Busy, Places, Texts, SendTypes
<1>4. \A p : Open(p) => Open(p)'
  BY DEF Open
<1>5. (\A i \in DOMAIN shown : Reached(shown[i]))' /\ (\A p \in unanswered : Reached(p))'
  BY <1>1, <1>3, PartIsText DEF SendInv, SendTypes
<1>6. ASSUME NEW u \in Tasks, at'[u].pc \in {"trying", "pausing"} PROVE Open(Part(u))'
  <2>1. CASE u # t
    BY <1>1, <1>4, <1>6, <2>1, OtherParts DEF SendInv
  <2>2. CASE u = t /\ x.part = at[t].part
    <3>1. Open(Part(t))'
      BY <1>1, <1>6, <2>2 DEF Places
    <3> QED BY <2>2, <3>1
  <2>3. CASE u = t /\ x.part = at[t].part + 1
    <3>1. ~Reached(Part(t)')
      BY <1>1, <2>3 DEF Part, Reached, Busy, Places, SendTypes
    <3> QED BY <3>1, <2>3, UnreachedIsUnseen DEF Open
  <2> QED BY <1>1, <1>6, <2>1, <2>2, <2>3
<1> QED BY <1>2, <1>3, <1>4, <1>5, <1>6 DEF SendInv

LEMMA SendsInv ==
  ASSUME SendInv, NEW t \in Tasks, Sends(t)
  PROVE  SendInv' /\ \A p \in Texts : (Reached(p) => Reached(p)') /\ (Open(p) => Open(p)')
<1>1. SendTypes /\ at \in [Tasks -> Places]
  BY DEF SendInv, SendTypes, Places
<1>2. /\ at' = [at EXCEPT ![t] = [pc |-> "trying", part |-> 1, attempt |-> 1]]
      /\ sends' = [sends EXCEPT ![t] = @ + 1]
      /\ at[t].pc = "idle" /\ sends[t] < MaxSends
      /\ UNCHANGED <<shown, delivered, unanswered>>
  <2>1. [Idle EXCEPT !.pc = "trying"] = [pc |-> "trying", part |-> 1, attempt |-> 1]
    BY DEF Idle
  <2> QED BY <2>1 DEF Sends, historyVars
<1>3. SendTypes'
  <2>1. at' \in [Tasks -> Places]
    BY <1>1, <1>2 DEF Places
  <2>2. sends' \in [Tasks -> 0 .. MaxSends] /\ \A u \in Tasks : Busy(u)' => sends'[u] # 0
    BY <1>1, <1>2, SendingAssumption DEF SendTypes, Busy
  <2> QED BY <1>1, <1>2, <2>1, <2>2 DEF SendTypes, Places
<1>4. \A p \in Texts : (Reached(p) => Reached(p)')
  BY <1>1, <1>2 DEF Reached, Busy, Places, Texts, SendTypes
<1>5. \A p : Open(p) => Open(p)'
  BY <1>2 DEF Open
<1>6. (\A i \in DOMAIN shown : Reached(shown[i]))' /\ (\A p \in unanswered : Reached(p))'
  BY <1>1, <1>2, <1>4 DEF SendInv, SendTypes
<1>7. ASSUME NEW u \in Tasks, at'[u].pc \in {"trying", "pausing"} PROVE Open(Part(u))'
  <2>1. CASE u # t
    <3>1. Part(u)' = Part(u) /\ at'[u] = at[u]
      BY <1>1, <1>2, <2>1 DEF Part, SendTypes
    <3> QED BY <1>5, <1>7, <3>1 DEF SendInv
  <2>2. CASE u = t
    <3>1. ~Reached(Part(t)')
      BY <1>1, <1>2 DEF Part, Reached, Busy, Places, SendTypes
    <3> QED BY <1>2, <3>1, <2>2, UnreachedIsUnseen DEF Open
  <2> QED BY <2>1, <2>2
<1> QED BY <1>3, <1>4, <1>5, <1>6, <1>7 DEF SendInv

(* A part is shown that no task may show any more, or that is unanswered.  *)
LEMMA ShowsInv ==
  ASSUME SendInv, NEW q \in Texts, Reached(q), shown' = Append(shown, q),
         UNCHANGED <<at, sends, delivered, unanswered>>,
         \A t \in Tasks : at[t].pc \in {"trying", "pausing"} /\ Part(t) = q => q \in unanswered
  PROVE  /\ SendInv' /\ \A p \in Texts : Reached(p) => Reached(p)'
         /\ \A p : Open(p) /\ (p # q \/ p \in unanswered) => Open(p)'
<1>1. SendTypes /\ SendTypes'
  BY OneMoreShown DEF SendInv, SendTypes, Busy
<1>2. \A p : Reached(p)' <=> Reached(p)
  BY DEF Reached, Busy
<1>3. \A p : Open(p) /\ (p # q \/ p \in unanswered) => Open(p)'
  BY <1>1, OneMoreShown DEF Open
<1>4. (\A i \in DOMAIN shown : Reached(shown[i]))' /\ (\A p \in unanswered : Reached(p))'
  BY <1>1, <1>2, OneMoreShown DEF SendInv
<1>5. \A t \in Tasks : Part(t)' = Part(t)
  BY DEF Part
<1> QED BY <1>1, <1>2, <1>3, <1>4, <1>5 DEF SendInv

(* Nothing of this is touched. *)
LEMMA NothingSent ==
  ASSUME UNCHANGED <<taskVars, shown, delivered, unanswered>>
  PROVE  /\ SendInv <=> SendInv'
         /\ \A p : (Reached(p)' <=> Reached(p)) /\ (Open(p)' <=> Open(p))
         /\ \A t : Part(t)' = Part(t)
<1>1. \A p : (Reached(p)' <=> Reached(p)) /\ (Open(p)' <=> Open(p))
  BY DEF taskVars, Reached, Open, Busy
<1>2. \A t : Part(t)' = Part(t)
  BY DEF taskVars, Part
<1>3. SendTypes <=> SendTypes'
  BY DEF taskVars, SendTypes, Busy
<1> QED BY <1>1, <1>2, <1>3 DEF taskVars, SendInv

-----------------------------------------------------------------------------
(* What the steps of a task are in Delivery. *)
LEMMA CurrentIsPart ==
  \A t \in Tasks : Busy(t) => Promise!Current(t) = Part(t)
  BY DEF Promise!Current, Part, Busy

LEMMA SameContains == \A q : Promise!Contains(shown, q) <=> Contains(shown, q)
  BY DEF Promise!Contains, Contains

LEMMA SendsIsBegin ==
  ASSUME SendTypes, NEW t \in Tasks, Sends(t)
  PROVE  Promise!Begin(t)
<1>1. [Idle EXCEPT !.pc = "trying"] = [pc |-> "trying", part |-> 1, attempt |-> 1]
  BY DEF Idle
<1> QED BY <1>1 DEF SendTypes, Sends, historyVars, Promise!Begin

(* The abstract task moves on, when its part is done with. *)
LEMMA SettledMovesOn ==
  ASSUME SendTypes, NEW t \in Tasks, Busy(t), at' = [at EXCEPT ![t] = Settled(t)]
  PROVE  Promise!MoveOn(t)
<1> DEFINE At(u) == IF at[u].pc = "idle" THEN 0 ELSE at[u].part
<1>1. at[t].part \in Nat /\ At(t) = at[t].part /\ \A u \in Tasks \ {t} : at'[u] = at[u]
  BY DEF SendTypes, Busy
<1>2. At(t)' = IF at[t].part < Parts[t] THEN at[t].part + 1 ELSE 0
  <2>1. at'[t] = Settled(t)
    BY DEF SendTypes
  <2>2. CASE at[t].part < Parts[t]
    <3>1. Settled(t) = [pc |-> "trying", part |-> at[t].part + 1, attempt |-> 1]
      BY <2>2 DEF Settled, Idle
    <3> QED BY <2>1, <2>2, <3>1
  <2>3. CASE ~(at[t].part < Parts[t])
    BY <2>1, <2>3 DEF Settled, Idle
  <2> QED BY <2>2, <2>3
<1>3. [u \in Tasks |-> At(u)'] = [[u \in Tasks |-> At(u)] EXCEPT ![t] = IF @ < Parts[t] THEN @ + 1 ELSE 0]
  <2>1. \A u \in Tasks \ {t} : At(u)' = At(u)
    BY <1>1
  <2> HIDE DEF At
  <2> QED BY <1>1, <1>2, <2>1
<1> QED BY <1>3 DEF Promise!MoveOn

LEMMA SettledIsDeliver ==
  ASSUME SendTypes, NEW t \in Tasks, Busy(t), at' = [at EXCEPT ![t] = Settled(t)],
         Contains(shown, Part(t)), delivered' = delivered \cup {Part(t)},
         UNCHANGED <<sends, shown, unanswered, late>>
  PROVE  Promise!Deliver(t)
  BY CurrentIsPart, SettledMovesOn, SameContains DEF SendTypes, Busy, Promise!Deliver

(* A task that is still at its part. *)
LEMMA SamePart ==
  ASSUME SendTypes, NEW t \in Tasks, Busy(t), NEW x \in Places, at' = [at EXCEPT ![t] = x],
         x.pc # "idle", x.part = at[t].part
  PROVE  [u \in Tasks |-> IF at'[u].pc = "idle" THEN 0 ELSE at'[u].part]
           = [u \in Tasks |-> IF at[u].pc = "idle" THEN 0 ELSE at[u].part]
  BY DEF SendTypes, Busy, Places

LEMMA StaysIsStutter ==
  ASSUME SendTypes, NEW t \in Tasks, Busy(t), NEW x \in Places, at' = [at EXCEPT ![t] = x],
         x.pc # "idle", x.part = at[t].part, UNCHANGED <<sends, historyVars>>
  PROVE  UNCHANGED Promise!deliveryVars
  BY SamePart DEF historyVars, Promise!deliveryVars

LEMMA FailedIsFail ==
  ASSUME SendTypes, NEW t \in Tasks, Busy(t), at' = [at EXCEPT ![t] = Failed(t)],
         unanswered' \in {unanswered, unanswered \cup {Part(t)}},
         UNCHANGED <<sends, shown, delivered, late>>
  PROVE  Promise!Fail(t)
<1>1. \/ Promise!MoveOn(t)
      \/ [u \in Tasks |-> IF at'[u].pc = "idle" THEN 0 ELSE at'[u].part]
           = [u \in Tasks |-> IF at[u].pc = "idle" THEN 0 ELSE at[u].part]
  <2>1. CASE Failed(t) = Settled(t)
    BY <2>1, SettledMovesOn
  <2>2. CASE Failed(t) = [at[t] EXCEPT !.pc = "pausing"]
    <3>1. Failed(t) \in Places /\ Failed(t).pc # "idle" /\ Failed(t).part = at[t].part
      BY <2>2, FailedPlace DEF SendTypes
    <3> QED BY <3>1, SamePart
  <2> QED BY <2>1, <2>2 DEF Failed
<1> QED BY <1>1, CurrentIsPart DEF SendTypes, Busy, Promise!Fail

(* A part is shown that may be, and none of its task after it was. *)
LEMMA ShowsIsShowInTurn ==
  ASSUME SendTypes, NEW q,
         q \in unanswered \/ (~Contains(shown, q) /\ \E t \in Tasks : Busy(t) /\ q = Part(t)),
         \A i \in DOMAIN shown : ~Before(q, shown[i]), shown' = Append(shown, q),
         UNCHANGED <<taskVars, delivered, unanswered, late>>
  PROVE  Promise!DeliveryNext
<1>1. q \in Promise!Showable
  BY CurrentIsPart DEF Promise!Showable
<1>2. Promise!Show(q)
  BY CurrentIsPart, SameContains DEF SendTypes, Promise!Show, taskVars, Busy
<1>3. Promise!ShowInTurn(q)
  BY <1>2 DEF Promise!ShowInTurn, Before
<1> QED BY <1>1, <1>3 DEF Promise!DeliveryNext

LEMMA NothingIsStutter ==
  ASSUME UNCHANGED <<taskVars, historyVars>> PROVE UNCHANGED Promise!deliveryVars
  BY DEF taskVars, historyVars, Promise!deliveryVars

-----------------------------------------------------------------------------
(* The steps of a task, as both channels take them: the invariant is kept, *)
(* what was reached or open is that still, and Delivery does the same.     *)
Kept == SendInv' /\ \A p \in Texts : (Reached(p) => Reached(p)') /\ (Open(p) => Open(p)')

LEMMA TaskBegins ==
  ASSUME SendInv, NEW t \in Tasks, Sends(t)
  PROVE  /\ Kept /\ Promise!DeliveryNext
         /\ at[t].pc = "idle" /\ at'[t].pc = "trying"
         /\ \A u \in Tasks \ {t} : at'[u] = at[u] /\ Part(u)' = Part(u)
<1>1. Kept
  BY SendsInv DEF Kept
<1>2. Promise!DeliveryNext
  BY SendsIsBegin DEF SendInv, Promise!DeliveryNext
<1>3. /\ at[t].pc = "idle" /\ at'[t].pc = "trying"
      /\ \A u \in Tasks \ {t} : at'[u] = at[u] /\ Part(u)' = Part(u)
  BY DEF SendInv, SendTypes, Sends, Part
<1> QED BY <1>1, <1>2, <1>3

LEMMA TaskGoesOn ==
  ASSUME SendInv, NEW t \in Tasks, NEW x \in Places, at' = [at EXCEPT ![t] = x],
         at[t].pc \in {"trying", "pausing"}, x.pc \in {"trying", "waiting"}, x.part = at[t].part,
         UNCHANGED <<sends, historyVars>>
  PROVE  /\ Kept /\ UNCHANGED Promise!deliveryVars
         /\ at'[t] = x /\ \A u \in Tasks \ {t} : at'[u] = at[u]
         /\ \A u \in Tasks : Part(u)' = Part(u)
<1>1. SendTypes /\ Busy(t) /\ Open(Part(t))
  BY DEF SendInv, Busy
<1>2. \A u \in Tasks : Part(u)' = Part(u)
  BY <1>1, OtherParts
<1>3. Open(Part(t))'
  BY <1>1, <1>2 DEF Open, historyVars
<1>4. Kept
  BY <1>1, <1>3, TaskMoves DEF Kept, SendTypes, historyVars
<1>5. UNCHANGED Promise!deliveryVars
  BY <1>1, StaysIsStutter
<1>6. at'[t] = x /\ \A u \in Tasks \ {t} : at'[u] = at[u]
  BY <1>1 DEF SendTypes
<1> QED BY <1>2, <1>4, <1>5, <1>6

LEMMA TrySucceeds ==
  ASSUME SendInv, NEW t \in Tasks, Busy(t), at' = [at EXCEPT ![t] = Settled(t)],
         Contains(shown, Part(t)), delivered' = delivered \cup {Part(t)},
         UNCHANGED <<sends, shown, unanswered, late>>
  PROVE  /\ Kept /\ Promise!DeliveryNext
         /\ at'[t].pc # "waiting"
         /\ \A u \in Tasks \ {t} : at'[u] = at[u] /\ Part(u)' = Part(u)
<1>1. SendTypes /\ Part(t) \in Texts /\ delivered' \subseteq Texts
  BY PartIsText DEF SendInv, SendTypes
<1>2. Kept
  BY <1>1, SettledPlace, TaskMoves DEF Kept, SendTypes
<1>3. Promise!DeliveryNext
  BY <1>1, SettledIsDeliver DEF Promise!DeliveryNext
<1>4. /\ at'[t].pc # "waiting"
      /\ \A u \in Tasks \ {t} : at'[u] = at[u] /\ Part(u)' = Part(u)
  BY <1>1, SettledPlace DEF SendTypes, Part
<1> QED BY <1>2, <1>3, <1>4

LEMMA TryFails ==
  ASSUME SendInv, NEW t \in Tasks, Busy(t), at' = [at EXCEPT ![t] = Failed(t)],
         unanswered' \in {unanswered, unanswered \cup {Part(t)}},
         ~Contains(shown, Part(t)) \/ Part(t) \in unanswered',
         UNCHANGED <<sends, shown, delivered, late>>
  PROVE  /\ Kept /\ Promise!DeliveryNext
         /\ at'[t].pc # "waiting"
         /\ \A u \in Tasks \ {t} : at'[u] = at[u] /\ Part(u)' = Part(u)
<1>1. /\ SendTypes /\ Part(t) \in Texts /\ delivered' \subseteq Texts
      /\ unanswered' \subseteq Texts /\ unanswered \subseteq unanswered'
  BY PartIsText DEF SendInv, SendTypes
<1>2. Failed(t).part = at[t].part => Open(Part(t))'
  BY <1>1, FailedPlace, OtherParts DEF Open
<1>3. Kept
  BY <1>1, <1>2, FailedPlace, TaskMoves DEF Kept
<1>4. Promise!DeliveryNext
  BY <1>1, FailedIsFail DEF Promise!DeliveryNext
<1>5. /\ at'[t].pc # "waiting"
      /\ \A u \in Tasks \ {t} : at'[u] = at[u] /\ Part(u)' = Part(u)
  BY <1>1, FailedPlace DEF SendTypes, Part
<1> QED BY <1>3, <1>4, <1>5

LEMMA InitIsDeliveryInit == SendingInit => Promise!DeliveryInit
  BY DEF SendingInit, Idle, Promise!DeliveryInit

-----------------------------------------------------------------------------
(* HttpSending. *)

HttpTypes ==
  /\ post \in [Tasks -> {NoPost} \cup [form : {"markdown", "plain"},
                                       state : {"sent", "shown", "refused"}]]
  /\ \A t \in Tasks : post[t] # NoPost <=> at[t].pc = "waiting"
  /\ \A d \in delayed : d.part \in unanswered

(* What the state of a post says of its part is so. *)
Posted ==
  \A t \in Tasks :
    /\ post[t].state = "shown" => Contains(shown, Part(t))
    /\ post[t].state \in {"sent", "refused"} => Open(Part(t))

HttpInv == SendInv /\ HttpTypes /\ Posted

LEMMA HttpInvInit == SendingInit /\ HttpInit => HttpInv
<1> SUFFICES ASSUME SendingInit, HttpInit PROVE HttpInv
  OBVIOUS
<1>1. SendInv
  BY SendingAssumption DEF SendingInit, SendInv, SendTypes, Busy, Idle
<1>2. HttpTypes /\ Posted
  BY DEF SendingInit, HttpInit, HttpTypes, Posted, NoPost, Idle
<1> QED BY <1>1, <1>2 DEF HttpInv

(* A step of one task keeps the invariant if what is done to its post does. *)
LEMMA HttpMoves ==
  ASSUME HttpInv, SendInv', NEW t \in Tasks, UNCHANGED shown, unanswered \subseteq unanswered',
         \A u \in Tasks \ {t} : at'[u] = at[u] /\ sends'[u] = sends[u] /\ post'[u] = post[u],
         post' \in [Tasks -> {NoPost} \cup [form : {"markdown", "plain"},
                                           state : {"sent", "shown", "refused"}]],
         post'[t] # NoPost <=> at'[t].pc = "waiting",
         \A d \in delayed' : d.part \in unanswered',
         \/ post'[t] = NoPost
         \/ post'[t].state \in {"sent", "refused"} /\ Part(t)' = Part(t) /\ Open(Part(t))
  PROVE  HttpInv'
<1>1. HttpTypes'
  BY DEF HttpInv, HttpTypes
<1>2. \A p : (Open(p) => Open(p)') /\ Contains(shown', p) = Contains(shown, p)
  BY DEF Open
<1>3. ASSUME NEW u \in Tasks
      PROVE  /\ post'[u].state = "shown" => Contains(shown', Part(u)')
             /\ post'[u].state \in {"sent", "refused"} => Open(Part(u)) /\ Part(u)' = Part(u)
  <2>1. CASE u = t
    BY <2>1 DEF NoPost
  <2>2. CASE u # t
    <3>1. Part(u)' = Part(u)
      BY <2>2 DEF Part
    <3> QED BY <1>2, <2>2, <3>1 DEF HttpInv, Posted
  <2> QED BY <2>1, <2>2
<1>4. Posted'
  BY <1>2, <1>3 DEF Posted, Open
<1> QED BY <1>1, <1>4 DEF HttpInv

LEMMA HttpBegins ==
  ASSUME HttpInv, NEW t \in Tasks, Sends(t), UNCHANGED httpVars
  PROVE  HttpInv' /\ Promise!DeliveryNext
<1>1. SendInv' /\ Promise!DeliveryNext
  BY TaskBegins DEF HttpInv, Kept
<1>2. /\ at'[t].pc = "trying" /\ post'[t] = NoPost
      /\ \A u \in Tasks \ {t} : at'[u] = at[u] /\ sends'[u] = sends[u]
  BY TaskBegins DEF HttpInv, HttpTypes, SendInv, SendTypes, Sends, httpVars
<1>3. HttpInv'
  BY <1>1, <1>2, HttpMoves DEF HttpInv, HttpTypes, Sends, httpVars, historyVars
<1> QED BY <1>1, <1>3

LEMMA HttpResumes ==
  ASSUME HttpInv, NEW t \in Tasks, Resumes(t), UNCHANGED httpVars
  PROVE  HttpInv' /\ UNCHANGED Promise!deliveryVars
<1> DEFINE x == [pc |-> "trying", part |-> at[t].part, attempt |-> at[t].attempt + 1]
<1>1. /\ x \in Places /\ x.pc = "trying" /\ x.part = at[t].part /\ at[t].pc = "pausing"
      /\ at' = [at EXCEPT ![t] = x] /\ UNCHANGED <<sends, historyVars>>
  BY ResumesInPlace DEF HttpInv, SendInv
<1> HIDE DEF x
<1>2. /\ SendInv' /\ UNCHANGED Promise!deliveryVars /\ at'[t].pc = "trying"
      /\ \A u \in Tasks \ {t} : at'[u] = at[u]
  BY <1>1, TaskGoesOn DEF HttpInv, Kept
<1>3. post'[t] = NoPost
  BY <1>1 DEF HttpInv, HttpTypes, httpVars
<1>4. HttpInv'
  BY <1>1, <1>2, <1>3, HttpMoves DEF HttpInv, HttpTypes, httpVars, historyVars
<1> QED BY <1>2, <1>4

LEMMA HttpStarts ==
  ASSUME HttpInv, NEW t \in Tasks, StartsThread(t)
  PROVE  HttpInv' /\ UNCHANGED Promise!deliveryVars
<1> DEFINE x == [at[t] EXCEPT !.pc = "waiting"]
           p == Post(IF t \in Rich THEN "markdown" ELSE "plain")
<1>1. /\ x \in Places /\ x.pc = "waiting" /\ x.part = at[t].part /\ at[t].pc = "trying"
      /\ at' = [at EXCEPT ![t] = x] /\ UNCHANGED <<sends, historyVars>>
  BY DEF HttpInv, SendInv, SendTypes, Places, StartsThread
<1>2. /\ p \in [form : {"markdown", "plain"}, state : {"sent", "shown", "refused"}]
      /\ p.state = "sent" /\ p # NoPost
      /\ post' = [post EXCEPT ![t] = p] /\ UNCHANGED delayed
  BY DEF Post, NoPost, StartsThread
<1> HIDE DEF x, p
<1>3. /\ SendInv' /\ UNCHANGED Promise!deliveryVars /\ at'[t].pc = "waiting"
      /\ Part(t)' = Part(t) /\ \A u \in Tasks \ {t} : at'[u] = at[u]
  BY <1>1, TaskGoesOn DEF HttpInv, Kept
<1>4. Open(Part(t))
  BY <1>1 DEF HttpInv, SendInv
<1>5. HttpInv'
  BY <1>1, <1>2, <1>3, <1>4, HttpMoves DEF HttpInv, HttpTypes, historyVars
<1> QED BY <1>3, <1>5

(* Its try is over, one way or the other. *)
LEMMA HttpTryEnds ==
  ASSUME HttpInv, NEW t \in Tasks, Accepted(t) \/ Refused(t) \/ Breaks(t)
  PROVE  HttpInv' /\ Promise!DeliveryNext
<1>1. Busy(t)
  BY DEF HttpInv, HttpTypes, Accepted, Refused, Breaks, NoPost, Busy
<1>2. /\ post' = [post EXCEPT ![t] = NoPost] /\ UNCHANGED <<sends, shown>>
      /\ unanswered' \in {unanswered, unanswered \cup {Part(t)}}
      /\ \A d \in delayed' : d \in delayed \/ (d.part = Part(t) /\ Part(t) \in unanswered')
  BY DEF Accepted, Refused, Breaks, historyVars
<1>3. /\ SendInv' /\ Promise!DeliveryNext /\ at'[t].pc # "waiting"
      /\ \A u \in Tasks \ {t} : at'[u] = at[u]
  <2>1. CASE Accepted(t)
    BY <1>1, <2>1, TrySucceeds DEF Accepted, HttpInv, Posted, Kept
  <2>2. CASE Refused(t)
    <3>1. ~Contains(shown, Part(t)) \/ Part(t) \in unanswered'
      BY <2>2 DEF Refused, HttpInv, Posted, Open, historyVars
    <3> QED BY <1>1, <2>2, <3>1, TryFails DEF Refused, HttpInv, Kept, historyVars
  <2>3. CASE Breaks(t)
    BY <1>1, <2>3, TryFails DEF Breaks, HttpInv, Kept
  <2> QED BY <2>1, <2>2, <2>3
<1>4. HttpInv'
  <2>1. post'[t] = NoPost /\ \A u \in Tasks \ {t} : sends'[u] = sends[u] /\ post'[u] = post[u]
    BY <1>2 DEF HttpInv, HttpTypes
  <2>2. \A d \in delayed' : d.part \in unanswered'
    BY <1>2 DEF HttpInv, HttpTypes
  <2>3. post' \in [Tasks -> {NoPost} \cup [form : {"markdown", "plain"},
                                         state : {"sent", "shown", "refused"}]]
    BY <1>2 DEF HttpInv, HttpTypes
  <2> QED BY <1>2, <1>3, <2>1, <2>2, <2>3, HttpMoves
<1> QED BY <1>3, <1>4

(* The service refuses a post, or one is made in the other form. *)
LEMMA HttpPosts ==
  ASSUME HttpInv, NEW t \in Tasks, FallsBack(t) \/ ServiceRefuses(t)
  PROVE  HttpInv' /\ UNCHANGED Promise!deliveryVars
<1>1. UNCHANGED <<taskVars, historyVars, delayed>>
  BY DEF FallsBack, ServiceRefuses
<1>2. PICK p \in [form : {"markdown", "plain"}, state : {"sent", "refused"}] :
        post' = [post EXCEPT ![t] = p]
  <2>1. CASE FallsBack(t)
    BY <2>1 DEF FallsBack, Post
  <2>2. CASE ServiceRefuses(t)
    <3> DEFINE p == [post[t] EXCEPT !.state = "refused"]
    <3>1. p \in [form : {"markdown", "plain"}, state : {"sent", "refused"}]
      BY <2>2 DEF ServiceRefuses, HttpInv, HttpTypes, NoPost
    <3>2. post' = [post EXCEPT ![t] = p]
      BY <2>2 DEF ServiceRefuses
    <3> HIDE DEF p
    <3> QED BY <3>1, <3>2
  <2> QED BY <2>1, <2>2
<1>3. /\ post[t] # NoPost /\ Open(Part(t)) /\ p # NoPost /\ p.state \in {"sent", "refused"}
      /\ p \in [form : {"markdown", "plain"}, state : {"sent", "shown", "refused"}]
  BY DEF FallsBack, ServiceRefuses, NoPost, HttpInv, Posted
<1>4. SendInv' /\ \A u : Part(u)' = Part(u)
  BY <1>1, NothingSent DEF HttpInv, historyVars
<1>5. HttpInv'
  BY <1>1, <1>2, <1>3, <1>4, HttpMoves DEF HttpInv, HttpTypes, taskVars, historyVars
<1> QED BY <1>1, <1>5, NothingIsStutter

LEMMA HttpShows ==
  ASSUME HttpInv, NEW t \in Tasks, ServiceShows(t)
  PROVE  HttpInv' /\ Promise!DeliveryNext
<1> DEFINE q == Part(t)
<1>1. SendTypes /\ Busy(t) /\ at[t].pc = "waiting" /\ Open(q)
  BY DEF HttpInv, HttpTypes, SendInv, ServiceShows, NoPost, Busy, Posted
<1>2. q \in Texts /\ Reached(q)
  BY <1>1, PartIsText
<1>3. \A u \in Tasks : Part(u) = q => u = t
  BY DEF Part
<1>4. /\ shown' = Append(shown, q) /\ post' = [post EXCEPT ![t].state = "shown"]
      /\ UNCHANGED <<taskVars, delivered, unanswered, late, delayed>> /\ post[t].state = "sent"
  BY DEF ServiceShows
<1>5. \A u \in Tasks : Part(u)' = Part(u)
  BY <1>4 DEF taskVars, Part
<1> HIDE DEF q
<1>6. SendInv' /\ \A p : Open(p) /\ (p # q \/ p \in unanswered) => Open(p)'
  BY <1>1, <1>2, <1>3, <1>4, ShowsInv DEF HttpInv, taskVars
<1>7. \A p : Contains(shown', p) <=> Contains(shown, p) \/ p = q
  BY <1>1, <1>2, <1>4, OneMoreShown
<1>8. HttpTypes'
  BY <1>4 DEF HttpInv, HttpTypes, taskVars, NoPost
<1>9. ASSUME NEW u \in Tasks
      PROVE  /\ post'[u].state = "shown" => Contains(shown', Part(u))
             /\ post'[u].state \in {"sent", "refused"} =>
                  ~Contains(shown', Part(u)) \/ Part(u) \in unanswered
  <2>1. CASE u = t
    BY <1>4, <1>7, <2>1 DEF HttpInv, HttpTypes, q
  <2>2. CASE u # t
    <3>1. post'[u] = post[u] /\ Part(u) # q
      BY <1>3, <1>4, <2>2 DEF HttpInv, HttpTypes
    <3> QED BY <1>7, <3>1 DEF HttpInv, Posted, Open
  <2> QED BY <2>1, <2>2
<1>10. Posted'
  BY <1>4, <1>5, <1>9 DEF Posted, Open
<1>11. \A i \in DOMAIN shown : ~Before(q, shown[i])
  BY <1>1, ReachedIsNotAfter DEF HttpInv, SendInv, SendTypes, q
<1>12. Promise!DeliveryNext
  BY <1>1, <1>4, <1>11, ShowsIsShowInTurn DEF Open, q
<1> QED BY <1>6, <1>8, <1>10, <1>12 DEF HttpInv

LEMMA HttpShowsLate ==
  ASSUME HttpInv, ServiceShowsLate
  PROVE  HttpInv' /\ Promise!DeliveryNext
<1>1. PICK d \in delayed : /\ delayed' = delayed \ {d} /\ shown' = Append(shown, d.part)
                          /\ late' = late \cup {d.part}
  BY DEF ServiceShowsLate
<1> DEFINE q == d.part
<1>2. UNCHANGED <<post, taskVars, delivered, unanswered>>
  BY DEF ServiceShowsLate
<1>3. q \in unanswered /\ q \in Texts /\ SendTypes
  BY DEF HttpInv, HttpTypes, SendInv, SendTypes
<1>4. Promise!DeliveryNext
  <2>1. Promise!ShowLate(q)
    BY <1>1, <1>2, <1>3 DEF Promise!ShowLate, Promise!Show, taskVars, q
  <2> QED BY <1>3, <2>1 DEF Promise!DeliveryNext, Promise!Showable
<1> HIDE DEF q
<1>5. SendInv' /\ \A p : Open(p) /\ (p # q \/ p \in unanswered) => Open(p)'
  BY <1>1, <1>2, <1>3, ShowsInv DEF HttpInv, SendInv, taskVars, q
<1>6. \A p : Contains(shown', p) <=> Contains(shown, p) \/ p = q
  BY <1>1, <1>3, OneMoreShown DEF q
<1>7. HttpTypes'
  BY <1>1, <1>2 DEF HttpInv, HttpTypes, taskVars
<1>8. Posted'
  <2>1. \A u \in Tasks : Part(u)' = Part(u)
    BY <1>2 DEF taskVars, Part
  <2> QED BY <1>2, <1>3, <1>6, <2>1 DEF HttpInv, Posted, Open
<1> QED BY <1>4, <1>5, <1>7, <1>8 DEF HttpInv

LEMMA HttpStep ==
  ASSUME HttpInv, [HttpNext]_<<taskVars, historyVars, httpVars>>
  PROVE  HttpInv' /\ [Promise!DeliveryNext]_Promise!deliveryVars
<1>1. CASE UNCHANGED <<taskVars, historyVars, httpVars>>
  <2>1. SendInv' /\ UNCHANGED Promise!deliveryVars
    BY <1>1, NothingSent, NothingIsStutter DEF HttpInv, historyVars
  <2>2. HttpTypes' /\ Posted'
    BY <1>1 DEF HttpInv, HttpTypes, Posted, Part, Open, taskVars, historyVars, httpVars
  <2> QED BY <2>1, <2>2 DEF HttpInv
<1>2. ASSUME NEW t \in Tasks, Sends(t), UNCHANGED httpVars
      PROVE  HttpInv' /\ Promise!DeliveryNext
  BY <1>2, HttpBegins
<1>3. ASSUME NEW t \in Tasks, HttpProceeds(t)
      PROVE  HttpInv' /\ [Promise!DeliveryNext]_Promise!deliveryVars
  BY <1>3, HttpResumes, HttpStarts, HttpTryEnds, HttpPosts DEF HttpProceeds
<1>4. ASSUME NEW t \in Tasks, ServiceShows(t) \/ ServiceRefuses(t)
      PROVE  HttpInv' /\ [Promise!DeliveryNext]_Promise!deliveryVars
  BY <1>4, HttpShows, HttpPosts
<1>5. CASE ServiceShowsLate
  BY <1>5, HttpShowsLate
<1> QED BY <1>1, <1>2, <1>3, <1>4, <1>5 DEF HttpNext

(* The inductive invariant of sending over HTTP. *)
THEOREM HttpInvariant == HttpSpec => []HttpInv
<1>1. HttpInv /\ [HttpNext]_<<taskVars, historyVars, httpVars>> => HttpInv'
  BY HttpStep
<1> QED BY HttpInvInit, <1>1, PTL DEF HttpSpec

(* A channel that posts over HTTP from a thread implements Delivery: what  *)
(* counts as sent was shown, and a part is shown again or late only after  *)
(* a try without an answer, whatever breaks, falls back or comes late.     *)
THEOREM HttpDelivers == HttpSpec => DeliveryRefinement
<1>1. HttpInv /\ [HttpNext]_<<taskVars, historyVars, httpVars>>
        => [Promise!DeliveryNext]_Promise!deliveryVars
  BY HttpStep
<1> QED BY HttpInvariant, InitIsDeliveryInit, <1>1, PTL
        DEF HttpSpec, DeliveryRefinement, Promise!DeliverySpec

-----------------------------------------------------------------------------
(* OneBotSending. *)

Requests == [echo : Nat \ {0}, part : Texts]
Replies  == [echo : Nat \ {0}, status : {"ok", "failed"}]

OneBotTypes ==
  /\ requests \in Seq(Requests)
  /\ answers \in Seq(Replies)
  /\ nextEcho \in Nat
  /\ future \in [Tasks -> [echo : 0 .. nextEcho, answer : {"none", "ok", "failed"}]]

(* Whoever waits has an echo of its own, that is in _pending until the     *)
(* answer is read; nobody else has one.                                    *)
Futures ==
  /\ \A t \in Tasks : IF at[t].pc = "waiting" THEN future[t].echo # 0 ELSE future[t] = NoFuture
  /\ \A t, u \in Tasks : t # u /\ future[t].echo # 0 => future[t].echo # future[u].echo
  /\ \A t \in Tasks : future[t].echo # 0 /\ future[t].answer = "none" => future[t].echo \in pending

(* A request whose part is not unanswered has its task waiting for it, and *)
(* shows something new.                                                    *)
Wanted(r) ==
  \/ r.part \in unanswered
  \/ future[r.part.task].echo = r.echo /\ ~Contains(shown, r.part)

(* Whoever waits for its echo sent that part, and has no answer yet.       *)
Matches(r) ==
  \A t \in Tasks : future[t].echo = r.echo => r.part = Part(t) /\ future[t].answer = "none"

Requested ==
  \A i \in DOMAIN requests :
    /\ requests[i].echo <= nextEcho
    /\ Reached(requests[i].part) /\ Wanted(requests[i]) /\ Matches(requests[i])

(* Requests are on their way in the order of their echoes and of their     *)
(* parts, after all that was answered and shown.                           *)
InOrder ==
  /\ \A i, j \in DOMAIN requests :
       i < j => /\ requests[i].echo < requests[j].echo
                /\ ~Before(requests[j].part, requests[i].part)
  /\ \A i \in DOMAIN requests :
       /\ \A j \in DOMAIN shown : ~Before(requests[i].part, shown[j])
       /\ \A j \in DOMAIN answers : answers[j].echo < requests[i].echo

(* What an answer says of the part of its waiter is so. *)
Says(t, status) ==
  /\ status = "ok"     => Contains(shown, Part(t))
  /\ status = "failed" => Open(Part(t))

Answered ==
  /\ \A i \in DOMAIN answers :
       /\ answers[i].echo <= nextEcho
       /\ \A t \in Tasks : future[t].echo = answers[i].echo => Says(t, answers[i].status)
  /\ \A t \in Tasks : Says(t, future[t].answer)

OneBotInv == SendInv /\ OneBotTypes /\ Futures /\ Requested /\ InOrder /\ Answered

LEMMA OneBotInvInit == SendingInit /\ OneBotInit => OneBotInv
<1> SUFFICES ASSUME SendingInit, OneBotInit PROVE OneBotInv
  OBVIOUS
<1>1. SendInv
  BY SendingAssumption DEF SendingInit, SendInv, SendTypes, Busy, Idle
<1>2. OneBotTypes /\ Futures /\ Requested /\ InOrder /\ Answered
  BY DEF SendingInit, OneBotInit, OneBotTypes, Futures, Requested, InOrder, Answered, Says,
     NoFuture, Idle
<1> QED BY <1>1, <1>2 DEF OneBotInv

(* An element of a sequence over a set is in the set. *)
LEMMA ElementOf == ASSUME NEW S, NEW s \in Seq(S), NEW i \in DOMAIN s PROVE s[i] \in S
  OBVIOUS

(* What the elements of the queues are. *)
LEMMA QueueElements ==
  ASSUME OneBotTypes
  PROVE  /\ \A i \in DOMAIN requests : requests[i].echo \in Nat \ {0} /\ requests[i].part \in Texts
         /\ \A i \in DOMAIN answers : answers[i].echo \in Nat \ {0}
<1>1. \A i \in DOMAIN requests : requests[i] \in Requests
  BY ElementOf DEF OneBotTypes
<1>2. \A i \in DOMAIN answers : answers[i] \in Replies
  BY ElementOf DEF OneBotTypes
<1> QED BY <1>1, <1>2 DEF Requests, Replies

(* A task that does not wait, or does no more, keeps the invariant: no     *)
(* request is left that shows something new for nobody.                    *)
LEMMA OneBotMoves ==
  ASSUME OneBotInv, Kept, NEW t \in Tasks, UNCHANGED <<shown, requests, answers>>,
         unanswered \subseteq unanswered', nextEcho' \in Nat, nextEcho <= nextEcho',
         future' = [future EXCEPT ![t] = NoFuture], at'[t].pc # "waiting",
         \A u \in Tasks \ {t} : at'[u] = at[u] /\ Part(u)' = Part(u),
         \A e \in pending : e # future[t].echo => e \in pending',
         future[t].echo # 0 /\ future[t].answer = "none" => Part(t) \in unanswered'
  PROVE  OneBotInv'
<1>1. /\ \A u \in Tasks \ {t} : future'[u] = future[u]
      /\ future'[t].echo = 0 /\ future'[t].answer = "none" /\ future'[t] = NoFuture
      /\ OneBotTypes /\ Futures
  BY DEF OneBotInv, OneBotTypes, NoFuture
<1>2. OneBotTypes'
  BY <1>1 DEF OneBotTypes, NoFuture
<1>3. Futures'
  BY <1>1 DEF Futures, NoFuture
<1>4. Requested'
  <2> SUFFICES ASSUME NEW i \in DOMAIN requests
               PROVE  /\ requests[i].echo <= nextEcho' /\ Reached(requests[i].part)'
                      /\ Wanted(requests[i])' /\ Matches(requests[i])'
    BY DEF Requested
  <2> DEFINE r == requests[i]
  <2>1. /\ r.echo \in Nat \ {0} /\ r.part \in Texts /\ r.part.task \in Tasks
        /\ r.echo <= nextEcho /\ Reached(r.part) /\ Wanted(r) /\ Matches(r)
    BY <1>1, QueueElements DEF OneBotInv, Requested, Texts
  <2>2. r.echo <= nextEcho' /\ Reached(r.part)'
    BY <1>1, <2>1 DEF Kept, OneBotTypes
  <2>3. Matches(r)'
    BY <1>1, <2>1 DEF Matches
  <2>4. Wanted(r)'
    <3>1. CASE r.part \in unanswered
      BY <3>1 DEF Wanted
    <3>2. CASE r.part \notin unanswered /\ r.part.task # t
      BY <1>1, <2>1, <3>2 DEF Wanted
    <3>3. CASE r.part \notin unanswered /\ r.part.task = t
      BY <1>1, <2>1, <3>3 DEF Wanted, Matches
    <3> QED BY <3>1, <3>2, <3>3
  <2> QED BY <2>2, <2>3, <2>4
<1>5. InOrder'
  BY DEF OneBotInv, InOrder, Before, Promise!Before
<1>6. Answered'
  <2>1. \A p \in Texts : Open(p) => Open(p)'
    BY DEF Kept
  <2>2. ASSUME NEW u \in Tasks \ {t}, NEW status, Says(u, status) PROVE Says(u, status)'
    BY <2>2 DEF Says, Open
  <2>3. Says(t, "none")'
    BY DEF Says
  <2>4. \A i \in DOMAIN answers : answers[i].echo <= nextEcho'
    BY <1>1, QueueElements DEF OneBotInv, Answered, OneBotTypes
  <2> QED BY <1>1, <2>2, <2>3, <2>4, QueueElements DEF OneBotInv, Answered
<1> QED BY <1>2, <1>3, <1>4, <1>5, <1>6 DEF OneBotInv, Kept

(* Steps of a task that leave it without a wait. *)
LEMMA OneBotBegins ==
  ASSUME OneBotInv, NEW t \in Tasks, Sends(t), UNCHANGED oneBotVars
  PROVE  OneBotInv' /\ Promise!DeliveryNext
<1>1. /\ Kept /\ Promise!DeliveryNext /\ at[t].pc = "idle" /\ at'[t].pc = "trying"
      /\ \A u \in Tasks \ {t} : at'[u] = at[u] /\ Part(u)' = Part(u)
  BY TaskBegins DEF OneBotInv
<1>2. future[t] = NoFuture /\ future' = [future EXCEPT ![t] = NoFuture] /\ future[t].echo = 0
  BY <1>1 DEF OneBotInv, OneBotTypes, Futures, NoFuture, oneBotVars
<1>3. /\ UNCHANGED <<shown, requests, answers, unanswered, nextEcho, pending>>
      /\ nextEcho' \in Nat /\ nextEcho <= nextEcho'
  BY DEF Sends, OneBotInv, OneBotTypes, historyVars, oneBotVars, linkVars, echoVars
<1>4. OneBotInv'
  BY <1>1, <1>2, <1>3, OneBotMoves
<1> QED BY <1>1, <1>4

LEMMA OneBotResumes ==
  ASSUME OneBotInv, NEW t \in Tasks, Resumes(t), UNCHANGED oneBotVars
  PROVE  OneBotInv' /\ UNCHANGED Promise!deliveryVars
<1> DEFINE x == [pc |-> "trying", part |-> at[t].part, attempt |-> at[t].attempt + 1]
<1>1. /\ x \in Places /\ x.pc = "trying" /\ x.part = at[t].part /\ at[t].pc = "pausing"
      /\ at' = [at EXCEPT ![t] = x] /\ UNCHANGED <<sends, historyVars>>
  BY ResumesInPlace DEF OneBotInv, SendInv
<1> HIDE DEF x
<1>2. /\ Kept /\ UNCHANGED Promise!deliveryVars /\ at'[t].pc = "trying"
      /\ \A u \in Tasks \ {t} : at'[u] = at[u] /\ Part(u)' = Part(u)
  BY <1>1, TaskGoesOn DEF OneBotInv
<1>3. future[t] = NoFuture /\ future' = [future EXCEPT ![t] = NoFuture] /\ future[t].echo = 0
  BY <1>1 DEF OneBotInv, OneBotTypes, Futures, NoFuture, oneBotVars
<1>4. /\ UNCHANGED <<shown, requests, answers, unanswered, nextEcho, pending>>
      /\ nextEcho' \in Nat /\ nextEcho <= nextEcho'
  BY DEF Resumes, OneBotInv, OneBotTypes, historyVars, oneBotVars, linkVars, echoVars
<1>5. OneBotInv'
  BY <1>2, <1>3, <1>4, OneBotMoves
<1> QED BY <1>2, <1>5

LEMMA OneBotFailsAtOnce ==
  ASSUME OneBotInv, NEW t \in Tasks, Tries(t), link \in {"down", "lost"}
  PROVE  OneBotInv' /\ Promise!DeliveryNext
<1>1. /\ at[t].pc = "trying" /\ at' = [at EXCEPT ![t] = Failed(t)]
      /\ UNCHANGED <<answers, requests, future, sends, historyVars>>
      /\ nextEcho' \in {nextEcho, nextEcho + 1} /\ pending \subseteq pending'
  BY DEF Tries, echoVars
<1>2. Busy(t) /\ (~Contains(shown, Part(t)) \/ Part(t) \in unanswered')
  BY <1>1 DEF OneBotInv, SendInv, Busy, Open, historyVars
<1>3. /\ Kept /\ Promise!DeliveryNext /\ at'[t].pc # "waiting"
      /\ \A u \in Tasks \ {t} : at'[u] = at[u] /\ Part(u)' = Part(u)
  BY <1>1, <1>2, TryFails DEF OneBotInv, historyVars
<1>4. future[t] = NoFuture /\ future' = [future EXCEPT ![t] = NoFuture] /\ future[t].echo = 0
  BY <1>1 DEF OneBotInv, OneBotTypes, Futures, NoFuture
<1>5. nextEcho' \in Nat /\ nextEcho <= nextEcho'
  BY <1>1 DEF OneBotInv, OneBotTypes
<1>6. OneBotInv'
  BY <1>1, <1>3, <1>4, <1>5, OneBotMoves DEF historyVars
<1> QED BY <1>3, <1>6

LEMMA OneBotWakes ==
  ASSUME OneBotInv, NEW t \in Tasks, Wakes(t)
  PROVE  OneBotInv' /\ Promise!DeliveryNext
<1>1. /\ Busy(t) /\ future[t].answer \in {"ok", "failed"} /\ Says(t, future[t].answer)
      /\ future' = [future EXCEPT ![t] = NoFuture]
      /\ UNCHANGED <<requests, answers, pending, nextEcho, sends, shown, unanswered, late>>
  BY DEF Wakes, OneBotInv, OneBotTypes, Answered, Busy, linkVars, echoVars
<1>2. /\ Kept /\ Promise!DeliveryNext /\ at'[t].pc # "waiting"
      /\ \A u \in Tasks \ {t} : at'[u] = at[u] /\ Part(u)' = Part(u)
  <2>1. CASE future[t].answer = "ok"
    BY <1>1, <2>1, TrySucceeds DEF Wakes, Says, OneBotInv
  <2>2. CASE future[t].answer = "failed"
    <3>1. ~Contains(shown, Part(t)) \/ Part(t) \in unanswered'
      BY <1>1, <2>2 DEF Says, Open
    <3> QED BY <1>1, <2>2, <3>1, TryFails DEF Wakes, OneBotInv
  <2> QED BY <1>1, <2>1, <2>2
<1>3. nextEcho' \in Nat /\ nextEcho <= nextEcho'
  BY <1>1 DEF OneBotInv, OneBotTypes
<1>4. OneBotInv'
  BY <1>1, <1>2, <1>3, OneBotMoves
<1> QED BY <1>2, <1>4

LEMMA OneBotTimesOut ==
  ASSUME OneBotInv, NEW t \in Tasks, TimesOut(t)
  PROVE  OneBotInv' /\ Promise!DeliveryNext
<1>1. /\ Busy(t) /\ at' = [at EXCEPT ![t] = Failed(t)]
      /\ future' = [future EXCEPT ![t] = NoFuture]
      /\ pending' = pending \ {future[t].echo} /\ unanswered' = unanswered \cup {Part(t)}
      /\ UNCHANGED <<requests, answers, nextEcho, sends, shown, delivered, late>>
  BY DEF TimesOut, Busy, linkVars
<1>2. /\ Kept /\ Promise!DeliveryNext /\ at'[t].pc # "waiting"
      /\ \A u \in Tasks \ {t} : at'[u] = at[u] /\ Part(u)' = Part(u)
  BY <1>1, TryFails DEF OneBotInv
<1>3. nextEcho' \in Nat /\ nextEcho <= nextEcho'
  BY <1>1 DEF OneBotInv, OneBotTypes
<1>4. OneBotInv'
  BY <1>1, <1>2, <1>3, OneBotMoves
<1> QED BY <1>2, <1>4

LEMMA OneBotSendRaises ==
  ASSUME OneBotInv, NEW t \in Tasks, SendRaises(t)
  PROVE  OneBotInv' /\ Promise!DeliveryNext
<1>1. /\ Busy(t) /\ at' = [at EXCEPT ![t] = Failed(t)]
      /\ future' = [future EXCEPT ![t] = NoFuture]
      /\ UNCHANGED <<pending, nextEcho>> /\ unanswered' = unanswered \cup {Part(t)}
      /\ UNCHANGED <<requests, answers, sends, shown, delivered, late>>
  BY DEF SendRaises, Busy, linkVars, echoVars
<1>2. /\ Kept /\ Promise!DeliveryNext /\ at'[t].pc # "waiting"
      /\ \A u \in Tasks \ {t} : at'[u] = at[u] /\ Part(u)' = Part(u)
  BY <1>1, TryFails DEF OneBotInv
<1>3. nextEcho' \in Nat /\ nextEcho <= nextEcho'
  BY <1>1 DEF OneBotInv, OneBotTypes
<1>4. OneBotInv'
  BY <1>1, <1>2, <1>3, OneBotMoves
<1> QED BY <1>2, <1>4

(* A request is written to the connection. *)
LEMMA OneBotRequests ==
  ASSUME OneBotInv, NEW t \in Tasks, Tries(t), link \notin {"down", "lost"}
  PROVE  OneBotInv' /\ UNCHANGED Promise!deliveryVars
<1> DEFINE x == [at[t] EXCEPT !.pc = "waiting"]
           new == [echo |-> nextEcho + 1, part |-> Part(t)]
           wait == [echo |-> nextEcho + 1, answer |-> "none"]
<1>1. /\ at[t].pc = "trying" /\ at' = [at EXCEPT ![t] = x]
      /\ requests' = Append(requests, new) /\ future' = [future EXCEPT ![t] = wait]
      /\ nextEcho' = nextEcho + 1 /\ pending' = pending \cup {nextEcho + 1}
      /\ UNCHANGED <<answers, sends, historyVars>>
  BY DEF Tries, NoFuture
<1>2. x \in Places /\ x.pc = "waiting" /\ x.part = at[t].part
  BY <1>1 DEF OneBotInv, SendInv, SendTypes, Places
<1>3. /\ SendInv /\ OneBotTypes /\ Futures /\ nextEcho \in Nat
      /\ Part(t) \in Texts /\ Reached(Part(t)) /\ Open(Part(t)) /\ Part(t).task = t
  BY <1>1, PartIsText DEF OneBotInv, OneBotTypes, SendInv, Busy, Part
<1> HIDE DEF x
<1>4. /\ Kept /\ UNCHANGED Promise!deliveryVars /\ at'[t].pc = "waiting"
      /\ \A u \in Tasks \ {t} : at'[u] = at[u]
      /\ \A u \in Tasks : Part(u)' = Part(u)
  BY <1>1, <1>2, TaskGoesOn DEF OneBotInv
<1>5. /\ future'[t] = wait /\ \A u \in Tasks \ {t} : future'[u] = future[u]
      /\ \A u \in Tasks : future[u].echo \in Nat /\ future[u].echo <= nextEcho
  BY <1>1, <1>3 DEF OneBotTypes
<1>6. /\ DOMAIN requests' = 1 .. Len(requests) + 1 /\ DOMAIN requests = 1 .. Len(requests)
      /\ Len(requests) \in Nat
      /\ \A i \in DOMAIN requests : requests'[i] = requests[i]
      /\ requests'[Len(requests) + 1] = new
      /\ requests' \in Seq(Requests)
  <2>1. new \in Requests
    BY <1>3 DEF Requests
  <2> HIDE DEF new
  <2> QED BY <1>1, <1>3, <2>1 DEF OneBotTypes
<1>7. OneBotTypes'
  <2>1. future' \in [Tasks -> [echo : 0 .. nextEcho', answer : {"none", "ok", "failed"}]]
    BY <1>1, <1>3 DEF OneBotTypes
  <2> QED BY <1>1, <1>3, <1>6, <2>1 DEF OneBotTypes
<1>8. Futures'
  BY <1>1, <1>3, <1>4, <1>5 DEF Futures
<1>9. Requested'
  <2> SUFFICES ASSUME NEW i \in DOMAIN requests', NEW r, r = requests'[i]
               PROVE  /\ r.echo <= nextEcho' /\ Reached(r.part)'
                      /\ Wanted(r)' /\ Matches(r)'
    BY DEF Requested, Wanted, Matches, Reached, Busy
  <2>1. CASE i \in DOMAIN requests
    <3>1. /\ r.echo \in Nat \ {0} /\ r.part \in Texts /\ r.part.task \in Tasks
          /\ r.echo <= nextEcho /\ Reached(r.part) /\ Wanted(r) /\ Matches(r)
      BY <1>3, <1>6, <2>1, QueueElements DEF OneBotInv, Requested, Texts
    <3>2. future[t].echo = 0
      BY <1>1, <1>3 DEF Futures, NoFuture
    <3>3. r.echo <= nextEcho' /\ Reached(r.part)'
      BY <1>1, <1>3, <1>4, <3>1 DEF Kept
    <3>4. Matches(r)'
      BY <1>3, <1>4, <1>5, <3>1 DEF Matches
    <3>5. Wanted(r)'
      BY <1>1, <1>5, <3>1, <3>2 DEF Wanted, historyVars
    <3> QED BY <3>3, <3>4, <3>5
  <2>2. CASE r.echo = nextEcho + 1 /\ r.part = Part(t)
    <3>1. r.echo <= nextEcho' /\ Reached(r.part)'
      BY <1>1, <1>3, <1>4, <2>2 DEF Kept
    <3>2. Wanted(r)'
      BY <1>1, <1>3, <1>5, <2>2 DEF Wanted, Open, historyVars
    <3>3. Matches(r)'
      BY <1>3, <1>4, <1>5, <2>2 DEF Matches
    <3> QED BY <3>1, <3>2, <3>3
  <2> QED BY <1>6, <2>1, <2>2
<1>10. InOrder'
  <2>1. \A i \in DOMAIN requests : requests[i].echo < new.echo /\ ~Before(new.part, requests[i].part)
    <3>1. Busy(t) /\ SendTypes
      BY <1>1, <1>3 DEF Busy, SendInv
    <3> QED BY <1>3, <3>1, QueueElements, ReachedIsNotAfter DEF OneBotInv, Requested
  <2>2. \A j \in DOMAIN shown : ~Before(new.part, shown[j])
    <3>1. Busy(t) /\ SendTypes /\ \A j \in DOMAIN shown : shown[j] \in Texts /\ Reached(shown[j])
      BY <1>1, <1>3 DEF Busy, SendInv, SendTypes
    <3> QED BY <1>3, <3>1, ReachedIsNotAfter
  <2>3. \A j \in DOMAIN answers : answers[j].echo < new.echo
    BY <1>3, QueueElements DEF OneBotInv, Answered
  <2> HIDE DEF new
  <2>4. ASSUME NEW i \in DOMAIN requests', NEW j \in DOMAIN requests', i < j
        PROVE  requests'[i].echo < requests'[j].echo /\ ~Before(requests'[j].part, requests'[i].part)
    <3>1. i \in DOMAIN requests
      BY <1>6, <2>4
    <3>2. CASE j \in DOMAIN requests
      BY <1>6, <2>4, <3>1, <3>2 DEF OneBotInv, InOrder
    <3>3. CASE j = Len(requests) + 1
      BY <1>6, <2>1, <3>1, <3>3
    <3> QED BY <1>6, <3>2, <3>3
  <2>5. ASSUME NEW i \in DOMAIN requests'
        PROVE  /\ \A j \in DOMAIN shown : ~Before(requests'[i].part, shown[j])
               /\ \A j \in DOMAIN answers : answers[j].echo < requests'[i].echo
    BY <1>6, <2>2, <2>3 DEF OneBotInv, InOrder
  <2> QED BY <1>1, <2>4, <2>5 DEF InOrder, Before, Promise!Before, historyVars
<1>11. Answered'
  <2>1. ASSUME NEW u \in Tasks, NEW status, Says(u, status) PROVE Says(u, status)'
    BY <1>1, <1>4, <2>1 DEF Says, Open, historyVars
  <2>2. Says(t, "none")'
    BY DEF Says
  <2>3. \A i \in DOMAIN answers : answers[i].echo <= nextEcho /\ answers[i].echo \in Nat
    BY <1>3, QueueElements DEF OneBotInv, Answered
  <2>4. \A i \in DOMAIN answers : answers[i].echo # nextEcho + 1 /\ answers[i].echo <= nextEcho'
    BY <1>1, <1>3, <2>3
  <2> QED BY <1>1, <1>5, <2>1, <2>2, <2>4 DEF OneBotInv, Answered
<1> QED BY <1>4, <1>7, <1>8, <1>9, <1>10, <1>11 DEF OneBotInv, Kept

(* What is left of a queue: the rest of it, or what arrived before a loss. *)
LEMMA TailElements ==
  ASSUME NEW S, NEW q \in Seq(S), q # <<>>
  PROVE  /\ Head(q) = q[1] /\ 1 \in DOMAIN q /\ Tail(q) \in Seq(S)
         /\ \A i \in DOMAIN Tail(q) : i + 1 \in DOMAIN q /\ Tail(q)[i] = q[i + 1] /\ i \in Nat \ {0}
  OBVIOUS

LEMMA PrefixElements ==
  ASSUME NEW S, NEW q \in Seq(S), NEW k \in 0 .. Len(q)
  PROVE  /\ SubSeq(q, 1, k) \in Seq(S)
         /\ \A i \in DOMAIN SubSeq(q, 1, k) : i \in DOMAIN q /\ SubSeq(q, 1, k)[i] = q[i]
  OBVIOUS

(* The tasks' side is as it was, and of each queue a part is left, in order. *)
LEMMA OneBotRemains ==
  ASSUME OneBotInv, UNCHANGED <<taskVars, historyVars, echoVars, future>>,
         OneBotTypes', NEW f, NEW g,
         \A i \in DOMAIN requests' :
           f[i] \in DOMAIN requests /\ requests'[i] = requests[f[i]],
         \A i, j \in DOMAIN requests' : i < j => f[i] < f[j],
         \A i \in DOMAIN answers' : g[i] \in DOMAIN answers /\ answers'[i] = answers[g[i]]
  PROVE  OneBotInv' /\ UNCHANGED Promise!deliveryVars
<1>1. SendInv' /\ UNCHANGED Promise!deliveryVars /\ Futures'
  BY NothingSent, NothingIsStutter
  DEF OneBotInv, Futures, taskVars, historyVars, echoVars
<1>2. Requested'
  BY DEF OneBotInv, Requested, Reached, Busy, Wanted, Matches, Part, taskVars, historyVars, echoVars
<1>3. InOrder'
  BY DEF OneBotInv, InOrder, Before, Promise!Before, historyVars
<1>4. Answered'
  BY DEF OneBotInv, Answered, Says, Open, Part, taskVars, historyVars, echoVars
<1> QED BY <1>1, <1>2, <1>3, <1>4 DEF OneBotInv

LEMMA OneBotLinks ==
  ASSUME OneBotInv, Notices \/ Connects \/ UNCHANGED <<taskVars, historyVars, oneBotVars>>
  PROVE  OneBotInv' /\ UNCHANGED Promise!deliveryVars
<1>1. UNCHANGED <<taskVars, historyVars, echoVars, future, requests, answers>>
  BY DEF Notices, Connects, oneBotVars, linkVars
<1>2. OneBotTypes'
  BY <1>1 DEF OneBotInv, OneBotTypes, echoVars
<1> DEFINE f == [i \in DOMAIN requests |-> i]
           g == [i \in DOMAIN answers |-> i]
<1>3. (\A i \in DOMAIN requests : f[i] = i) /\ (\A i \in DOMAIN answers : g[i] = i)
  OBVIOUS
<1> HIDE DEF f, g
<1> QED BY <1>1, <1>2, <1>3, OneBotRemains

LEMMA OneBotLoses ==
  ASSUME OneBotInv, ConnectionLost
  PROVE  OneBotInv' /\ UNCHANGED Promise!deliveryVars
<1>1. PICK k \in 0 .. Len(requests) : requests' = SubSeq(requests, 1, k)
  BY DEF ConnectionLost
<1>2. PICK m \in 0 .. Len(answers) : answers' = SubSeq(answers, 1, m)
  BY DEF ConnectionLost
<1>3. UNCHANGED <<taskVars, historyVars, echoVars, future>>
  BY DEF ConnectionLost
<1>4. /\ requests' \in Seq(Requests)
      /\ \A i \in DOMAIN requests' : i \in DOMAIN requests /\ requests'[i] = requests[i]
  BY <1>1, PrefixElements DEF OneBotInv, OneBotTypes
<1>5. /\ answers' \in Seq(Replies)
      /\ \A i \in DOMAIN answers' : i \in DOMAIN answers /\ answers'[i] = answers[i]
  BY <1>2, PrefixElements DEF OneBotInv, OneBotTypes
<1>6. OneBotTypes'
  BY <1>3, <1>4, <1>5 DEF OneBotInv, OneBotTypes, echoVars
<1> DEFINE f == [i \in DOMAIN requests |-> i]
           g == [i \in DOMAIN answers |-> i]
<1>7. (\A i \in DOMAIN requests : f[i] = i) /\ (\A i \in DOMAIN answers : g[i] = i)
  OBVIOUS
<1> HIDE DEF f, g
<1> QED BY <1>3, <1>4, <1>5, <1>6, <1>7, OneBotRemains

(* An answer is read. *)
LEMMA OneBotHandles ==
  ASSUME OneBotInv, Handles
  PROVE  OneBotInv' /\ UNCHANGED Promise!deliveryVars
<1> DEFINE a == Head(answers)
<1>1. /\ answers # <<>> /\ answers' = Tail(answers) /\ pending' = pending \ {a.echo}
      /\ future' = [t \in Tasks |->
                     IF a.echo \in pending /\ future[t].echo = a.echo
                     THEN [future[t] EXCEPT !.answer = a.status] ELSE future[t]]
      /\ UNCHANGED <<requests, nextEcho, taskVars, historyVars>>
  BY DEF Handles
<1>2. SendInv' /\ UNCHANGED Promise!deliveryVars /\ \A t : Part(t)' = Part(t)
  BY <1>1, NothingSent, NothingIsStutter DEF OneBotInv, historyVars
<1>3. /\ a = answers[1] /\ 1 \in DOMAIN answers /\ answers' \in Seq(Replies)
      /\ \A i \in DOMAIN answers' : i + 1 \in DOMAIN answers /\ answers'[i] = answers[i + 1]
  BY <1>1, TailElements DEF OneBotInv, OneBotTypes
<1>4. a.echo \in Nat \ {0} /\ a.status \in {"ok", "failed"}
  <2>1. a \in Replies
    BY <1>3, ElementOf DEF OneBotInv, OneBotTypes
  <2> HIDE DEF a
  <2> QED BY <2>1 DEF Replies
<1> HIDE DEF a
<1>5. \A t \in Tasks : future[t] \in [echo : 0 .. nextEcho, answer : {"none", "ok", "failed"}]
  BY DEF OneBotInv, OneBotTypes
<1>6. ASSUME NEW t \in Tasks
      PROVE  /\ future'[t] \in [echo : 0 .. nextEcho, answer : {"none", "ok", "failed"}]
             /\ future'[t].echo = future[t].echo
             /\ \/ future'[t] = future[t] /\ (a.echo \notin pending \/ future[t].echo # a.echo)
                \/ future'[t].answer = a.status /\ future[t].echo = a.echo
  BY <1>1, <1>4, <1>5
<1>7. OneBotTypes'
  <2>1. future' \in [Tasks -> [echo : 0 .. nextEcho, answer : {"none", "ok", "failed"}]]
    BY <1>1, <1>6
  <2> QED BY <1>1, <1>3, <2>1 DEF OneBotInv, OneBotTypes
<1>8. Futures'
  <2>1. \A t \in Tasks : future[t] = NoFuture => future'[t] = NoFuture
    BY <1>4, <1>6 DEF NoFuture
  <2>2. \A t \in Tasks : IF at[t].pc = "waiting" THEN future'[t].echo # 0 ELSE future'[t] = NoFuture
    BY <1>6, <2>1 DEF OneBotInv, Futures
  <2>3. \A t, u \in Tasks : t # u /\ future'[t].echo # 0 => future'[t].echo # future'[u].echo
    BY <1>6 DEF OneBotInv, Futures
  <2>4. \A t \in Tasks : future'[t].echo # 0 /\ future'[t].answer = "none" => future'[t].echo \in pending'
    BY <1>1, <1>4, <1>6 DEF OneBotInv, Futures
  <2> QED BY <1>1, <2>2, <2>3, <2>4 DEF Futures, taskVars
<1>9. Requested'
  <2> SUFFICES ASSUME NEW i \in DOMAIN requests, NEW r, r = requests[i]
               PROVE  r.echo <= nextEcho /\ Reached(r.part)' /\ Wanted(r)' /\ Matches(r)'
    BY <1>1 DEF Requested, Wanted, Matches, Reached, Busy
  <2>1. /\ r.echo <= nextEcho /\ Reached(r.part) /\ Wanted(r) /\ Matches(r)
        /\ r.part \in Texts /\ r.part.task \in Tasks /\ a.echo < r.echo
    BY <1>3, QueueElements DEF OneBotInv, Requested, InOrder, Texts
  <2>2. Reached(r.part)'
    BY <1>1, <2>1 DEF Reached, Busy, taskVars
  <2>3. Wanted(r)'
    BY <1>1, <1>6, <2>1 DEF Wanted, historyVars
  <2>4. Matches(r)'
    <3>1. r.echo # a.echo
      BY <1>4, <2>1, QueueElements DEF OneBotInv
    <3> QED BY <1>2, <1>6, <2>1, <3>1 DEF Matches
  <2> QED BY <2>1, <2>2, <2>3, <2>4
<1>10. InOrder'
  BY <1>1, <1>3 DEF OneBotInv, InOrder, Before, Promise!Before, historyVars
<1>11. Answered'
  <2>1. \A t \in Tasks : \A status : Says(t, status)' <=> Says(t, status)
    BY <1>1, <1>2 DEF Says, Open, historyVars
  <2>2. \A t \in Tasks : future[t].echo = a.echo => Says(t, a.status)
    BY <1>3 DEF OneBotInv, Answered
  <2>3. ASSUME NEW t \in Tasks PROVE Says(t, future[t].answer)'
    <3>1. Says(t, future'[t].answer)
      BY <1>6, <2>2 DEF OneBotInv, Answered
    <3> QED BY <1>1, <1>2, <3>1 DEF Says, Open, historyVars
  <2>4. ASSUME NEW i \in DOMAIN answers'
        PROVE  /\ answers'[i].echo <= nextEcho
               /\ \A t \in Tasks : future'[t].echo = answers'[i].echo => Says(t, answers'[i].status)
    BY <1>3, <1>6 DEF OneBotInv, Answered
  <2> QED BY <1>1, <1>2, <2>3, <2>4 DEF Answered, Says, Open, historyVars
<1> QED BY <1>2, <1>7, <1>8, <1>9, <1>10, <1>11 DEF OneBotInv

LEMMA OneMoreElement ==
  ASSUME NEW S, NEW s \in Seq(S), NEW e \in S
  PROVE  /\ Append(s, e) \in Seq(S)
         /\ \A i \in DOMAIN Append(s, e) :
              (i \in DOMAIN s /\ Append(s, e)[i] = s[i]) \/ Append(s, e)[i] = e
  OBVIOUS

(* The server has handled a request: the others keep their places, what    *)
(* is known of the waiting tasks stays known, and an answer may be added.  *)
LEMMA OneBotServes ==
  ASSUME OneBotInv, ServerHandles
  PROVE  OneBotInv' /\ [Promise!DeliveryNext]_Promise!deliveryVars
<1>0. PICK q : q = Head(requests)
  OBVIOUS
<1>1. /\ requests # <<>> /\ requests' = Tail(requests)
      /\ UNCHANGED <<echoVars, future, taskVars, delivered, unanswered, late>>
      /\ \/ /\ shown' = Append(shown, q.part)
            /\ answers' \in {answers, Append(answers, [echo |-> q.echo, status |-> "ok"])}
         \/ /\ UNCHANGED shown
            /\ answers' \in {answers, Append(answers, [echo |-> q.echo, status |-> "failed"])}
  BY <1>0 DEF ServerHandles
<1>2. /\ q = requests[1] /\ 1 \in DOMAIN requests /\ requests' \in Seq(Requests)
      /\ \A i \in DOMAIN requests' : /\ i + 1 \in DOMAIN requests /\ i \in Nat \ {0}
                                    /\ requests'[i] = requests[i + 1]
  BY <1>0, <1>1, TailElements DEF OneBotInv, OneBotTypes
<1>3. /\ q.echo \in Nat \ {0} /\ q.part \in Texts /\ q.part.task \in Tasks
      /\ q.echo <= nextEcho /\ Reached(q.part) /\ Wanted(q) /\ Matches(q)
      /\ \A j \in DOMAIN shown : ~Before(q.part, shown[j])
      /\ \A j \in DOMAIN answers : answers[j].echo < q.echo
      /\ \A i \in DOMAIN requests' : /\ q.echo < requests'[i].echo
                                    /\ ~Before(requests'[i].part, q.part)
  <2>1. q.echo \in Nat \ {0} /\ q.part \in Texts /\ q.part.task \in Tasks
    BY <1>2, QueueElements DEF OneBotInv, Texts
  <2>2. q.echo <= nextEcho /\ Reached(q.part) /\ Wanted(q) /\ Matches(q)
    BY <1>2 DEF OneBotInv, Requested
  <2>3. /\ \A j \in DOMAIN shown : ~Before(q.part, shown[j])
        /\ \A j \in DOMAIN answers : answers[j].echo < q.echo
    BY <1>2 DEF OneBotInv, InOrder
  <2>4. \A i \in DOMAIN requests' : /\ q.echo < requests'[i].echo
                                   /\ ~Before(requests'[i].part, q.part)
    BY <1>2 DEF OneBotInv, InOrder
  <2> QED BY <2>1, <2>2, <2>3, <2>4
<1>4. \A t : Part(t)' = Part(t)
  BY <1>1 DEF taskVars, Part
<1>5. /\ SendTypes /\ Futures /\ OneBotTypes
      /\ \A t \in Tasks : Part(t) = q.part => t = q.part.task
  BY DEF OneBotInv, SendInv, Part
(* Who has an answer, or does not wait, is at another part. *)
<1>6. ASSUME NEW t \in Tasks, future[t].echo # q.echo \/ future[t].answer # "none"
      PROVE  Part(t) # q.part \/ q.part \in unanswered
  BY <1>3, <1>5, <1>6 DEF Wanted, Matches
<1>7. /\ SendInv' /\ [Promise!DeliveryNext]_Promise!deliveryVars
      /\ \A p : Contains(shown', p) => Contains(shown, p) \/ p = q.part
      /\ \A p : Contains(shown, p) => Contains(shown', p)
      /\ \A p : Open(p) /\ (p # q.part \/ p \in unanswered) => Open(p)'
      /\ \A i \in DOMAIN shown' : (i \in DOMAIN shown /\ shown'[i] = shown[i]) \/ shown'[i] = q.part
  <2>1. CASE UNCHANGED shown
    <3>1. UNCHANGED <<taskVars, shown, delivered, unanswered, late>>
      BY <1>1, <2>1
    <3> QED BY <3>1, NothingSent, NothingIsStutter DEF OneBotInv, historyVars
  <2>2. CASE shown' = Append(shown, q.part)
    <3>1. \A t \in Tasks : at[t].pc \in {"trying", "pausing"} /\ Part(t) = q.part => q.part \in unanswered
      BY <1>3, <1>5, <1>6 DEF Futures, NoFuture
    <3>2. SendInv' /\ \A p : Open(p) /\ (p # q.part \/ p \in unanswered) => Open(p)'
      BY <1>1, <1>3, <2>2, <3>1, ShowsInv DEF OneBotInv, taskVars
    <3>3. /\ \A p : Contains(shown', p) <=> Contains(shown, p) \/ p = q.part
          /\ \A i \in DOMAIN shown' : (i \in DOMAIN shown /\ shown'[i] = shown[i]) \/ shown'[i] = q.part
      BY <1>3, <1>5, <2>2, OneMoreShown
    <3>4. \/ q.part \in unanswered
          \/ ~Contains(shown, q.part) /\ \E t \in Tasks : Busy(t) /\ q.part = Part(t)
      BY <1>3, <1>5 DEF Wanted, Matches, Futures, NoFuture, Busy
    <3>5. Promise!DeliveryNext
      BY <1>1, <1>3, <1>5, <2>2, <3>4, ShowsIsShowInTurn
    <3> QED BY <3>2, <3>3, <3>5
  <2> QED BY <1>1, <2>1, <2>2
<1>8. /\ answers' \in Seq(Replies)
      /\ \A i \in DOMAIN answers' :
           \/ i \in DOMAIN answers /\ answers'[i] = answers[i]
           \/ answers'[i].echo = q.echo /\ answers'[i].status = "ok" /\ Contains(shown', q.part)
           \/ answers'[i].echo = q.echo /\ answers'[i].status = "failed" /\ Open(q.part)'
  <2>1. ASSUME NEW status \in {"ok", "failed"},
               answers' \in {answers, Append(answers, [echo |-> q.echo, status |-> status])}
        PROVE  /\ answers' \in Seq(Replies)
               /\ \A i \in DOMAIN answers' :
                    \/ i \in DOMAIN answers /\ answers'[i] = answers[i]
                    \/ answers'[i].echo = q.echo /\ answers'[i].status = status
    <3> DEFINE new == [echo |-> q.echo, status |-> status]
    <3>1. new \in Replies /\ new.echo = q.echo /\ new.status = status
      BY <1>3, <2>1 DEF Replies
    <3> HIDE DEF new
    <3>2. answers \in Seq(Replies)
      BY <1>5 DEF OneBotTypes
    <3> QED BY <2>1, <3>1, <3>2, OneMoreElement DEF new
  <2>2. CASE shown' = Append(shown, q.part)
              /\ answers' \in {answers, Append(answers, [echo |-> q.echo, status |-> "ok"])}
    BY <1>3, <1>5, <2>1, <2>2, OneMoreShown
  <2>3. CASE UNCHANGED shown
              /\ answers' \in {answers, Append(answers, [echo |-> q.echo, status |-> "failed"])}
    <3>1. Open(q.part)'
      BY <1>1, <1>3, <2>3 DEF Open, Wanted
    <3> QED BY <2>1, <2>3, <3>1
  <2> QED BY <1>1, <2>2, <2>3
<1>9. OneBotTypes' /\ Futures'
  BY <1>1, <1>2, <1>5, <1>8 DEF OneBotTypes, Futures, echoVars, taskVars
<1>10. Requested'
  <2> SUFFICES ASSUME NEW i \in DOMAIN requests', NEW r, r = requests'[i]
               PROVE  r.echo <= nextEcho /\ Reached(r.part)' /\ Wanted(r)' /\ Matches(r)'
    BY <1>1 DEF Requested, Wanted, Matches, Reached, Busy, echoVars
  <2>1. /\ r.echo <= nextEcho /\ Reached(r.part) /\ Wanted(r) /\ Matches(r) /\ q.echo < r.echo
        /\ r.part \in Texts /\ r.part.task \in Tasks /\ r.echo \in Nat
    BY <1>2, <1>3, QueueElements DEF OneBotInv, Requested, Texts
  <2>2. Reached(r.part)' /\ Matches(r)'
    BY <1>1, <1>4, <2>1 DEF Reached, Busy, Matches, taskVars
  <2>3. r.part # q.part \/ r.part \in unanswered
    BY <1>3, <2>1 DEF Wanted
  <2>4. Wanted(r)'
    BY <1>1, <1>7, <2>1, <2>3 DEF Wanted
  <2> QED BY <2>1, <2>2, <2>4
<1>11. InOrder'
  <2>1. \A i, j \in DOMAIN requests' :
          i < j => /\ requests'[i].echo < requests'[j].echo
                   /\ ~Before(requests'[j].part, requests'[i].part)
    BY <1>2 DEF OneBotInv, InOrder
  <2>2. ASSUME NEW i \in DOMAIN requests'
        PROVE  /\ \A j \in DOMAIN shown' : ~Before(requests'[i].part, shown'[j])
               /\ \A j \in DOMAIN answers' : answers'[j].echo < requests'[i].echo
    BY <1>2, <1>3, <1>7, <1>8 DEF OneBotInv, InOrder
  <2> QED BY <2>1, <2>2 DEF InOrder, Before, Promise!Before
<1>12. Answered'
  <2>1. ASSUME NEW t \in Tasks, NEW status, Says(t, status),
               future[t].echo # q.echo \/ future[t].answer # "none"
        PROVE  Says(t, status)'
    <3>1. Part(t) # q.part \/ Part(t) \in unanswered
      BY <1>6, <2>1
    <3>2. Open(Part(t)) => ~Contains(shown', Part(t)) \/ Part(t) \in unanswered
      BY <1>7, <3>1 DEF Open
    <3> QED BY <1>1, <1>4, <1>7, <2>1, <3>2 DEF Says, Open
  <2>2. \A t \in Tasks : Says(t, future[t].answer)'
    <3>1. \A t \in Tasks : future[t].answer # "none" => Says(t, future[t].answer)'
      BY <1>1, <2>1 DEF OneBotInv, Answered
    <3>2. \A t \in Tasks : Says(t, "none")'
      BY DEF Says
    <3> QED BY <1>1, <3>1, <3>2 DEF Says
  <2>3. ASSUME NEW i \in DOMAIN answers', NEW t \in Tasks, future[t].echo = answers'[i].echo
        PROVE  Says(t, answers[i].status)'
    <3>1. CASE i \in DOMAIN answers /\ answers'[i] = answers[i]
      <4>1. future[t].echo # q.echo /\ Says(t, answers[i].status)
        BY <1>1, <1>3, <1>5, <2>3, <3>1, QueueElements DEF OneBotInv, Answered
      <4>2. PICK status : status = answers[i].status
        OBVIOUS
      <4> QED BY <2>1, <3>1, <4>1, <4>2 DEF Says
    <3>2. CASE answers'[i].echo = q.echo
      <4>1. q.part = Part(t)
        BY <1>3, <2>3, <3>2 DEF Matches
      <4> QED BY <1>3, <1>4, <1>5, <1>8, <2>3, <3>2, <4>1, QueueElements DEF Says
    <3> QED BY <1>8, <3>1, <3>2
  <2>4. \A i \in DOMAIN answers' : answers'[i].echo <= nextEcho
    BY <1>3, <1>8 DEF OneBotInv, Answered
  <2> QED BY <1>1, <2>2, <2>3, <2>4 DEF Answered, Says, echoVars
<1> QED BY <1>7, <1>9, <1>10, <1>11, <1>12 DEF OneBotInv

LEMMA OneBotStep ==
  ASSUME OneBotInv, [OneBotNext]_<<taskVars, historyVars, oneBotVars>>
  PROVE  OneBotInv' /\ [Promise!DeliveryNext]_Promise!deliveryVars
<1>1. ASSUME NEW t \in Tasks, Sends(t), UNCHANGED oneBotVars
      PROVE  OneBotInv' /\ [Promise!DeliveryNext]_Promise!deliveryVars
  BY <1>1, OneBotBegins
<1>2. ASSUME NEW t \in Tasks, OneBotProceeds(t)
      PROVE  OneBotInv' /\ [Promise!DeliveryNext]_Promise!deliveryVars
  BY <1>2, OneBotResumes, OneBotFailsAtOnce, OneBotRequests, OneBotWakes, OneBotTimesOut
     DEF OneBotProceeds
<1>3. CASE Notices \/ Connects \/ UNCHANGED <<taskVars, historyVars, oneBotVars>>
  BY <1>3, OneBotLinks
<1> QED BY <1>1, <1>2, <1>3, OneBotHandles, OneBotServes, OneBotLoses, OneBotSendRaises
        DEF OneBotNext

(* The inductive invariant of sending on the OneBot channel. *)
THEOREM OneBotInvariant == OneBotSpec => []OneBotInv
<1>1. OneBotInv /\ [OneBotNext]_<<taskVars, historyVars, oneBotVars>> => OneBotInv'
  BY OneBotStep
<1> QED BY OneBotInvInit, <1>1, PTL DEF OneBotSpec

(* Whoever waits for an answer of the OneBot server will get it if it      *)
(* comes: its echo is in _pending and is nobody else's, over timeouts and  *)
(* lost connections.                                                       *)
THEOREM WaitersListed == OneBotSpec => []WaitersAreListed
<1>1. OneBotInv => WaitersAreListed
  BY DEF OneBotInv, Futures, WaitersAreListed, NoFuture
<1> QED BY OneBotInvariant, <1>1, PTL

(* The OneBot channel implements Delivery: what counts as sent was shown,  *)
(* a part is shown again only after a try without an answer, and parts are *)
(* in order, whatever requests and answers a lost connection takes.        *)
THEOREM OneBotDelivers == OneBotSpec => DeliveryRefinement
<1>1. OneBotInv /\ [OneBotNext]_<<taskVars, historyVars, oneBotVars>>
        => [Promise!DeliveryNext]_Promise!deliveryVars
  BY OneBotStep
<1> QED BY OneBotInvariant, InitIsDeliveryInit, <1>1, PTL
        DEF OneBotSpec, DeliveryRefinement, Promise!DeliverySpec
=============================================================================
