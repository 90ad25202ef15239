------------------------ MODULE WebhookRelay_proofs ------------------------
(***************************************************************************)
(* Theorems about WebhookRelay, for every set of messages and every bound. *)
(***************************************************************************)
EXTENDS WebhookRelay, TLAPS

(* An element of a sequence over a set is in the set. *)
LEMMA ElementOf == ASSUME NEW S, NEW s \in Seq(S), NEW i \in 1..Len(s) PROVE s[i] \in S
  OBVIOUS

LEMMA ElementIn == ASSUME NEW S, NEW s \in Seq(S), NEW i \in 1..Len(s) PROVE s[i] \in ToSet(s)
  BY DEF ToSet

(* What a sequence has after its first element has gone, or one has come.  *)
LEMMA TailOf ==
  ASSUME NEW S, NEW s \in Seq(S), s # <<>>
  PROVE  /\ Head(s) \in S /\ Tail(s) \in Seq(S) /\ Len(Tail(s)) = Len(s) - 1
         /\ Len(s) \in Nat \ {0} /\ Head(s) = s[1]
         /\ \A i \in 1..Len(Tail(s)) : i + 1 \in 1..Len(s) /\ Tail(s)[i] = s[i + 1]
  OBVIOUS

LEMMA AppendOf ==
  ASSUME NEW S, NEW s \in Seq(S), NEW e \in S
  PROVE  /\ Append(s, e) \in Seq(S) /\ Len(Append(s, e)) = Len(s) + 1
         /\ Len(s) \in Nat
         /\ \A i \in 1..Len(s) : Append(s, e)[i] = s[i]
         /\ Append(s, e)[Len(s) + 1] = e
  OBVIOUS

LEMMA ToSetAppend ==
  ASSUME NEW S, NEW s \in Seq(S), NEW e \in S
  PROVE  ToSet(Append(s, e)) = ToSet(s) \cup {e}
<1>1. DOMAIN s = 1..Len(s) /\ DOMAIN Append(s, e) = 1..Len(Append(s, e))
  OBVIOUS
<1> QED
  BY <1>1, AppendOf DEF ToSet

LEMMA ToSetTail ==
  ASSUME NEW S, NEW s \in Seq(S), s # <<>>
  PROVE  ToSet(s) = ToSet(Tail(s)) \cup {Head(s)}
<1>1. DOMAIN s = 1..Len(s) /\ DOMAIN Tail(s) = 1..Len(Tail(s))
  BY TailOf
<1>2. ToSet(s) \subseteq ToSet(Tail(s)) \cup {Head(s)}
  <2>1. SUFFICES ASSUME NEW i \in 1..Len(s), i # 1 PROVE s[i] \in ToSet(Tail(s))
    BY <1>1, TailOf DEF ToSet
  <2>2. i - 1 \in 1..Len(Tail(s)) /\ Tail(s)[i - 1] = s[i]
    BY <2>1, TailOf
  <2> QED
    BY <2>2, <1>1 DEF ToSet
<1>3. ToSet(Tail(s)) \subseteq ToSet(s)
  BY <1>1, TailOf DEF ToSet
<1>4. Head(s) \in ToSet(s)
  <2>1. 1 \in 1..Len(s) /\ Head(s) = s[1]
    BY TailOf
  <2> QED
    BY <2>1, <1>1 DEF ToSet
<1> QED
  BY <1>2, <1>3, <1>4

(* What expiry leaves of the remembered ids. *)
LEMMA SuffixOf ==
  ASSUME NEW S, NEW s \in Seq(S), NEW ids \in Suffixes(s)
  PROVE  ids \in Seq(S) /\ Len(ids) <= Len(s) /\ ToSet(ids) \subseteq ToSet(s)
<1>1. CASE ids = <<>>
  BY <1>1 DEF ToSet
<1>2. CASE ids # <<>>
  <2>1. PICK l \in 1..Len(s) : ids = SubSeq(s, l, Len(s))
    BY <1>2 DEF Suffixes
  <2>2. /\ ids \in Seq(S) /\ Len(ids) = Len(s) - l + 1 /\ Len(s) \in Nat
        /\ \A i \in 1..Len(ids) : ids[i] = s[l + i - 1]
    BY <2>1
  <2>3. \A i \in 1..Len(ids) : l + i - 1 \in 1..Len(s)
    BY <2>2
  <2>4. DOMAIN s = 1..Len(s) /\ DOMAIN ids = 1..Len(ids)
    BY <2>2
  <2> QED
    BY <2>1, <2>2, <2>3, <2>4 DEF ToSet
<1> QED
  BY <1>1, <1>2

LEMMA ContainsIsIn ==
  ASSUME NEW S, NEW s \in Seq(S), NEW e
  PROVE  Contains(s, e) <=> e \in ToSet(s)
<1>1. DOMAIN s = 1..Len(s)
  OBVIOUS
<1> QED
  BY <1>1 DEF Contains, ToSet

(* The remembered ids stay within their limit, keep the new one, and lose  *)
(* the oldest one at most.                                                 *)
LEMMA MarkedOf ==
  ASSUME NEW ids \in Seq(Messages \ NoId), Len(ids) <= DedupMax,
         NEW m \in Messages \ NoId
  PROVE  /\ Marked(ids, m) \in Seq(Messages \ NoId)
         /\ Len(Marked(ids, m)) <= DedupMax
         /\ m \in ToSet(Marked(ids, m))
         /\ ToSet(Marked(ids, m)) \subseteq ToSet(ids) \cup {m}
<1> DEFINE S == Messages \ NoId  longer == Append(ids, m)
<1> HIDE DEF S
<1>0. ids \in Seq(S) /\ m \in S
  BY DEF S
<1>1. /\ longer \in Seq(S) /\ Len(longer) = Len(ids) + 1 /\ Len(ids) \in Nat
      /\ longer[Len(ids) + 1] = m
      /\ ToSet(longer) = ToSet(ids) \cup {m}
  BY <1>0, AppendOf, ToSetAppend
<1>2. DedupMax \in Nat \ {0}
  BY RelayAssumption
<1>3. CASE Len(longer) <= DedupMax
  <2>1. Marked(ids, m) = longer
    BY <1>1, <1>2, <1>3 DEF Marked
  <2> QED
    BY <2>1, <1>1, <1>3 DEF S
<1>4. CASE ~(Len(longer) <= DedupMax)
  <2> HIDE DEF longer
  <2>1. Marked(ids, m) = Tail(longer) /\ longer # <<>>
    BY <1>1, <1>2, <1>4 DEF Marked, longer
  <2>2. /\ Tail(longer) \in Seq(S) /\ Len(Tail(longer)) = Len(ids)
        /\ ToSet(longer) = ToSet(Tail(longer)) \cup {Head(longer)}
    BY <2>1, <1>1, TailOf, ToSetTail
  <2>3. Len(ids) >= 1 /\ Tail(longer)[Len(ids)] = m
    BY <2>1, <2>2, <1>1, <1>2, <1>4, TailOf
  <2>4. m \in ToSet(Tail(longer))
    <3>1. Len(ids) \in 1..Len(Tail(longer))
      BY <2>2, <2>3, <1>1
    <3> QED
      BY <3>1, <2>2, <2>3, ElementIn
  <2> QED
    BY <2>1, <2>2, <2>4, <1>1 DEF S
<1> QED
  BY <1>3, <1>4

LEMMA NothingIsNoCall == Nothing \notin Calls
  BY RelayAssumption DEF Nothing, Calls

-----------------------------------------------------------------------------
(* A run of a coroutine, for a message with an id: what is remembered, and *)
(* what is not remembered any more.                                        *)
RunsWithId(call, ids) ==
  /\ call.msg \notin NoId
  /\ ids \in Suffixes(seen)
  /\ Fresh(ids)
  /\ IF Contains(ids, call.msg)
     THEN seen' = ids /\ Returns(call) /\ UNCHANGED forwarding
     ELSE /\ seen' = Marked(ids, call.msg)
          /\ forwarding' = call
          /\ UNCHANGED <<waiting, answered>>
  /\ Forgets((ToSet(seen) \ ToSet(ids)) \cup (ToSet(ids) \ ToSet(seen')))

RunsWithoutId(call) ==
  /\ call.msg \in NoId
  /\ forwarding' = call
  /\ UNCHANGED <<seen, expiries, waiting, answered, forgotten>>

LEMMA RunsCases ==
  ASSUME TypeOK, Runs
  PROVE  /\ Idle /\ loop # <<>> /\ loop' = Tail(loop) /\ Head(loop) \in Calls
         /\ Tail(loop) \in Seq(Calls)
         /\ RunsWithoutId(Head(loop)) \/ \E ids \in Suffixes(seen) : RunsWithId(Head(loop), ids)
         /\ UNCHANGED <<calls, crashes, coreVars, failed, dropped>>
<1>1. Idle /\ loop # <<>> /\ loop' = Tail(loop) /\ UNCHANGED <<calls, crashes, coreVars, failed, dropped>>
  BY DEF Runs
<1>2. Head(loop) \in Calls /\ Tail(loop) \in Seq(Calls)
  BY <1>1, TailOf DEF TypeOK
<1>3. RunsWithoutId(Head(loop)) \/ \E ids \in Suffixes(seen) : RunsWithId(Head(loop), ids)
  BY DEF Runs, RunsWithoutId, RunsWithId
<1> QED
  BY <1>1, <1>2, <1>3

LEMMA ReturnsType ==
  ASSUME TypeOK, NEW call \in Calls, Returns(call)
  PROVE  waiting' \subseteq Calls /\ answered' \subseteq Messages
<1>1. call.msg \in Messages
  BY DEF Calls
<1> QED
  BY <1>1 DEF TypeOK, Returns

LEMMA RunsType == ASSUME TypeOK, Runs PROVE TypeOK'
<1> DEFINE call == Head(loop)
<1>1. /\ Idle /\ loop' = Tail(loop) /\ call \in Calls /\ Tail(loop) \in Seq(Calls)
      /\ RunsWithoutId(call) \/ \E ids \in Suffixes(seen) : RunsWithId(call, ids)
      /\ UNCHANGED <<calls, crashes, coreVars, failed, dropped>>
  BY RunsCases
<1>2. call.msg \in Messages
  BY <1>1 DEF Calls
<1> HIDE DEF call
<1>3. CASE RunsWithoutId(call)
  BY <1>1, <1>3 DEF RunsWithoutId, TypeOK, coreVars
<1>4. ASSUME NEW ids \in Suffixes(seen), RunsWithId(call, ids)
      PROVE  TypeOK'
  <2>1. /\ ids \in Seq(Messages \ NoId) /\ Len(ids) <= DedupMax
        /\ ToSet(ids) \subseteq ToSet(seen)
    <3>1. seen \in Seq(Messages \ NoId) /\ Len(seen) <= DedupMax
      BY DEF TypeOK
    <3>2. ids \in Seq(Messages \ NoId) /\ Len(ids) <= Len(seen) /\ ToSet(ids) \subseteq ToSet(seen)
      BY <3>1, SuffixOf
    <3>3. Len(ids) \in Nat /\ Len(seen) \in Nat /\ DedupMax \in Nat
      BY <3>1, <3>2, RelayAssumption
    <3> QED
      BY <3>1, <3>2, <3>3
  <2>2. expiries' \in 0..MaxExpiries
    BY <1>4, RelayAssumption DEF RunsWithId, Fresh, TypeOK
  <2>3. ToSet(seen) \subseteq Messages
    BY DEF TypeOK, ToSet
  <2>4. forgotten' \subseteq Messages
    BY <1>4, <2>1, <2>3 DEF RunsWithId, Forgets, TypeOK
  <2>5. CASE Contains(ids, call.msg)
    <3>1. seen' = ids /\ Returns(call) /\ UNCHANGED forwarding
      BY <1>4, <2>5 DEF RunsWithId
    <3>2. waiting' \subseteq Calls /\ answered' \subseteq Messages
      BY <3>1, <1>1, ReturnsType
    <3> QED
      BY <3>1, <3>2, <2>1, <2>2, <2>4, <1>1 DEF TypeOK, coreVars
  <2>6. CASE ~Contains(ids, call.msg)
    <3>1. seen' = Marked(ids, call.msg) /\ forwarding' = call /\ UNCHANGED <<waiting, answered>>
      BY <1>4, <2>6 DEF RunsWithId
    <3>2. call.msg \in Messages \ NoId
      BY <1>2, <1>4 DEF RunsWithId
    <3>3. seen' \in Seq(Messages \ NoId) /\ Len(seen') <= DedupMax
      BY <3>1, <3>2, <2>1, MarkedOf
    <3> QED
      BY <3>1, <3>3, <2>2, <2>4, <1>1 DEF TypeOK, coreVars
  <2> QED
    BY <2>5, <2>6
<1> QED
  BY <1>1, <1>3, <1>4

(* A coroutine that is dropped, and what it leaves of the remembered ids.  *)
DropsMarked(call, ids) ==
  /\ call.msg \notin NoId
  /\ Fresh(ids)
  /\ seen' = Marked(ids, call.msg)
  /\ Forgets((ToSet(seen) \ ToSet(ids)) \cup (ToSet(ids) \ ToSet(seen')))

LEMMA DropsCases ==
  ASSUME TypeOK, Drops
  PROVE  /\ Idle /\ loop' \in Seq(Calls) /\ Head(loop) \in Calls /\ Head(loop).msg \in Messages
         /\ Returns(Head(loop)) /\ dropped' = dropped \cup {Head(loop).msg}
         /\ \/ UNCHANGED <<seen, expiries, forgotten>>
            \/ \E ids \in Suffixes(seen) : DropsMarked(Head(loop), ids)
         /\ UNCHANGED <<calls, crashes, forwarding, coreVars, failed>>
<1>1. /\ Idle /\ loop # <<>> /\ loop' = Tail(loop) /\ Returns(Head(loop))
      /\ dropped' = dropped \cup {Head(loop).msg}
      /\ \/ UNCHANGED <<seen, expiries, forgotten>>
         \/ \E ids \in Suffixes(seen) : DropsMarked(Head(loop), ids)
      /\ UNCHANGED <<calls, crashes, forwarding, coreVars, failed>>
  BY DEF Drops, DropsMarked
<1>2. Head(loop) \in Calls /\ Tail(loop) \in Seq(Calls)
  BY <1>1, TailOf DEF TypeOK
<1> QED
  BY <1>1, <1>2 DEF Calls

LEMMA DropsSeen ==
  ASSUME TypeOK, NEW call \in Calls, NEW ids \in Suffixes(seen), DropsMarked(call, ids)
  PROVE  /\ seen' \in Seq(Messages \ NoId) /\ Len(seen') <= DedupMax
         /\ ToSet(seen') \subseteq ToSet(seen) \cup {call.msg}
         /\ ToSet(seen) \subseteq ToSet(seen') \cup forgotten' /\ forgotten \subseteq forgotten'
         /\ forgotten' \subseteq Messages /\ expiries' \in 0..MaxExpiries
<1>1. seen \in Seq(Messages \ NoId) /\ Len(seen) <= DedupMax
  BY DEF TypeOK
<1>2. ids \in Seq(Messages \ NoId) /\ Len(ids) <= Len(seen) /\ ToSet(ids) \subseteq ToSet(seen)
  BY <1>1, SuffixOf
<1>3. Len(ids) <= DedupMax
  <2>1. Len(ids) \in Nat /\ Len(seen) \in Nat /\ DedupMax \in Nat
    BY <1>1, <1>2, RelayAssumption
  <2> QED
    BY <2>1, <1>1, <1>2
<1>4. call.msg \in Messages \ NoId /\ seen' = Marked(ids, call.msg)
  BY DEF DropsMarked, Calls
<1>5. /\ seen' \in Seq(Messages \ NoId) /\ Len(seen') <= DedupMax
      /\ ToSet(seen') \subseteq ToSet(seen) \cup {call.msg}
  BY <1>2, <1>3, <1>4, MarkedOf
<1>6. forgotten' = forgotten \cup ((ToSet(seen) \ ToSet(ids)) \cup (ToSet(ids) \ ToSet(seen')))
  BY DEF DropsMarked, Forgets
<1>7. ToSet(seen) \subseteq Messages
  BY <1>1 DEF ToSet
<1>8. forgotten' \subseteq Messages
  BY <1>2, <1>6, <1>7 DEF TypeOK
<1>9. expiries' \in 0..MaxExpiries
  BY RelayAssumption DEF DropsMarked, Fresh, TypeOK
<1> QED
  BY <1>5, <1>6, <1>8, <1>9

LEMMA DropsType == ASSUME TypeOK, Drops PROVE TypeOK'
<1> DEFINE call == Head(loop)
<1>1. /\ loop' \in Seq(Calls) /\ call \in Calls /\ call.msg \in Messages /\ Returns(call)
      /\ dropped' = dropped \cup {call.msg}
      /\ \/ UNCHANGED <<seen, expiries, forgotten>>
         \/ \E ids \in Suffixes(seen) : DropsMarked(call, ids)
      /\ UNCHANGED <<calls, crashes, forwarding, coreVars, failed>>
  BY DropsCases
<1> HIDE DEF call
<1>2. waiting' \subseteq Calls /\ answered' \subseteq Messages
  BY <1>1, ReturnsType
<1>3. /\ seen' \in Seq(Messages \ NoId) /\ Len(seen') <= DedupMax
      /\ forgotten' \subseteq Messages /\ expiries' \in 0..MaxExpiries
  BY <1>1, DropsSeen DEF TypeOK
<1> QED
  BY <1>1, <1>2, <1>3 DEF TypeOK, coreVars

LEMMA CoreHead ==
  ASSUME TypeOK, CoreAccepts
  PROVE  Head(core) \in Calls /\ Tail(core) \in Seq(Calls) /\ Head(core).msg \in Messages
<1>1. core \in Seq(Calls) /\ core # <<>>
  BY DEF TypeOK, CoreAccepts
<1>2. Head(core) \in Calls /\ Tail(core) \in Seq(Calls)
  BY <1>1, TailOf
<1> QED
  BY <1>2 DEF Calls

LEMMA TypeStep == ASSUME TypeOK, [RelayNext]_relayVars PROVE TypeOK'
<1> USE RelayAssumption
<1>1. ASSUME NEW m \in Messages, PlatformCalls(m) PROVE TypeOK'
  <2>1. calls' \in 1..MaxCalls /\ [msg |-> m, n |-> calls'] \in Calls
    BY <1>1 DEF PlatformCalls, TypeOK, Calls
  <2> DEFINE call == [msg |-> m, n |-> calls']
  <2>2. waiting' = waiting \cup {call} /\ loop' = Append(loop, call)
    BY <1>1 DEF PlatformCalls
  <2>3. loop' \in Seq(Calls)
    BY <2>1, <2>2, AppendOf DEF TypeOK
  <2> QED
    BY <1>1, <2>1, <2>2, <2>3 DEF PlatformCalls, TypeOK, coreVars, historyVars
<1>2. ASSUME NEW call \in waiting, ThreadTimesOut(call) PROVE TypeOK'
  BY <1>2 DEF ThreadTimesOut, TypeOK, boundVars, coreVars, historyVars
<1>3. CASE Runs
  BY <1>3, RunsType
<1>4. CASE Forwards
  <2>1. forwarding \in Calls
    BY <1>4 DEF Forwards, Idle, TypeOK
  <2>2. core' \in Seq(Calls)
    BY <1>4, <2>1, AppendOf DEF Forwards, TypeOK
  <2> QED
    BY <1>4, <2>2 DEF Forwards, TypeOK, boundVars, historyVars
<1>5. ASSUME Hears \/ Fails PROVE TypeOK'
  <2>1. forwarding \in Calls /\ forwarding.msg \in Messages /\ Returns(forwarding)
    BY <1>5 DEF Hears, Fails, Idle, TypeOK, Calls
  <2>2. waiting' \subseteq Calls /\ answered' \subseteq Messages
    BY <2>1, ReturnsType
  <2> QED
    BY <1>5, <2>1, <2>2 DEF Hears, Fails, TypeOK, boundVars, coreVars
<1>6. CASE CoreAccepts
  <2>1. Head(core) \in Calls /\ Tail(core) \in Seq(Calls) /\ Head(core).msg \in Messages
    BY <1>6, CoreHead
  <2>2. accepted' \in Seq(Messages)
    BY <1>6, <2>1, AppendOf DEF CoreAccepts, TypeOK
  <2> QED
    BY <1>6, <2>1, <2>2 DEF CoreAccepts, TypeOK, boundVars, historyVars
<1>7. CASE Crash
  <2>1. ToSet(seen) \subseteq Messages
    BY DEF TypeOK, ToSet
  <2>2. <<>> \in Seq(Calls) /\ <<>> \in Seq(Messages \ NoId) /\ Len(<<>>) = 0
    OBVIOUS
  <2> QED
    BY <1>7, <2>1, <2>2 DEF Crash, Forgets, TypeOK, coreVars
<1>8. CASE UNCHANGED relayVars
  BY <1>8 DEF relayVars, TypeOK, boundVars, coreVars, historyVars
<1>9. CASE Drops
  BY <1>9, DropsType
<1> QED
  BY <1>1, <1>2, <1>3, <1>4, <1>5, <1>6, <1>7, <1>8, <1>9 DEF RelayNext, RelayLoop

LEMMA TypeInit == RelayInit => TypeOK
  BY RelayAssumption DEF RelayInit, TypeOK

(* The type invariant of the relay, for all messages and bounds.           *)
THEOREM TypeCorrect == RelaySpec => []TypeOK
<1>1. RelayInit => TypeOK
  BY TypeInit
<1>2. TypeOK /\ [RelayNext]_relayVars => TypeOK'
  BY TypeStep
<1> QED
  BY <1>1, <1>2, PTL DEF RelaySpec

-----------------------------------------------------------------------------
(* What the platform is told.  A remembered message has been forwarded, or *)
(* that failed, or a call of it was dropped, or it is under way; what the core has answered it    *)
(* has accepted.                                                           *)
SeenIsForwarded ==
  \A m \in ToSet(seen) :
    m \in ToSet(accepted) \cup failed \cup dropped \/ (~Idle /\ forwarding.msg = m)

RepliedIsAccepted == \A call \in replied : call.msg \in ToSet(accepted)

ForwardInv == AnsweredIsForwarded /\ SeenIsForwarded /\ RepliedIsAccepted

(* A run of a coroutine keeps it: only what is remembered is answered at   *)
(* once, and what is remembered anew is being forwarded.                   *)
LEMMA RunsForward == ASSUME TypeOK, ForwardInv, Runs PROVE ForwardInv'
<1> DEFINE call == Head(loop)
<1>1. /\ Idle /\ call \in Calls
      /\ RunsWithoutId(call) \/ \E ids \in Suffixes(seen) : RunsWithId(call, ids)
      /\ UNCHANGED <<coreVars, failed, dropped>>
  BY RunsCases
<1> HIDE DEF call
<1>2. RepliedIsAccepted'
  BY <1>1 DEF ForwardInv, RepliedIsAccepted, coreVars
<1>3. \A m \in ToSet(seen) : m \in ToSet(accepted) \cup failed \cup dropped
  BY <1>1 DEF ForwardInv, SeenIsForwarded
<1>4. CASE RunsWithoutId(call)
  BY <1>1, <1>2, <1>3, <1>4
     DEF RunsWithoutId, ForwardInv, SeenIsForwarded, AnsweredIsForwarded, coreVars
<1>5. ASSUME NEW ids \in Suffixes(seen), RunsWithId(call, ids)
      PROVE  ForwardInv'
  <2>1. seen \in Seq(Messages \ NoId) /\ Len(seen) <= DedupMax
    BY DEF TypeOK
  <2>2. ids \in Seq(Messages \ NoId) /\ Len(ids) <= Len(seen) /\ ToSet(ids) \subseteq ToSet(seen)
    BY <2>1, SuffixOf
  <2>3. CASE Contains(ids, call.msg)
    <3>1. seen' = ids /\ Returns(call) /\ UNCHANGED forwarding
      BY <1>5, <2>3 DEF RunsWithId
    <3>2. call.msg \in ToSet(accepted) \cup failed \cup dropped
      BY <2>3, <2>2, <1>3, ContainsIsIn
    <3> QED
      BY <3>1, <3>2, <2>2, <1>1, <1>2, <1>3
         DEF Returns, ForwardInv, SeenIsForwarded, AnsweredIsForwarded, coreVars
  <2>4. CASE ~Contains(ids, call.msg)
    <3>1. seen' = Marked(ids, call.msg) /\ forwarding' = call /\ UNCHANGED <<waiting, answered>>
      BY <1>5, <2>4 DEF RunsWithId
    <3>2. call.msg \in Messages \ NoId
      BY <1>1, <1>5 DEF RunsWithId, Calls
    <3>3. Len(ids) <= DedupMax
      <4>1. Len(ids) \in Nat /\ Len(seen) \in Nat /\ DedupMax \in Nat
        BY <2>1, <2>2, RelayAssumption
      <4> QED
        BY <4>1, <2>1, <2>2
    <3>4. ToSet(seen') \subseteq ToSet(seen) \cup {call.msg}
      BY <3>1, <3>2, <3>3, <2>2, MarkedOf
    <3>5. ~Idle'
      BY <3>1, <1>1, NothingIsNoCall DEF Idle
    <3> QED
      BY <3>1, <3>4, <3>5, <1>1, <1>2, <1>3
         DEF ForwardInv, SeenIsForwarded, AnsweredIsForwarded, coreVars
  <2> QED
    BY <2>3, <2>4
<1> QED
  BY <1>1, <1>4, <1>5

(* A dropped call counts as such from now on, remembered or not.           *)
LEMMA DropsForward == ASSUME TypeOK, ForwardInv, Drops PROVE ForwardInv'
<1> DEFINE call == Head(loop)
<1>1. /\ Idle /\ call \in Calls /\ Returns(call) /\ dropped' = dropped \cup {call.msg}
      /\ \/ UNCHANGED <<seen, expiries, forgotten>>
         \/ \E ids \in Suffixes(seen) : DropsMarked(call, ids)
      /\ UNCHANGED <<forwarding, coreVars, failed>>
  BY DropsCases
<1> HIDE DEF call
<1>2. ToSet(seen') \subseteq ToSet(seen) \cup {call.msg}
  BY <1>1, DropsSeen
<1>3. RepliedIsAccepted'
  BY <1>1 DEF ForwardInv, RepliedIsAccepted, coreVars
<1>4. SeenIsForwarded'
  BY <1>1, <1>2 DEF ForwardInv, SeenIsForwarded, coreVars
<1>5. AnsweredIsForwarded'
  BY <1>1 DEF ForwardInv, AnsweredIsForwarded, Returns, coreVars
<1> QED
  BY <1>3, <1>4, <1>5 DEF ForwardInv

LEMMA ForwardStep ==
  ASSUME TypeOK, ForwardInv, [RelayNext]_relayVars PROVE ForwardInv'
<1> USE DEF ForwardInv, SeenIsForwarded, AnsweredIsForwarded, RepliedIsAccepted, Idle
<1>1. ASSUME NEW m \in Messages, PlatformCalls(m) PROVE ForwardInv'
  BY <1>1 DEF PlatformCalls, coreVars, historyVars
<1>2. ASSUME NEW call \in waiting, ThreadTimesOut(call) PROVE ForwardInv'
  BY <1>2 DEF ThreadTimesOut, coreVars, historyVars
<1>3. CASE Runs
  BY <1>3, RunsForward
<1>4. CASE Forwards
  BY <1>4 DEF Forwards, historyVars
<1>5. CASE Hears
  <2>1. forwarding.msg \in ToSet(accepted)
    BY <1>5 DEF Hears
  <2> QED
    BY <1>5, <2>1 DEF Hears, Returns, coreVars
<1>6. CASE Fails
  BY <1>6 DEF Fails, Returns, coreVars
<1>7. CASE CoreAccepts
  <2>1. Head(core).msg \in Messages /\ accepted \in Seq(Messages)
    BY <1>7, CoreHead DEF TypeOK
  <2>2. ToSet(accepted') = ToSet(accepted) \cup {Head(core).msg}
    BY <1>7, <2>1, ToSetAppend DEF CoreAccepts
  <2> QED
    BY <1>7, <2>2 DEF CoreAccepts, historyVars
<1>8. CASE Crash
  <2>1. ToSet(seen') = {}
    BY <1>8 DEF Crash, ToSet
  <2> QED
    BY <1>8, <2>1 DEF Crash, coreVars
<1>9. CASE UNCHANGED relayVars
  BY <1>9 DEF relayVars, coreVars, historyVars
<1>10. CASE Drops
  BY <1>10, DropsForward
<1> QED
  BY <1>1, <1>2, <1>3, <1>4, <1>5, <1>6, <1>7, <1>8, <1>9, <1>10 DEF RelayNext, RelayLoop

(* The platform is told of success only when the message is in the core's  *)
(* queue, forwarding it has failed, or a call of it was dropped before:    *)
(* repeated calls, timeouts and crashes lose none (woa.py                  *)
(* _handle_message_event, wps_relay.py enqueue_inbound).                   *)
THEOREM AnsweredIsNotLost == RelaySpec => []AnsweredIsForwarded
<1>1. RelayInit => ForwardInv
  BY DEF RelayInit, ForwardInv, AnsweredIsForwarded, SeenIsForwarded, RepliedIsAccepted, ToSet
<1>2. TypeOK /\ ForwardInv /\ [RelayNext]_relayVars => ForwardInv'
  BY ForwardStep
<1>3. ForwardInv => AnsweredIsForwarded
  BY DEF ForwardInv
<1> QED
  BY <1>1, <1>2, <1>3, TypeCorrect, PTL DEF RelaySpec

-----------------------------------------------------------------------------
(* A message enters the core's queue once.  Its id is remembered from      *)
(* before it is forwarded, so that no second call can forward it, unless   *)
(* the id is forgotten.                                                    *)
Exempt == NoId \cup forgotten

OnTheWay == {call.msg : call \in ToSet(core)}

CoreHasOne ==
  \A i, j \in 1..Len(core) : i # j /\ core[i].msg = core[j].msg => core[i].msg \in Exempt

NotTakenYet == \A m \in OnTheWay : m \in ToSet(accepted) => m \in Exempt

TakenIsSeen == \A m \in OnTheWay \cup ToSet(accepted) : m \in ToSet(seen) \cup Exempt

FirstForward ==
  ~Idle =>
    /\ forwarding.msg \in ToSet(seen) \cup Exempt
    /\ OnItsWay(forwarding) \/ forwarding.msg \in Exempt
         \/ forwarding.msg \notin OnTheWay \cup ToSet(accepted)

OnceInv == TakenOnce /\ CoreHasOne /\ NotTakenYet /\ TakenIsSeen /\ FirstForward

(* The parts about the queues of the core stay when only more is forgotten. *)
LEMMA OnceStays ==
  ASSUME OnceInv, core' = core, accepted' = accepted, forgotten \subseteq forgotten',
         ToSet(seen) \subseteq ToSet(seen') \cup forgotten'
  PROVE  TakenOnce' /\ CoreHasOne' /\ NotTakenYet' /\ TakenIsSeen'
<1>1. Exempt \subseteq Exempt' /\ OnTheWay' = OnTheWay
  BY DEF Exempt, OnTheWay
<1>2. TakenOnce'
  BY DEF OnceInv, TakenOnce
<1>3. CoreHasOne'
  BY <1>1 DEF OnceInv, CoreHasOne
<1>4. NotTakenYet'
  BY <1>1 DEF OnceInv, NotTakenYet
<1>5. TakenIsSeen'
  BY <1>1 DEF OnceInv, TakenIsSeen, Exempt
<1> QED
  BY <1>2, <1>3, <1>4, <1>5

LEMMA RunsOnce == ASSUME TypeOK, OnceInv, Runs PROVE OnceInv'
<1> DEFINE call == Head(loop)
<1>1. /\ Idle /\ call \in Calls
      /\ RunsWithoutId(call) \/ \E ids \in Suffixes(seen) : RunsWithId(call, ids)
      /\ core' = core /\ accepted' = accepted /\ replied' = replied
  BY RunsCases DEF coreVars
<1> HIDE DEF call
<1>2. OnTheWay' = OnTheWay
  BY <1>1 DEF OnTheWay
<1>3. CASE RunsWithoutId(call)
  <2>1. TakenOnce' /\ CoreHasOne' /\ NotTakenYet' /\ TakenIsSeen'
    BY <1>1, <1>3, OnceStays DEF RunsWithoutId
  <2>2. FirstForward'
    BY <1>3 DEF RunsWithoutId, FirstForward, Exempt
  <2> QED
    BY <2>1, <2>2 DEF OnceInv
<1>4. ASSUME NEW ids \in Suffixes(seen), RunsWithId(call, ids)
      PROVE  OnceInv'
  <2>1. seen \in Seq(Messages \ NoId) /\ Len(seen) <= DedupMax
    BY DEF TypeOK
  <2>2. ids \in Seq(Messages \ NoId) /\ Len(ids) <= Len(seen) /\ ToSet(ids) \subseteq ToSet(seen)
    BY <2>1, SuffixOf
  <2>3. /\ forgotten' = forgotten \cup ((ToSet(seen) \ ToSet(ids)) \cup (ToSet(ids) \ ToSet(seen')))
        /\ forgotten \subseteq forgotten'
        /\ ToSet(seen) \subseteq ToSet(seen') \cup forgotten'
    BY <1>4 DEF RunsWithId, Forgets
  <2>4. TakenOnce' /\ CoreHasOne' /\ NotTakenYet' /\ TakenIsSeen'
    BY <1>1, <2>3, OnceStays
  <2>5. FirstForward'
    <3>1. CASE Contains(ids, call.msg)
      <4>1. forwarding' = forwarding
        BY <1>4, <3>1 DEF RunsWithId
      <4> QED
        BY <4>1, <1>1 DEF FirstForward, Idle
    <3>2. CASE ~Contains(ids, call.msg)
      <4>1. seen' = Marked(ids, call.msg) /\ forwarding' = call
        BY <1>4, <3>2 DEF RunsWithId
      <4>2. call.msg \in Messages \ NoId /\ call.msg \notin ToSet(ids)
        BY <1>1, <1>4, <2>2, <3>2, ContainsIsIn DEF RunsWithId, Calls
      <4>3. Len(ids) <= DedupMax
        <5>1. Len(ids) \in Nat /\ Len(seen) \in Nat /\ DedupMax \in Nat
          BY <2>1, <2>2, RelayAssumption
        <5> QED
          BY <5>1, <2>1, <2>2
      <4>4. call.msg \in ToSet(seen')
        BY <4>1, <4>2, <4>3, <2>2, MarkedOf
      <4>5. call.msg \in OnTheWay \cup ToSet(accepted) => call.msg \in Exempt'
        BY <4>2, <2>3 DEF OnceInv, TakenIsSeen, Exempt
      <4> QED
        BY <4>1, <4>4, <4>5, <1>1, <1>2 DEF FirstForward
    <3> QED
      BY <3>1, <3>2
  <2> QED
    BY <2>4, <2>5 DEF OnceInv
<1> QED
  BY <1>1, <1>3, <1>4

LEMMA DropsOnce == ASSUME TypeOK, OnceInv, Drops PROVE OnceInv'
<1> DEFINE call == Head(loop)
<1>1. /\ Idle /\ call \in Calls /\ forwarding' = forwarding
      /\ \/ UNCHANGED <<seen, expiries, forgotten>>
         \/ \E ids \in Suffixes(seen) : DropsMarked(call, ids)
      /\ core' = core /\ accepted' = accepted
  BY DropsCases DEF coreVars
<1> HIDE DEF call
<1>2. forgotten \subseteq forgotten' /\ ToSet(seen) \subseteq ToSet(seen') \cup forgotten'
  BY <1>1, DropsSeen
<1>3. TakenOnce' /\ CoreHasOne' /\ NotTakenYet' /\ TakenIsSeen'
  BY <1>1, <1>2, OnceStays
<1>4. FirstForward'
  BY <1>1 DEF FirstForward, Idle
<1> QED
  BY <1>3, <1>4 DEF OnceInv

LEMMA ForwardsOnce == ASSUME TypeOK, OnceInv, Forwards PROVE OnceInv'
<1>1. /\ ~Idle /\ ~OnItsWay(forwarding) /\ core' = Append(core, forwarding)
      /\ UNCHANGED <<forwarding, seen, replied, accepted, forgotten>>
  BY DEF Forwards, historyVars
<1>2. forwarding \in Calls /\ core \in Seq(Calls)
  BY <1>1 DEF TypeOK, Idle
<1>3. /\ ToSet(core') = ToSet(core) \cup {forwarding}
      /\ Len(core') = Len(core) + 1 /\ Len(core) \in Nat
      /\ \A i \in 1..Len(core) : core'[i] = core[i]
      /\ core'[Len(core) + 1] = forwarding /\ core' \in Seq(Calls)
  BY <1>1, <1>2, AppendOf, ToSetAppend
<1>4. OnTheWay' = OnTheWay \cup {forwarding.msg} /\ Exempt' = Exempt
  BY <1>1, <1>3 DEF OnTheWay, Exempt
<1>5. /\ forwarding.msg \in ToSet(seen) \cup Exempt
      /\ forwarding.msg \in Exempt \/ forwarding.msg \notin OnTheWay \cup ToSet(accepted)
  BY <1>1 DEF OnceInv, FirstForward
<1>6. TakenOnce'
  BY <1>1 DEF OnceInv, TakenOnce
<1>7. CoreHasOne'
  <2>1. \A i \in 1..Len(core) : core[i].msg \in OnTheWay
    BY <1>2, ElementIn DEF OnTheWay
  <2> SUFFICES ASSUME NEW i \in 1..Len(core'), NEW j \in 1..Len(core'),
                      i # j, core'[i].msg = core'[j].msg
               PROVE  core'[i].msg \in Exempt
    BY <1>4 DEF CoreHasOne
  <2>2. CASE i \in 1..Len(core) /\ j \in 1..Len(core)
    BY <2>2, <1>3 DEF OnceInv, CoreHasOne
  <2>3. CASE i = Len(core) + 1 /\ j \in 1..Len(core)
    BY <2>1, <2>3, <1>3, <1>5
  <2>4. CASE j = Len(core) + 1 /\ i \in 1..Len(core)
    BY <2>1, <2>4, <1>3, <1>5
  <2> QED
    BY <2>2, <2>3, <2>4, <1>3
<1>8. NotTakenYet' /\ TakenIsSeen'
  BY <1>1, <1>4, <1>5 DEF OnceInv, NotTakenYet, TakenIsSeen
<1>9. FirstForward'
  <2>1. Contains(core', forwarding)
    BY <1>3, ContainsIsIn
  <2> QED
    BY <1>1, <1>4, <1>5, <2>1 DEF FirstForward, OnItsWay
<1> QED
  BY <1>6, <1>7, <1>8, <1>9 DEF OnceInv

LEMMA CoreAcceptsOnce == ASSUME TypeOK, OnceInv, CoreAccepts PROVE OnceInv'
<1> DEFINE first == Head(core)
<1>1. /\ core # <<>> /\ core' = Tail(core)
      /\ replied' = replied \cup {first}
      /\ accepted' = Append(accepted, first.msg)
      /\ UNCHANGED <<forwarding, seen, forgotten>>
  BY DEF CoreAccepts, historyVars
<1>2. first \in Calls /\ first.msg \in Messages /\ core \in Seq(Calls) /\ accepted \in Seq(Messages)
  BY CoreHead DEF TypeOK
<1>3. /\ core' \in Seq(Calls) /\ Len(core) \in Nat \ {0} /\ Len(core') = Len(core) - 1
      /\ first = core[1]
      /\ \A i \in 1..Len(core') : i + 1 \in 1..Len(core) /\ core'[i] = core[i + 1]
      /\ ToSet(core) = ToSet(core') \cup {first}
  BY <1>1, <1>2, TailOf, ToSetTail
<1>4. /\ ToSet(accepted') = ToSet(accepted) \cup {first.msg}
      /\ accepted' \in Seq(Messages)
      /\ Len(accepted') = Len(accepted) + 1 /\ Len(accepted) \in Nat
      /\ \A i \in 1..Len(accepted) : accepted'[i] = accepted[i]
      /\ accepted'[Len(accepted) + 1] = first.msg
  BY <1>1, <1>2, AppendOf, ToSetAppend
<1> HIDE DEF first
<1>5. OnTheWay = OnTheWay' \cup {first.msg} /\ Exempt' = Exempt
  BY <1>1, <1>3 DEF OnTheWay, Exempt
<1>6. first.msg \in ToSet(accepted) => first.msg \in Exempt
  BY <1>5 DEF OnceInv, NotTakenYet
<1>7. TakenOnce'
  <2>1. \A i \in 1..Len(accepted) : accepted[i] \in ToSet(accepted)
    BY <1>2, ElementIn
  <2>2. DOMAIN accepted' = 1..Len(accepted') /\ DOMAIN accepted = 1..Len(accepted)
    BY <1>2, <1>4
  <2> SUFFICES ASSUME NEW i \in 1..Len(accepted'), NEW j \in 1..Len(accepted'),
                      i # j, accepted'[i] = accepted'[j]
               PROVE  accepted'[i] \in Exempt
    BY <2>2, <1>5 DEF TakenOnce, Exempt
  <2>3. CASE i \in 1..Len(accepted) /\ j \in 1..Len(accepted)
    BY <2>2, <2>3, <1>4 DEF OnceInv, TakenOnce, Exempt
  <2>4. CASE i = Len(accepted) + 1 /\ j \in 1..Len(accepted)
    BY <2>1, <2>4, <1>4, <1>6
  <2>5. CASE j = Len(accepted) + 1 /\ i \in 1..Len(accepted)
    BY <2>1, <2>5, <1>4, <1>6
  <2> QED
    BY <2>3, <2>4, <2>5, <1>4
<1>8. CoreHasOne'
  <2> SUFFICES ASSUME NEW i \in 1..Len(core'), NEW j \in 1..Len(core'),
                      i # j, core'[i].msg = core'[j].msg
               PROVE  core'[i].msg \in Exempt
    BY <1>5 DEF CoreHasOne
  <2>1. i + 1 # j + 1 /\ core'[i] = core[i + 1] /\ core'[j] = core[j + 1]
    BY <1>3
  <2> QED
    BY <2>1, <1>3 DEF OnceInv, CoreHasOne
<1>9. NotTakenYet'
  <2> SUFFICES ASSUME NEW m \in OnTheWay', m = first.msg PROVE m \in Exempt
    BY <1>4, <1>5 DEF OnceInv, NotTakenYet
  <2>1. PICK call \in ToSet(core') : call.msg = m
    BY DEF OnTheWay
  <2>2. PICK i \in 1..Len(core') : core'[i] = call
    <3>1. DOMAIN core' = 1..Len(core')
      BY <1>3
    <3> QED
      BY <2>1, <3>1 DEF ToSet
  <2>3. 1 \in 1..Len(core) /\ i + 1 \in 1..Len(core) /\ i + 1 # 1 /\ core[i + 1] = call
    BY <2>2, <1>3
  <2> QED
    BY <2>1, <2>3, <1>3 DEF OnceInv, CoreHasOne
<1>10. TakenIsSeen'
  BY <1>1, <1>4, <1>5 DEF OnceInv, TakenIsSeen
<1>11. FirstForward'
  <2>1. OnItsWay(forwarding) => OnItsWay(forwarding)'
    <3>1. Contains(core, forwarding) => forwarding \in ToSet(core)
      BY <1>2, ContainsIsIn
    <3>2. forwarding \in ToSet(core') => Contains(core', forwarding)
      BY <1>3, ContainsIsIn
    <3> QED
      BY <3>1, <3>2, <1>1, <1>3 DEF OnItsWay
  <2> QED
    BY <2>1, <1>1, <1>4, <1>5 DEF OnceInv, FirstForward, Idle
<1> QED
  BY <1>7, <1>8, <1>9, <1>10, <1>11 DEF OnceInv

LEMMA OnceStep == ASSUME TypeOK, OnceInv, [RelayNext]_relayVars PROVE OnceInv'
<1>1. ASSUME UNCHANGED <<seen, coreVars, forgotten>>, forwarding' \in {forwarding, Nothing}
      PROVE  OnceInv'
  <2>1. TakenOnce' /\ CoreHasOne' /\ NotTakenYet' /\ TakenIsSeen'
    BY <1>1, OnceStays DEF coreVars
  <2>2. FirstForward'
    BY <1>1 DEF OnceInv, FirstForward, Idle, OnItsWay, OnTheWay, Exempt, coreVars
  <2> QED
    BY <2>1, <2>2 DEF OnceInv
<1>2. ASSUME NEW m \in Messages, PlatformCalls(m) PROVE OnceInv'
  BY <1>1, <1>2 DEF PlatformCalls, historyVars
<1>3. ASSUME NEW call \in waiting, ThreadTimesOut(call) PROVE OnceInv'
  BY <1>1, <1>3 DEF ThreadTimesOut, historyVars
<1>4. ASSUME Hears \/ Fails PROVE OnceInv'
  BY <1>1, <1>4 DEF Hears, Fails
<1>5. CASE UNCHANGED relayVars
  BY <1>1, <1>5 DEF relayVars, historyVars
<1>6. CASE Crash
  <2>1. /\ core' = core /\ accepted' = accepted /\ forgotten' = forgotten \cup ToSet(seen)
        /\ forwarding' = Nothing
    BY <1>6 DEF Crash, Forgets, coreVars
  <2>2. TakenOnce' /\ CoreHasOne' /\ NotTakenYet' /\ TakenIsSeen'
    BY <2>1, OnceStays
  <2> QED
    BY <2>1, <2>2 DEF OnceInv, FirstForward, Idle
<1> QED
  BY <1>2, <1>3, <1>4, <1>5, <1>6, RunsOnce, DropsOnce, ForwardsOnce, CoreAcceptsOnce
     DEF RelayNext, RelayLoop

(* A message enters the core's queue once as long as its id is remembered, *)
(* whatever is called again, times out or fails (woa.py _is_seen).         *)
THEOREM TakenOnlyOnce == RelaySpec => []TakenOnce
<1>1. RelayInit => OnceInv
  BY DEF RelayInit, OnceInv, TakenOnce, CoreHasOne, NotTakenYet, TakenIsSeen, FirstForward,
         OnTheWay, Idle, ToSet
<1>2. TypeOK /\ OnceInv /\ [RelayNext]_relayVars => OnceInv'
  BY OnceStep
<1>3. OnceInv => TakenOnce
  BY DEF OnceInv
<1> QED
  BY <1>1, <1>2, <1>3, TypeCorrect, PTL DEF RelaySpec
=============================================================================
