--------------------------- MODULE Feishu_proofs ---------------------------
(***************************************************************************)
(* Theorems about the two clients of Feishu's event service, the feishu    *)
(* channel (ChannelSpec) and the dsh-feishu plugin (Spec), for all events  *)
(* and faults: what is acknowledged was handed on, and in order.  Both     *)
(* rest on the line of a connection, LineInv, and on what the service      *)
(* knows, ServiceInv; the lemmas about these serve both clients.           *)
(***************************************************************************)
EXTENDS FeishuSocket, FeishuChannel, FiniteSetTheorems, SequenceTheorems, TLAPS

Messages == Events \ (Others \cup Rich)

(* Messages that the client has still to hand on.                          *)
Missing == {e \in Messages : e <= emitted /\ e \notin ToSet(taken) /\ e \notin refused}

(* None of M stands in line only behind a later one.                       *)
InOrder(M, line) ==
  \A e \in M, i \in DOMAIN line :
    e < line[i] => \E k \in DOMAIN line : k < i /\ line[k] = e

(* The line of a connection: what has come, or been pushed, and waits to   *)
(* be handed on.  As long as the connection is open, nothing is missing    *)
(* in it.                                                                  *)
GoodLine(line, M, n) == line \in Seq(1 .. n) /\ InOrder(M, line)

LineInv(line) ==
  /\ GoodLine(line, Missing, emitted)
  /\ sock = "open" => Missing \subseteq ToSet(line)

(* A message comes after the earlier ones, but for those that came before  *)
(* or were refused.                                                        *)
NoGap ==
  \A i \in DOMAIN taken, e \in Messages :
    e < taken[i] => e \in refused \/ \E k \in DOMAIN taken : k < i /\ taken[k] = e

(* AckedIsTaken, which looks further at whether the sender was told.       *)
AckedHadTheirTurn == acked \subseteq ToSet(taken) \cup refused \cup Others

(* What the service has been told is what was handed on or refused: it     *)
(* goes on pushing what is missing.                                        *)
ServiceInv ==
  /\ emitted \in 0 .. MaxEvents
  /\ unacked \subseteq 1 .. emitted
  /\ acks \in Seq(acked)
  /\ taken \in Seq(Messages)
  /\ AckedHadTheirTurn
  /\ Missing \subseteq unacked
  /\ NoGap

Hand  == IF inHand = 0 THEN <<>> ELSE <<inHand>>
Line  == (Hand \o queue) \o arriving

PluginInv ==
  /\ ServiceInv
  /\ LineInv(Line)
  /\ queue \in Seq(Events) /\ arriving \in Seq(Events) /\ inHand \in {0} \cup Messages
  /\ sock = "open" => pc \in {"frame", "handler"}
  /\ sock \in {"connecting", "closing"} => pc \in {"open", "frame", "handler"}
  /\ pc \notin {"frame", "handler"} => queue = <<>> /\ arriving = <<>>
  /\ pc = "handler" <=> inHand # 0

ChannelInv ==
  /\ ServiceInv
  /\ LineInv(arriving)
  /\ pc = "ack" => inHand \in ToSet(taken) \cup Others

-----------------------------------------------------------------------------
(* Sequences: an entry more or less, and sequences in a row. *)
LEMMA ElementsGrow ==
  ASSUME NEW S, NEW s \in Seq(S), NEW e
  PROVE  /\ DOMAIN Append(s, e) = DOMAIN s \cup {Len(s) + 1}
         /\ \A i \in DOMAIN s : Append(s, e)[i] = s[i] /\ i < Len(s) + 1
         /\ Append(s, e)[Len(s) + 1] = e
         /\ ToSet(Append(s, e)) = ToSet(s) \cup {e}
<1>1. /\ DOMAIN Append(s, e) = DOMAIN s \cup {Len(s) + 1}
      /\ \A i \in DOMAIN s : Append(s, e)[i] = s[i] /\ i < Len(s) + 1
      /\ Append(s, e)[Len(s) + 1] = e
  OBVIOUS
<1> QED BY <1>1 DEF ToSet

LEMMA ElementsShrink ==
  ASSUME NEW S, NEW s \in Seq(S), s # <<>>
  PROVE  /\ Head(s) \in S /\ Head(s) = s[1] /\ 1 \in DOMAIN s
         /\ Tail(s) \in Seq(S)
         /\ \A i \in DOMAIN Tail(s) : i + 1 \in DOMAIN s /\ Tail(s)[i] = s[i + 1] /\ i \in Nat
         /\ \A i \in DOMAIN s : i = 1 \/ (i - 1 \in DOMAIN Tail(s) /\ s[i] = Tail(s)[i - 1])
         /\ ToSet(s) \subseteq ToSet(Tail(s)) \cup {Head(s)}
<1>1. /\ Head(s) \in S /\ Head(s) = s[1] /\ 1 \in DOMAIN s
      /\ Tail(s) \in Seq(S)
      /\ \A i \in DOMAIN Tail(s) : i + 1 \in DOMAIN s /\ Tail(s)[i] = s[i + 1] /\ i \in Nat
      /\ \A i \in DOMAIN s : i = 1 \/ (i - 1 \in DOMAIN Tail(s) /\ s[i] = Tail(s)[i - 1])
  OBVIOUS
<1>2. ASSUME NEW i \in DOMAIN s PROVE s[i] \in ToSet(Tail(s)) \cup {Head(s)}
  BY <1>1 DEF ToSet
<1> QED BY <1>1, <1>2 DEF ToSet

LEMMA InARow ==
  ASSUME NEW S, NEW p \in Seq(S), NEW q \in Seq(S), NEW e \in S
  PROVE  /\ <<>> \o q = q /\ p \o <<>> = p /\ p \o q \in Seq(S)
         /\ p \o Append(q, e) = Append(p \o q, e)
         /\ q # <<>> => Append(p, Head(q)) \o Tail(q) = p \o q
         /\ q # <<>> => <<Head(q)>> \o Tail(q) = q
         /\ Head(<<e>> \o q) = e /\ Tail(<<e>> \o q) = q /\ <<e>> \o q # <<>>
<1>1. <<>> \o q = q /\ p \o <<>> = p /\ p \o q \in Seq(S)
  OBVIOUS
<1>2. p \o Append(q, e) = Append(p \o q, e)
  OBVIOUS
<1>3. q # <<>> => Append(p, Head(q)) \o Tail(q) = p \o q
  OBVIOUS
<1>4. q # <<>> => <<Head(q)>> \o Tail(q) = q
  OBVIOUS
<1>5. Head(<<e>> \o q) = e /\ Tail(<<e>> \o q) = q /\ <<e>> \o q # <<>>
  OBVIOUS
<1> QED BY <1>1, <1>2, <1>3, <1>4, <1>5

LEMMA Prefix ==
  ASSUME NEW S, NEW p \in Seq(S), NEW q \in Seq(S), NEW k \in 0 .. Len(q)
  PROVE  LET r == p \o SubSeq(q, 1, k) IN
         /\ r \in Seq(S)
         /\ \A i \in DOMAIN r : i \in DOMAIN (p \o q) /\ r[i] = (p \o q)[i] /\ i \in Nat
         /\ \A i \in DOMAIN r, j \in DOMAIN (p \o q) : j < i => j \in DOMAIN r
  OBVIOUS

LEMMA CutIsShorter ==
  ASSUME NEW S, NEW T, NEW p \in Seq(S), NEW q \in Seq(S), p \o q \in Seq(T), NEW k \in 0 .. Len(q)
  PROVE  p \o SubSeq(q, 1, k) \in Seq(T)
<1>1. p \o SubSeq(q, 1, k) = SubSeq(p \o q, 1, Len(p) + k) /\ Len(p) + k \in 0 .. Len(p \o q)
  OBVIOUS
<1>2. \A n \in 0 .. Len(p \o q) : SubSeq(p \o q, 1, n) \in Seq(T)
  OBVIOUS
<1> QED BY <1>1, <1>2

-----------------------------------------------------------------------------
(* InOrder, when the line or what is missing changes. *)
LEMMA LineGrows ==
  ASSUME NEW M \in SUBSET Nat, NEW n \in Nat, NEW line \in Seq(1 .. n), InOrder(M, line),
         NEW e \in Nat, \A m \in M : m < e => m \in ToSet(line)
  PROVE  InOrder(M, Append(line, e))
<1>1. ASSUME NEW m \in M, NEW i \in DOMAIN line, m < line[i]
      PROVE  \E k \in DOMAIN Append(line, e) : k < i /\ Append(line, e)[k] = m
  <2>1. PICK k \in DOMAIN line : k < i /\ line[k] = m
    BY <1>1 DEF InOrder
  <2>2. k \in DOMAIN Append(line, e) /\ Append(line, e)[k] = line[k]
    BY ElementsGrow
  <2> QED BY <2>1, <2>2
<1>2. ASSUME NEW m \in M, m < e
      PROVE  \E k \in DOMAIN Append(line, e) : k < Len(line) + 1 /\ Append(line, e)[k] = m
  <2>1. PICK k \in DOMAIN line : line[k] = m
    BY <1>2 DEF ToSet
  <2>2. k \in DOMAIN Append(line, e) /\ Append(line, e)[k] = line[k] /\ k < Len(line) + 1
    BY ElementsGrow
  <2> QED BY <2>1, <2>2
<1>3. ASSUME NEW m \in M, NEW i \in DOMAIN Append(line, e), m < Append(line, e)[i]
      PROVE  \E k \in DOMAIN Append(line, e) : k < i /\ Append(line, e)[k] = m
  BY <1>1, <1>2, <1>3, ElementsGrow
<1> QED BY <1>3 DEF InOrder

LEMMA NewOneIsLast ==
  ASSUME NEW M \in SUBSET Nat, NEW n \in Nat, NEW line \in Seq(1 .. n), InOrder(M, line),
         NEW N, N \subseteq M \cup {n + 1}
  PROVE  InOrder(N, line)
  BY DEF InOrder

LEMMA FirstIsNotLate ==
  ASSUME NEW M \in SUBSET Nat, NEW line \in Seq(Nat), InOrder(M, line), line # <<>>, NEW m \in M
  PROVE  Head(line) <= m
<1>1. \A k \in DOMAIN line : ~(k < 1)
  OBVIOUS
<1> QED BY <1>1, ElementsShrink DEF InOrder

LEMMA FirstLeaves ==
  ASSUME NEW M \in SUBSET Nat, NEW line \in Seq(Nat), InOrder(M, line), line # <<>>,
         NEW N, N \subseteq M \ {Head(line)}
  PROVE  /\ InOrder(N, Tail(line))
         /\ M \subseteq ToSet(line) => N \subseteq ToSet(Tail(line))
<1>1. ASSUME NEW m \in N, NEW i \in DOMAIN Tail(line), m < Tail(line)[i]
      PROVE  \E k \in DOMAIN Tail(line) : k < i /\ Tail(line)[k] = m
  <2>1. i + 1 \in DOMAIN line /\ m < line[i + 1] /\ i \in Nat
    BY <1>1, ElementsShrink
  <2>2. PICK k \in DOMAIN line : k < i + 1 /\ line[k] = m
    BY <2>1 DEF InOrder
  <2>3. k # 1 /\ k \in Nat
    BY <2>2, ElementsShrink
  <2>4. k - 1 \in DOMAIN Tail(line) /\ Tail(line)[k - 1] = m /\ k - 1 < i
    BY <2>1, <2>2, <2>3, ElementsShrink
  <2> QED BY <2>4
<1> QED BY <1>1, ElementsShrink DEF InOrder

LEMMA LineIsCut ==
  ASSUME NEW M, NEW S, NEW p \in Seq(S), NEW q \in Seq(S), NEW k \in 0 .. Len(q), InOrder(M, p \o q)
  PROVE  InOrder(M, p \o SubSeq(q, 1, k))
<1> DEFINE r == p \o SubSeq(q, 1, k)
<1>1. /\ \A i \in DOMAIN r : i \in DOMAIN (p \o q) /\ r[i] = (p \o q)[i]
      /\ \A i \in DOMAIN r, j \in DOMAIN (p \o q) : j < i => j \in DOMAIN r
  BY Prefix
<1> QED BY <1>1 DEF InOrder

(* A new connection begins with all that is missing, in order. *)
LEMMA LineBegins ==
  ASSUME FeishuAssumption, emitted \in 0 .. MaxEvents, unacked \subseteq 1 .. emitted,
         NEW M \in SUBSET unacked, NEW q \in Backlogs
  PROVE  q \in Seq(1 .. emitted) /\ M \subseteq ToSet(q) /\ InOrder(M, q)
<1> DEFINE D == 1 .. Cardinality(unacked)
<1>1. IsFiniteSet(unacked) /\ Cardinality(unacked) \in Nat
  <2>1. IsFiniteSet(1 .. emitted) /\ unacked \in SUBSET (1 .. emitted)
    BY FS_Interval DEF FeishuAssumption
  <2> QED BY <2>1, FS_Subset, FS_CardinalityType
<1>2. IsFiniteSet(D) /\ Cardinality(D) = Cardinality(unacked)
  BY <1>1, FS_Interval
<1>3. q \in [D -> unacked] /\ \A i, j \in D : i # j => q[i] # q[j]
  BY DEF Backlogs, SetToSeqs
<1>4. q \in Injection(D, unacked)
  BY <1>3 DEF Injection, IsInjective
<1>5. q \in Surjection(D, unacked)
  BY <1>1, <1>2, <1>4, FS_Injection
<1>6. \A e \in unacked : \E k \in D : q[k] = e
  BY <1>5 DEF Surjection
<1>7. q \in Seq(1 .. emitted)
  <2>1. q \in [1 .. Cardinality(unacked) -> 1 .. emitted]
    BY <1>3
  <2> QED BY <2>1, <1>1
<1>8. \A i, j \in D : i < j => q[i] < q[j]
  BY <1>3 DEF Backlogs
<1>9. ASSUME NEW e \in M, NEW i \in D, e < q[i] PROVE \E k \in D : k < i /\ q[k] = e
  <2>1. PICK k \in D : q[k] = e
    BY <1>6
  <2>2. q[i] \in Nat /\ q[k] \in Nat
    <3>1. q[i] \in unacked /\ q[k] \in unacked
      BY <1>3
    <3>2. \A n \in 1 .. emitted : n \in Nat
      BY DEF FeishuAssumption
    <3> QED BY <3>1, <3>2
  <2>3. k # i /\ ~(i < k)
    BY <1>8, <1>9, <2>1, <2>2
  <2> QED BY <2>1, <2>3, <1>1
<1> QED BY <1>3, <1>6, <1>7, <1>9 DEF InOrder, ToSet
-----------------------------------------------------------------------------
(* Missing, when a message is handed on or refused, or another comes. *)
LEMMA MessagesAreNumbers == FeishuAssumption => Messages \subseteq Nat \ {0}
  BY DEF FeishuAssumption, Messages, Events

LEMMA MissingLess ==
  ASSUME taken \in Seq(Messages), NEW e \in Messages, UNCHANGED emitted,
         \/ taken' = Append(taken, e) /\ UNCHANGED refused
         \/ refused' = refused \cup {e} /\ UNCHANGED taken
  PROVE  Missing' = Missing \ {e}
<1>1. ToSet(Append(taken, e)) = ToSet(taken) \cup {e}
  BY ElementsGrow
<1> QED BY <1>1 DEF Missing

LEMMA MissingMore ==
  ASSUME ServiceInv, emitted' = emitted + 1, UNCHANGED <<taken, refused>>
  PROVE  Missing' \subseteq Missing \cup {emitted'}
<1>1. \A e \in Messages : e <= emitted + 1 => e <= emitted \/ e = emitted + 1
  BY FeishuAssumption, MessagesAreNumbers DEF ServiceInv
<1> QED BY <1>1 DEF Missing

LEMMA MissingIsEmitted == ServiceInv => Missing \subseteq 1 .. emitted /\ emitted \in Nat
  BY FeishuAssumption, MessagesAreNumbers DEF ServiceInv, Missing

(* ServiceInv, when the first of the line is handed on or refused. *)
LEMMA GoesOn ==
  ASSUME ServiceInv, NEW e \in Messages, e <= emitted, \A m \in Missing : e <= m,
         UNCHANGED <<emitted, unacked>>,
         \/ taken' = Append(taken, e) /\ UNCHANGED refused
         \/ refused' = refused \cup {e} /\ UNCHANGED taken,
         acked' \subseteq acked \cup {e}, acks' \in Seq(acked')
  PROVE  ServiceInv'
<1>1. Missing' = Missing \ {e}
  BY MissingLess DEF ServiceInv
<1>2. CASE taken' = Append(taken, e) /\ UNCHANGED refused
  <2>1. /\ DOMAIN taken' = DOMAIN taken \cup {Len(taken) + 1}
        /\ \A i \in DOMAIN taken : taken'[i] = taken[i] /\ i < Len(taken) + 1
        /\ taken'[Len(taken) + 1] = e
        /\ ToSet(taken') = ToSet(taken) \cup {e}
    BY <1>2, ElementsGrow DEF ServiceInv
  <2>2. taken' \in Seq(Messages)
    BY <1>2 DEF ServiceInv
  <2>3. \A m \in Messages : m < e => m \in ToSet(taken) \/ m \in refused
    <3>1. \A m \in Messages : m < e => m <= emitted /\ ~(e <= m)
      BY FeishuAssumption, MessagesAreNumbers DEF ServiceInv
    <3> QED BY <3>1 DEF Missing
  <2>4. \A m \in ToSet(taken) : \E k \in DOMAIN taken : taken[k] = m
    BY DEF ToSet
  <2>5. NoGap'
    <3>1. ASSUME NEW i \in DOMAIN taken', NEW m \in Messages, m < taken'[i], m \notin refused
          PROVE  \E k \in DOMAIN taken' : k < i /\ taken'[k] = m
      <4>1. CASE i \in DOMAIN taken
        BY <2>1, <3>1, <4>1 DEF ServiceInv, NoGap
      <4>2. CASE i = Len(taken) + 1
        <5>1. PICK k \in DOMAIN taken : taken[k] = m
          BY <2>1, <2>3, <2>4, <3>1, <4>2
        <5> QED BY <2>1, <4>2, <5>1
      <4> QED BY <2>1, <4>1, <4>2
    <3> QED BY <1>2, <3>1 DEF NoGap
  <2>6. AckedHadTheirTurn'
    BY <1>2, <2>1 DEF ServiceInv, AckedHadTheirTurn
  <2> QED BY <1>1, <2>2, <2>5, <2>6 DEF ServiceInv
<1>3. CASE refused' = refused \cup {e} /\ UNCHANGED taken
  <2>1. NoGap'
    BY <1>3 DEF ServiceInv, NoGap
  <2>2. AckedHadTheirTurn'
    BY <1>3 DEF ServiceInv, AckedHadTheirTurn
  <2> QED BY <1>1, <1>3, <2>1, <2>2 DEF ServiceInv
<1> QED BY <1>2, <1>3

(* ServiceInv, when no message is handed on, and what is acknowledged and  *)
(* what the service gives up need not be.                                  *)
LEMMA StaysTrue ==
  ASSUME ServiceInv, UNCHANGED <<emitted, taken, refused>>,
         acked' \subseteq acked \cup ToSet(taken) \cup Others, acks' \in Seq(acked'),
         unacked' \subseteq unacked, unacked \cap Missing \subseteq unacked'
  PROVE  ServiceInv' /\ Missing' = Missing
<1>1. Missing' = Missing
  BY DEF Missing
<1>2. NoGap'
  BY DEF ServiceInv, NoGap
<1>3. AckedHadTheirTurn'
  BY DEF ServiceInv, AckedHadTheirTurn
<1> QED BY <1>1, <1>2, <1>3 DEF ServiceInv

LEMMA AcksAreAcked ==
  ASSUME ServiceInv, NEW e, Acknowledges(e)
  PROVE  acks' \in Seq(acked') /\ acked' = acked \cup {e}
<1>1. acks \in Seq(acked') /\ e \in acked' /\ acked' = acked \cup {e}
  BY DEF ServiceInv, Acknowledges
<1>2. acks' = acks \/ acks' = Append(acks, e)
  BY DEF Acknowledges
<1> QED BY <1>1, <1>2

(* What the handler raises over is no message. *)
LEMMA GivenUp ==
  ASSUME NEW e \in Rich, NotAcknowledged(e)
  PROVE  UNCHANGED emitted /\ unacked' \subseteq unacked /\ unacked \cap Missing \subseteq unacked'
  BY DEF NotAcknowledged, Missing, Messages
-----------------------------------------------------------------------------
(* GoodLine, likewise. *)
LEMMA FirstIsHandled ==
  ASSUME NEW n \in Nat, NEW M \in SUBSET (1 .. n), NEW line, GoodLine(line, M, n), line # <<>>,
         NEW N, N \subseteq M \ {Head(line)}
  PROVE  /\ GoodLine(Tail(line), N, n)
         /\ M \subseteq ToSet(line) => N \subseteq ToSet(Tail(line))
<1>1. line \in Seq(1 .. n) /\ line \in Seq(Nat) /\ InOrder(M, line) /\ M \in SUBSET Nat
  BY DEF GoodLine
<1>2. /\ InOrder(N, Tail(line))
      /\ M \subseteq ToSet(line) => N \subseteq ToSet(Tail(line))
  BY <1>1, FirstLeaves
<1>3. Tail(line) \in Seq(1 .. n)
  BY <1>1, ElementsShrink
<1> QED BY <1>2, <1>3 DEF GoodLine

LEMMA FirstIsNext ==
  ASSUME NEW n \in Nat, NEW M \in SUBSET (1 .. n), NEW line, GoodLine(line, M, n), line # <<>>
  PROVE  Head(line) \in 1 .. n /\ \A m \in M : Head(line) <= m
<1>1. line \in Seq(1 .. n) /\ line \in Seq(Nat) /\ InOrder(M, line) /\ M \in SUBSET Nat
  BY DEF GoodLine
<1> QED BY <1>1, ElementsShrink, FirstIsNotLate

LEMMA OneIsPushed ==
  ASSUME NEW n \in Nat, NEW M \in SUBSET (1 .. n), NEW line, GoodLine(line, M, n),
         M \subseteq ToSet(line), NEW e \in 1 .. n
  PROVE  GoodLine(Append(line, e), M, n) /\ M \subseteq ToSet(Append(line, e))
<1>1. line \in Seq(1 .. n) /\ InOrder(M, line) /\ M \in SUBSET Nat /\ e \in Nat
  BY DEF GoodLine
<1>2. InOrder(M, Append(line, e))
  BY <1>1, LineGrows
<1>3. ToSet(Append(line, e)) = ToSet(line) \cup {e} /\ Append(line, e) \in Seq(1 .. n)
  BY <1>1, ElementsGrow
<1> QED BY <1>2, <1>3 DEF GoodLine

LEMMA OneIsEmitted ==
  ASSUME NEW n \in Nat, NEW M \in SUBSET (1 .. n), NEW line, GoodLine(line, M, n),
         NEW N, N \subseteq M \cup {n + 1}
  PROVE  /\ GoodLine(line, N, n + 1)
         /\ M \subseteq ToSet(line) =>
              GoodLine(Append(line, n + 1), N, n + 1) /\ N \subseteq ToSet(Append(line, n + 1))
<1>1. /\ line \in Seq(1 .. n) /\ line \in Seq(1 .. n + 1) /\ InOrder(M, line)
      /\ M \in SUBSET Nat /\ n + 1 \in Nat /\ n + 1 \in 1 .. n + 1
  BY DEF GoodLine
<1>2. InOrder(N, line) /\ N \in SUBSET Nat
  BY <1>1, NewOneIsLast
<1>3. ASSUME M \subseteq ToSet(line)
      PROVE  GoodLine(Append(line, n + 1), N, n + 1) /\ N \subseteq ToSet(Append(line, n + 1))
  <2>1. \A m \in N : m < n + 1 => m \in ToSet(line)
    BY <1>3
  <2>2. InOrder(N, Append(line, n + 1))
    BY <1>1, <1>2, <2>1, LineGrows
  <2>3. ToSet(Append(line, n + 1)) = ToSet(line) \cup {n + 1}
    BY <1>1, ElementsGrow
  <2>4. Append(line, n + 1) \in Seq(1 .. n + 1)
    BY <1>1
  <2> QED BY <1>3, <2>2, <2>3, <2>4 DEF GoodLine
<1> QED BY <1>1, <1>2, <1>3 DEF GoodLine

(* What the service does to the line p \o arriving of a connection. *)
LEMMA EmitsStep ==
  ASSUME ServiceInv, NEW CONSTANT p \in Seq(Nat), arriving \in Seq(Nat), LineInv(p \o arriving), Emits
  PROVE  ServiceInv' /\ LineInv(p \o arriving)'
<1>1. /\ emitted \in Nat /\ emitted' = emitted + 1 /\ emitted' \in 0 .. MaxEvents
      /\ UNCHANGED <<taken, refused, acked, acks, sock>>
  BY FeishuAssumption DEF Emits, historyVars, refused, ServiceInv
<1>2. Missing \in SUBSET (1 .. emitted) /\ Missing' \subseteq Missing \cup {emitted + 1}
  BY <1>1, MissingMore, MissingIsEmitted
<1>3. ServiceInv'
  <2>1. NoGap'
    BY <1>1 DEF ServiceInv, NoGap, Messages, Events
  <2>2. AckedHadTheirTurn'
    BY <1>1 DEF ServiceInv, AckedHadTheirTurn
  <2>3. unacked' \subseteq 1 .. emitted' /\ Missing' \subseteq unacked'
    BY <1>1, <1>2 DEF Emits, ServiceInv
  <2> QED BY <1>1, <2>1, <2>2, <2>3 DEF ServiceInv
<1>4. /\ GoodLine(p \o arriving, Missing', emitted + 1)
      /\ sock = "open" =>
           /\ GoodLine(Append(p \o arriving, emitted + 1), Missing', emitted + 1)
           /\ Missing' \subseteq ToSet(Append(p \o arriving, emitted + 1))
  BY <1>1, <1>2, OneIsEmitted DEF LineInv
<1>5. CASE sock = "open"
  <2>1. p \o arriving' = Append(p \o arriving, emitted + 1)
    BY <1>1, <1>5, InARow DEF Emits
  <2> QED BY <1>1, <1>3, <1>4, <1>5, <2>1 DEF LineInv
<1>6. CASE sock # "open"
  <2>1. arriving' = arriving
    BY <1>6 DEF Emits
  <2> QED BY <1>1, <1>3, <1>4, <1>6, <2>1 DEF LineInv
<1> QED BY <1>5, <1>6

LEMMA PushesStep ==
  ASSUME ServiceInv, NEW CONSTANT p \in Seq(Nat), arriving \in Seq(Nat), LineInv(p \o arriving), PushesAgain
  PROVE  ServiceInv' /\ LineInv(p \o arriving)'
<1>1. UNCHANGED <<emitted, unacked, taken, refused, acked, acks, sock>> /\ sock = "open"
  BY DEF PushesAgain, historyVars, refused, serviceVars
<1>2. ServiceInv' /\ Missing' = Missing
  BY <1>1, StaysTrue DEF ServiceInv
<1>3. PICK e \in unacked : arriving' = Append(arriving, e)
  BY DEF PushesAgain
<1>4. e \in 1 .. emitted /\ e \in Nat /\ emitted \in Nat /\ Missing \in SUBSET (1 .. emitted)
  BY MissingIsEmitted DEF ServiceInv
<1>5. /\ GoodLine(Append(p \o arriving, e), Missing, emitted)
      /\ Missing \subseteq ToSet(Append(p \o arriving, e))
  BY <1>1, <1>4, OneIsPushed DEF LineInv
<1>6. p \o arriving' = Append(p \o arriving, e)
  BY <1>3, <1>4, InARow
<1> QED BY <1>1, <1>2, <1>5, <1>6 DEF LineInv

LEMMA ReadsStep ==
  ASSUME ServiceInv, NEW CONSTANT p \in Seq(Nat), LineInv(p \o arriving), ReadsAck
  PROVE  ServiceInv' /\ LineInv(p \o arriving)'
<1>1. /\ UNCHANGED <<emitted, taken, refused, acked, sock, arriving>>
      /\ acks # <<>> /\ acks' = Tail(acks) /\ unacked' = unacked \ {Head(acks)}
  BY DEF ReadsAck, historyVars, refused
<1>2. Head(acks) \in acked /\ acks' \in Seq(acked)
  BY <1>1, ElementsShrink DEF ServiceInv
<1>3. Head(acks) \notin Missing
  BY <1>2 DEF ServiceInv, AckedHadTheirTurn, Missing, Messages
<1>4. ServiceInv' /\ Missing' = Missing
  BY <1>1, <1>2, <1>3, StaysTrue
<1> QED BY <1>1, <1>4 DEF LineInv

LEMMA LostStep ==
  ASSUME ServiceInv, NEW CONSTANT p \in Seq(Nat), arriving \in Seq(Nat), LineInv(p \o arriving), ConnectionLost
  PROVE  ServiceInv' /\ LineInv(p \o arriving)'
<1>1. UNCHANGED <<emitted, unacked, taken, refused, acked>> /\ sock' = "closing"
  BY DEF ConnectionLost, historyVars, refused, serviceVars
<1>2. acks' \in Seq(acked)
  BY DEF ConnectionLost, ServiceInv
<1>3. ServiceInv' /\ Missing' = Missing
  BY <1>1, <1>2, StaysTrue
<1>4. PICK k \in 0 .. Len(arriving) : arriving' = SubSeq(arriving, 1, k)
  BY DEF ConnectionLost
<1>5. p \o arriving' \in Seq(1 .. emitted) /\ InOrder(Missing, p \o arriving')
  <2>1. InOrder(Missing, p \o arriving')
    BY <1>4, LineIsCut DEF LineInv, GoodLine
  <2>2. p \o arriving' \in Seq(1 .. emitted)
    BY <1>4, CutIsShorter DEF LineInv, GoodLine
  <2> QED BY <2>1, <2>2
<1> QED BY <1>1, <1>3, <1>5 DEF LineInv, GoodLine
-----------------------------------------------------------------------------
(* The channel.  Its line is what arrives: what it has in hand was handed  *)
(* on already.                                                             *)
LEMMA EmptyLine ==
  ASSUME NEW M, NEW n
  PROVE  GoodLine(<<>>, M, n)
  BY DEF GoodLine, InOrder

LEMMA ChannelQuiet ==
  ASSUME ChannelInv, UNCHANGED <<emitted, unacked, taken, refused, acked, acks>>
  PROVE  ServiceInv' /\ Missing' = Missing
  BY StaysTrue DEF ChannelInv, ServiceInv

LEMMA ChannelEventsStep == ChannelInv /\ EventsNext => ChannelInv'
<1> SUFFICES ASSUME ChannelInv, EventsNext PROVE ChannelInv'
  OBVIOUS
<1>1. arriving \in Seq(Nat) /\ <<>> \in Seq(Nat)
  <2>1. arriving \in Seq(1 .. emitted)
    BY DEF ChannelInv, LineInv, GoodLine
  <2>2. 1 .. emitted \subseteq Nat
    <3>1. emitted \in Nat
      BY FeishuAssumption DEF ChannelInv, ServiceInv, FeishuAssumption
    <3> QED BY <3>1
  <2>3. arriving \in Seq(Nat)
    BY <2>1, <2>2, SeqMonotonic
  <2> QED BY <2>3
<1>2. <<>> \o arriving = arriving
  BY <1>1
<1>3. LineInv(<<>> \o arriving)
  BY <1>2 DEF ChannelInv
<1>4. ServiceInv' /\ LineInv(<<>> \o arriving)'
  BY <1>1, <1>3, EmitsStep, PushesStep, ReadsStep, LostStep DEF EventsNext, ChannelInv
<1>5. <<>> \o arriving' = arriving'
  <2>1. arriving' \in Seq(Nat)
    <3>1. CASE Emits
      BY <1>1, <3>1 DEF Emits, ChannelInv, ServiceInv
    <3>2. CASE PushesAgain
      BY <1>1, <3>2 DEF PushesAgain, ChannelInv, ServiceInv
    <3>3. CASE ReadsAck
      BY <1>1, <3>3 DEF ReadsAck
    <3>4. CASE ConnectionLost
      BY <1>1, <3>4 DEF ConnectionLost
    <3> QED BY <3>1, <3>2, <3>3, <3>4 DEF EventsNext
  <2> QED BY <2>1
<1>6. UNCHANGED <<pc, inHand, taken>>
  BY DEF EventsNext, Emits, PushesAgain, ReadsAck, ConnectionLost, historyVars, refused
<1> QED BY <1>4, <1>5, <1>6 DEF ChannelInv, LineInv

LEMMA HandlesEventStep == ChannelInv /\ HandlesEvent => ChannelInv'
<1> SUFFICES ASSUME ChannelInv, HandlesEvent PROVE ChannelInv'
  OBVIOUS
<1> DEFINE e == Head(arriving)
<1>1. /\ ServiceInv /\ GoodLine(arriving, Missing, emitted) /\ arriving # <<>>
      /\ UNCHANGED <<emitted, refused, acks, acked>>
      /\ sock = "open" => Missing \subseteq ToSet(arriving)
  BY DEF ChannelInv, LineInv, HandlesEvent, Delivers, NotAcknowledged, serviceVars, refused
<1>2. Missing \in SUBSET (1 .. emitted) /\ emitted \in Nat
  BY <1>1, MissingIsEmitted
<1>3. e \in 1 .. emitted /\ e <= emitted /\ e \in Events /\ \A m \in Missing : e <= m
  <2>1. e \in 1 .. emitted /\ \A m \in Missing : e <= m
    BY <1>1, <1>2, FirstIsNext
  <2>2. 1 .. emitted \subseteq Events
    BY <1>1, FeishuAssumption DEF ServiceInv, Events, FeishuAssumption
  <2> QED BY <1>2, <2>1, <2>2
<1>4. CASE e \in Rich /\ LeavesSocket /\ NotAcknowledged(e) /\ UNCHANGED taken
  <2>1. ServiceInv'
    BY <1>1, <1>4, GivenUp, StaysTrue DEF ServiceInv
  <2>2. arriving' = <<>> /\ sock' = "none" /\ pc' = "backoff"
    BY <1>4 DEF LeavesSocket
  <2> QED BY <2>1, <2>2, EmptyLine DEF ChannelInv, LineInv
<1>5. CASE e \notin Rich /\ Delivers(e)
  <2>1. /\ pc' = "ack" /\ inHand' = e /\ arriving' = Tail(arriving)
        /\ taken' = IF e \in Others \cup Rich THEN taken ELSE Append(taken, e)
        /\ UNCHANGED <<sock, unacked>>
    BY <1>5 DEF Delivers, serviceVars
  <2>2. ServiceInv' /\ Missing' \subseteq Missing \ {e} /\ inHand' \in ToSet(taken') \cup Others
    <3>1. CASE e \in Others
      <4>1. taken' = taken /\ e \notin Missing
        BY <2>1, <3>1 DEF Missing, Messages
      <4> QED BY <1>1, <2>1, <3>1, <4>1, StaysTrue DEF ServiceInv
    <3>2. CASE e \notin Others
      <4>1. taken' = Append(taken, e) /\ e \in Messages
        BY <1>3, <1>5, <2>1, <3>2 DEF Messages
      <4>2. e \in ToSet(taken')
        BY <1>1, <4>1, ElementsGrow DEF ServiceInv
      <4>3. Missing' = Missing \ {e}
        BY <1>1, <4>1, MissingLess DEF ServiceInv
      <4>4. ServiceInv'
        BY <1>1, <1>3, <2>1, <4>1, GoesOn DEF ServiceInv
      <4> QED BY <2>1, <4>2, <4>3, <4>4
    <3> QED BY <3>1, <3>2
  <2>3. GoodLine(Tail(arriving), Missing', emitted)
    BY <1>1, <1>2, <2>2, FirstIsHandled
  <2>4. sock' = "open" => Missing' \subseteq ToSet(Tail(arriving))
    BY <1>1, <1>2, <2>1, <2>2, FirstIsHandled
  <2> QED BY <1>1, <2>1, <2>2, <2>3, <2>4 DEF ChannelInv, LineInv
<1> QED BY <1>4, <1>5 DEF HandlesEvent

LEMMA WritesAckStep == ChannelInv /\ WritesAck => ChannelInv'
<1> SUFFICES ASSUME ChannelInv, WritesAck PROVE ChannelInv'
  OBVIOUS
<1>1. /\ UNCHANGED <<emitted, unacked, taken, refused, sock, arriving>> /\ pc' = "frame"
      /\ inHand \in ToSet(taken) \cup Others /\ Acknowledges(inHand) /\ ServiceInv
  BY DEF WritesAck, ChannelInv, serviceVars, refused
<1>2. acks' \in Seq(acked') /\ acked' = acked \cup {inHand}
  BY <1>1, AcksAreAcked
<1>3. ServiceInv' /\ Missing' = Missing
  BY <1>1, <1>2, StaysTrue
<1>4. LineInv(arriving)'
  BY <1>1, <1>3 DEF ChannelInv, LineInv
<1> QED BY <1>1, <1>3, <1>4 DEF ChannelInv

LEMMA ConnectsStep == ChannelInv /\ Connects => ChannelInv'
<1> SUFFICES ASSUME ChannelInv, Connects PROVE ChannelInv'
  OBVIOUS
<1>1. /\ UNCHANGED <<emitted, unacked, taken, refused, acked, acks>>
      /\ pc' = "frame" /\ arriving' \in Backlogs
  BY DEF Connects, historyVars, refused, serviceVars
<1>2. ServiceInv' /\ Missing' = Missing
  BY <1>1, ChannelQuiet
<1>3. emitted \in 0 .. MaxEvents /\ unacked \subseteq 1 .. emitted /\ Missing \in SUBSET unacked
  BY DEF ChannelInv, ServiceInv
<1>4. arriving' \in Seq(1 .. emitted) /\ Missing \subseteq ToSet(arriving') /\ InOrder(Missing, arriving')
  BY <1>1, <1>3, LineBegins, FeishuAssumption
<1> QED BY <1>1, <1>2, <1>4 DEF ChannelInv, LineInv, GoodLine

LEMMA ChannelStep == ChannelInv /\ [ChannelNext]_channelVars => ChannelInv'
<1> SUFFICES ASSUME ChannelInv, [ChannelNext]_channelVars PROVE ChannelInv'
  OBVIOUS
<1>1. ASSUME UNCHANGED <<emitted, unacked, taken, refused, acked, acks>>,
             \/ arriving' = <<>> /\ sock' # "open"
             \/ arriving' = arriving /\ (sock' = sock \/ sock' # "open"),
             pc' # "ack" \/ UNCHANGED <<pc, inHand>>
      PROVE  ChannelInv'
  <2>1. ServiceInv' /\ Missing' = Missing
    BY <1>1, ChannelQuiet
  <2>2. GoodLine(arriving', Missing, emitted)
    BY <1>1, EmptyLine DEF ChannelInv, LineInv
  <2>3. sock' = "open" => Missing \subseteq ToSet(arriving')
    BY <1>1 DEF ChannelInv, LineInv
  <2> QED BY <1>1, <2>1, <2>2, <2>3 DEF ChannelInv, LineInv
<1>2. CASE RequestsEndpoint
  <2>1. /\ UNCHANGED <<emitted, unacked, taken, refused, acked, acks, arriving>>
        /\ pc' # "ack" /\ (sock' = sock \/ sock' # "open")
        /\ arriving' = arriving
    BY <1>2 DEF RequestsEndpoint, serviceVars, historyVars, refused
  <2> QED BY <1>1, <2>1
<1>3. CASE Retries
  BY <1>1, <1>3 DEF Retries, serviceVars, historyVars, refused
<1>4. CASE LosesSocket
  <2>1. /\ UNCHANGED <<emitted, unacked, taken, refused, acked, acks>>
        /\ pc' # "ack" /\ sock' # "open" /\ arriving' = <<>>
    BY <1>4 DEF LosesSocket, LeavesSocket, serviceVars, historyVars, refused
  <2> QED BY <1>1, <2>1
<1>5. CASE Cancel
  <2>1. /\ UNCHANGED <<emitted, unacked, taken, refused, acked, acks>>
        /\ pc' # "ack" /\ sock' # "open" /\ arriving' = <<>>
    BY <1>5 DEF Cancel, serviceVars, historyVars, refused
  <2> QED BY <1>1, <2>1
<1>6. CASE UNCHANGED channelVars
  BY <1>1, <1>6 DEF channelVars, serviceVars, historyVars, refused
<1> QED
  BY <1>2, <1>3, <1>4, <1>5, <1>6, ConnectsStep, HandlesEventStep, WritesAckStep,
     ChannelEventsStep DEF ChannelNext, Channel

LEMMA ServiceStart == EventsInit => ServiceInv /\ LineInv(<<>>)
<1> SUFFICES ASSUME EventsInit PROVE ServiceInv /\ LineInv(<<>>)
  OBVIOUS
<1>1. emitted = 0 /\ unacked = {} /\ acks = <<>> /\ taken = <<>> /\ acked = {} /\ sock = "none"
  BY DEF EventsInit
<1>2. Missing = {}
  BY <1>1, FeishuAssumption, MessagesAreNumbers DEF Missing
<1>3. emitted \in 0 .. MaxEvents
  BY <1>1, FeishuAssumption DEF FeishuAssumption
<1> QED BY <1>1, <1>2, <1>3, EmptyLine DEF ServiceInv, LineInv, AckedHadTheirTurn, NoGap

(* The invariant of the feishu channel of the bridge. *)
THEOREM ChannelInvariant == ChannelSpec => []ChannelInv
<1>1. EventsInit => ChannelInv
  BY ServiceStart DEF ChannelInv, EventsInit
<1> QED BY <1>1, ChannelStep, PTL DEF ChannelSpec

LEMMA NoGapKeepsOrder ==
  ASSUME ServiceInv
  PROVE  OrderKept
<1>1. ASSUME NEW i \in DOMAIN taken, NEW j \in DOMAIN taken, taken[j] < taken[i], taken[j] \notin refused
      PROVE  \E k \in 1 .. i - 1 : taken[k] = taken[j]
  <2>1. taken \in Seq(Messages) /\ taken[j] \in Messages
    BY DEF ServiceInv
  <2>2. PICK k \in DOMAIN taken : k < i /\ taken[k] = taken[j]
    BY <1>1, <2>1 DEF ServiceInv, NoGap
  <2> QED BY <2>1, <2>2
<1> QED BY <1>1 DEF OrderKept

(* What the channel acknowledges (_handle_ws_frame) it has handed on.      *)
THEOREM ChannelAcksWhatItTook == ChannelSpec => []AckedIsTaken
<1>1. ChannelInv => AckedIsTaken
  BY DEF ChannelInv, ServiceInv, AckedHadTheirTurn, AckedIsTaken, refused
<1> QED BY <1>1, ChannelInvariant, PTL

(* The channel hands messages on in the order they were sent, over lost    *)
(* connections, failed calls and repeated pushes.                          *)
THEOREM ChannelKeepsOrder == ChannelSpec => []OrderKept
<1>1. ChannelInv => OrderKept
  BY NoGapKeepsOrder DEF ChannelInv
<1> QED BY <1>1, ChannelInvariant, PTL
-----------------------------------------------------------------------------
(* The plugin.  Its line is the message in hand, the queue and what still  *)
(* arrives.                                                                *)
LEMMA PluginLine ==
  ASSUME PluginInv
  PROVE  /\ Hand \in Seq(Events) /\ queue \in Seq(Events) /\ arriving \in Seq(Events)
         /\ Hand \o queue \in Seq(Events) /\ Line \in Seq(1 .. emitted) /\ InOrder(Missing, Line)
         /\ inHand = 0 => Hand = <<>> /\ Hand \o queue = queue /\ Line = queue \o arriving
         /\ inHand # 0 => Hand = <<inHand>> /\ Line # <<>> /\ Head(Line) = inHand
                          /\ Tail(Line) = queue \o arriving
<1>1. queue \in Seq(Events) /\ arriving \in Seq(Events) /\ inHand \in {0} \cup Events
  BY DEF PluginInv, Messages
<1>2. Hand \in Seq(Events) /\ Hand \o queue \in Seq(Events)
  BY <1>1 DEF Hand
<1>3. Line \in Seq(1 .. emitted) /\ InOrder(Missing, Line)
  BY DEF PluginInv, LineInv, GoodLine
<1>4. ASSUME inHand = 0
      PROVE  Hand = <<>> /\ Hand \o queue = queue /\ Line = queue \o arriving
  BY <1>1, <1>4 DEF Hand, Line
<1>5. ASSUME inHand # 0
      PROVE  Hand = <<inHand>> /\ Line # <<>> /\ Head(Line) = inHand /\ Tail(Line) = queue \o arriving
  <2>1. Hand = <<inHand>> /\ inHand \in Events
    BY <1>1, <1>5 DEF Hand
  <2>2. Line = (<<inHand>> \o queue) \o arriving
    BY <2>1 DEF Line
  <2>3. Line = <<inHand>> \o (queue \o arriving) /\ queue \o arriving \in Seq(Events)
    BY <1>1, <2>1, <2>2
  <2> QED BY <2>1, <2>3, InARow
<1> QED BY <1>1, <1>2, <1>3, <1>4, <1>5

LEMMA PluginEventsStep == PluginInv /\ EventsNext /\ UNCHANGED queue => PluginInv'
<1> SUFFICES ASSUME PluginInv, EventsNext, UNCHANGED queue PROVE PluginInv'
  OBVIOUS
<1>1. PICK p : p = Hand \o queue
  OBVIOUS
<1>2. p \in Seq(Nat) /\ arriving \in Seq(Nat) /\ LineInv(p \o arriving) /\ ServiceInv
  <2>1. p \in Seq(Events) /\ arriving \in Seq(Events) /\ Line = p \o arriving
    BY <1>1, PluginLine DEF Line
  <2>2. Events \subseteq Nat
    BY FeishuAssumption DEF FeishuAssumption, Events
  <2>3. p \in Seq(Nat) /\ arriving \in Seq(Nat)
    BY <2>1, <2>2, SeqMonotonic
  <2> QED BY <2>1, <2>3 DEF PluginInv
<1>3. ServiceInv' /\ LineInv(p \o arriving)'
  BY <1>2, EmitsStep, PushesStep, ReadsStep, LostStep DEF EventsNext
<1>4. UNCHANGED <<pc, inHand, queue>>
  BY DEF EventsNext, Emits, PushesAgain, ReadsAck, ConnectionLost
<1>5. Line' = p \o arriving'
  BY <1>1, <1>4 DEF Line, Hand
<1>6. /\ arriving' \in Seq(Events)
      /\ sock' = "open" => sock = "open"
      /\ sock # "open" /\ arriving = <<>> => arriving' = <<>>
  <2>1. CASE Emits
    <3>1. emitted' \in Events
      BY <2>1, <1>2, FeishuAssumption DEF Emits, ServiceInv, FeishuAssumption, Events
    <3> QED BY <2>1, <3>1 DEF Emits, PluginInv
  <2>2. CASE PushesAgain
    <3>1. unacked \subseteq Events
      BY <1>2, FeishuAssumption DEF ServiceInv, FeishuAssumption, Events
    <3> QED BY <2>2, <3>1 DEF PushesAgain, PluginInv
  <2>3. CASE ReadsAck
    BY <2>3 DEF ReadsAck, PluginInv
  <2>4. CASE ConnectionLost
    <3>1. arriving' \in Seq(Events) /\ sock' = "closing"
      BY <2>4, PluginLine DEF ConnectionLost
    <3>2. arriving = <<>> => arriving' = <<>>
      BY <2>4 DEF ConnectionLost
    <3> QED BY <3>1, <3>2
  <2> QED BY <2>1, <2>2, <2>3, <2>4 DEF EventsNext
<1>7. LineInv(Line)'
  BY <1>3, <1>5 DEF LineInv
<1>8. sock' \in {"connecting", "closing"} => sock \in {"connecting", "open", "closing"}
  BY DEF EventsNext, Emits, PushesAgain, ReadsAck, ConnectionLost
<1>9. /\ sock' = "open" => pc' \in {"frame", "handler"}
      /\ sock' \in {"connecting", "closing"} => pc' \in {"open", "frame", "handler"}
      /\ pc' \notin {"frame", "handler"} => queue' = <<>> /\ arriving' = <<>>
  BY <1>4, <1>6, <1>8 DEF PluginInv
<1> QED BY <1>3, <1>4, <1>6, <1>7, <1>9 DEF PluginInv

LEMMA PluginQuiet ==
  ASSUME PluginInv, UNCHANGED <<emitted, unacked, taken, refused, acked, acks>>
  PROVE  ServiceInv' /\ Missing' = Missing
  BY StaysTrue DEF PluginInv, ServiceInv

(* A step that hands nothing on, and keeps the line or ends it. *)
LEMMA PluginKeepsLine ==
  ASSUME PluginInv, UNCHANGED <<emitted, unacked, taken, refused, acked, acks, queue, arriving, inHand>>,
         sock' = sock \/ sock' # "open"
  PROVE  ServiceInv' /\ LineInv(Line)'
<1>1. ServiceInv' /\ Missing' = Missing
  BY PluginQuiet
<1>2. Line' = Line
  BY DEF Line, Hand
<1> QED BY <1>1, <1>2 DEF PluginInv, LineInv

LEMMA NoLine ==
  ASSUME queue = <<>>, arriving = <<>>, inHand = 0
  PROVE  Line = <<>> /\ Hand = <<>>
  BY DEF Line, Hand

LEMMA OpenedStep == PluginInv /\ Opened => PluginInv'
<1> SUFFICES ASSUME PluginInv, Opened PROVE PluginInv'
  OBVIOUS
<1>1. /\ UNCHANGED <<emitted, unacked, taken, refused, acked, acks, queue, inHand>>
      /\ pc' = "frame" /\ arriving' \in Backlogs /\ queue = <<>> /\ inHand = 0
  BY DEF Opened, historyVars, refused, serviceVars, PluginInv
<1>2. ServiceInv' /\ Missing' = Missing
  BY <1>1, PluginQuiet
<1>3. emitted \in 0 .. MaxEvents /\ unacked \subseteq 1 .. emitted /\ Missing \in SUBSET unacked
  BY DEF PluginInv, ServiceInv
<1>4. arriving' \in Seq(1 .. emitted) /\ Missing \subseteq ToSet(arriving') /\ InOrder(Missing, arriving')
  BY <1>1, <1>3, LineBegins, FeishuAssumption
<1>5. arriving' \in Seq(Events)
  <2>1. 1 .. emitted \subseteq Events
    BY <1>3, FeishuAssumption DEF FeishuAssumption, Events
  <2> QED BY <1>4, <2>1, SeqMonotonic
<1>6. Line' = arriving'
  <2>1. Line' = (<<>> \o <<>>) \o arriving'
    BY <1>1 DEF Line, Hand
  <2> QED BY <1>5, <2>1
<1> QED BY <1>1, <1>2, <1>4, <1>5, <1>6 DEF PluginInv, LineInv, GoodLine

LEMMA ArrivesStep == PluginInv /\ Arrives => PluginInv'
<1> SUFFICES ASSUME PluginInv, Arrives PROVE PluginInv'
  OBVIOUS
<1>1. /\ UNCHANGED <<emitted, unacked, taken, refused, acked, acks, inHand, pc, sock>>
      /\ pc \in {"frame", "handler"} /\ arriving # <<>>
      /\ arriving' = Tail(arriving) /\ queue' = Append(queue, Head(arriving))
  BY DEF Arrives, historyVars, refused, serviceVars
<1>2. ServiceInv' /\ Missing' = Missing
  BY <1>1, PluginQuiet
<1>3. Hand \in Seq(Events) /\ queue \in Seq(Events) /\ arriving \in Seq(Events) /\ Head(arriving) \in Events
  BY <1>1, PluginLine, ElementsShrink
<1>4. arriving' \in Seq(Events) /\ queue' \in Seq(Events)
  BY <1>1, <1>3
<1>5. Line' = Line
  <2>1. Line' = (Hand \o Append(queue, Head(arriving))) \o Tail(arriving)
    BY <1>1 DEF Line, Hand
  <2>2. Hand \o Append(queue, Head(arriving)) = Append(Hand \o queue, Head(arriving)) /\ Hand \o queue \in Seq(Events)
    BY <1>3, InARow
  <2>3. Append(Hand \o queue, Head(arriving)) \o Tail(arriving) = (Hand \o queue) \o arriving
    <3>1. \A p, q \in Seq(Events) : q # <<>> => Append(p, Head(q)) \o Tail(q) = p \o q
      BY InARow
    <3> QED BY <1>1, <1>3, <2>2, <3>1
  <2> QED BY <2>1, <2>2, <2>3 DEF Line
<1> QED BY <1>1, <1>2, <1>4, <1>5 DEF PluginInv, LineInv

(* Leaving _runSocket empties the line. *)
LEMMA AbandonsStep ==
  ASSUME PluginInv, Abandons, ServiceInv'
  PROVE  PluginInv'
<1>1. /\ pc' \in {"ended", "backoff"} /\ sock' = "none"
      /\ arriving' = <<>> /\ queue' = <<>> /\ inHand' = 0
  BY DEF Abandons, BackOff
<1>2. Line' = <<>>
  BY <1>1 DEF Line, Hand
<1>3. LineInv(Line)'
  BY <1>1, <1>2, EmptyLine DEF LineInv
<1> QED BY <1>1, <1>3 DEF PluginInv

(* The first of the line is handed on or refused, and leaves it. *)
LEMMA LeavesLine ==
  ASSUME ServiceInv, ServiceInv', LineInv(Line), Line # <<>>, UNCHANGED <<emitted, sock>>,
         Missing' \subseteq Missing \ {Head(Line)}, Line' = Tail(Line)
  PROVE  LineInv(Line)'
<1>1. Missing \in SUBSET (1 .. emitted) /\ emitted \in Nat
  BY MissingIsEmitted
<1>2. /\ GoodLine(Tail(Line), Missing', emitted)
      /\ Missing \subseteq ToSet(Line) => Missing' \subseteq ToSet(Tail(Line))
  BY <1>1, FirstIsHandled DEF LineInv
<1> QED BY <1>2 DEF LineInv
LEMMA TakesFrameStep == PluginInv /\ TakesFrame => PluginInv'
<1> SUFFICES ASSUME PluginInv, TakesFrame PROVE PluginInv'
  OBVIOUS
<1> DEFINE e == Head(queue)
<1>1. /\ pc = "frame" /\ queue # <<>> /\ inHand = 0 /\ ServiceInv /\ LineInv(Line)
      /\ UNCHANGED <<emitted, refused>>
  BY DEF TakesFrame, PluginInv, Abandons, NotAcknowledged, serviceVars, refused
<1>2. /\ queue \in Seq(Events) /\ arriving \in Seq(Events) /\ Line = queue \o arriving
      /\ e \in Events /\ Tail(queue) \in Seq(Events) /\ <<e>> \o Tail(queue) = queue
  BY <1>1, PluginLine, ElementsShrink, InARow
<1>3. Line # <<>> /\ Head(Line) = e /\ Tail(Line) = Tail(queue) \o arriving
  BY <1>1, <1>2
<1>4. e <= emitted /\ \A m \in Missing : e <= m
  <2>1. Missing \in SUBSET (1 .. emitted) /\ emitted \in Nat /\ GoodLine(Line, Missing, emitted)
    BY <1>1, MissingIsEmitted DEF LineInv
  <2> QED BY <2>1, <1>3, FirstIsNext
<1>5. CASE e \in Rich
  <2>1. Abandons /\ NotAcknowledged(e) /\ UNCHANGED <<acks, acked, taken>>
    BY <1>5 DEF TakesFrame
  <2>2. ServiceInv'
    BY <1>1, <1>5, <2>1, GivenUp, StaysTrue DEF ServiceInv
  <2> QED BY <2>1, <2>2, AbandonsStep
<1>6. CASE e \notin Rich
  <2>1. /\ queue' = Tail(queue)
        /\ UNCHANGED <<sock, arriving, unacked, emitted, refused>>
    BY <1>6 DEF TakesFrame, serviceVars, refused
  <2>2. \/ /\ Acknowledges(e)
           /\ taken' = IF e \in Others THEN taken ELSE Append(taken, e)
           /\ UNCHANGED <<pc, inHand>>
        \/ /\ e \notin Others
           /\ pc' = "handler" /\ inHand' = e
           /\ UNCHANGED <<acks, acked, taken>>
    BY <1>6 DEF TakesFrame
  <2>3. queue' \in Seq(Events) /\ arriving' \in Seq(Events) /\ (sock' = "open" => sock = "open")
    BY <1>2, <2>1
  <2>4. CASE e \notin Others /\ pc' = "handler" /\ inHand' = e /\ UNCHANGED <<acks, acked, taken>>
    <3>1. e \in Messages /\ e # 0
      BY <1>2, <1>6, <2>4, FeishuAssumption, MessagesAreNumbers DEF Messages
    <3>2. Line' = Line
      BY <1>2, <2>1, <2>4, <3>1 DEF Line, Hand
    <3>3. ServiceInv' /\ Missing' = Missing
      BY <2>1, <2>4, PluginQuiet
    <3> QED BY <1>1, <2>1, <2>3, <2>4, <3>1, <3>2, <3>3 DEF PluginInv, LineInv
  <2>5. CASE /\ Acknowledges(e)
             /\ taken' = IF e \in Others THEN taken ELSE Append(taken, e)
             /\ UNCHANGED <<pc, inHand>>
    <3>1. acks' \in Seq(acked') /\ acked' = acked \cup {e}
      BY <1>1, <2>5, AcksAreAcked
    <3>2. ServiceInv' /\ Missing' \subseteq Missing \ {e}
      <4>1. CASE e \in Others
        <5>1. taken' = taken /\ e \notin Missing
          BY <2>5, <4>1 DEF Missing, Messages
        <5> QED BY <1>1, <2>1, <3>1, <4>1, <5>1, StaysTrue
      <4>2. CASE e \notin Others
        <5>1. taken' = Append(taken, e) /\ e \in Messages
          BY <1>2, <1>6, <2>5, <4>2 DEF Messages
        <5>2. Missing' = Missing \ {e}
          BY <1>1, <5>1, MissingLess DEF ServiceInv
        <5>3. ServiceInv'
          BY <1>1, <1>4, <2>1, <3>1, <5>1, GoesOn
        <5> QED BY <5>2, <5>3
      <4> QED BY <4>1, <4>2
    <3>3. Line' = Tail(Line)
      <4>1. Line' = (<<>> \o Tail(queue)) \o arriving
        BY <1>1, <2>1, <2>5 DEF Line, Hand
      <4> QED BY <1>2, <1>3, <4>1
    <3>4. LineInv(Line)'
      BY <1>1, <1>3, <2>1, <3>2, <3>3, LeavesLine
    <3> QED BY <1>1, <2>1, <2>3, <2>5, <3>2, <3>4 DEF PluginInv
  <2> QED BY <2>2, <2>4, <2>5
<1> QED BY <1>5, <1>6

LEMMA HandledStep == PluginInv /\ Handled => PluginInv'
<1> SUFFICES ASSUME PluginInv, Handled PROVE PluginInv'
  OBVIOUS
<1>1. /\ pc = "handler" /\ inHand # 0 /\ inHand \in Messages /\ ServiceInv /\ LineInv(Line)
      /\ UNCHANGED <<emitted, unacked>>
  BY DEF Handled, PluginInv, serviceVars
<1>2. /\ Line # <<>> /\ Head(Line) = inHand /\ Tail(Line) = queue \o arriving
      /\ queue \in Seq(Events) /\ arriving \in Seq(Events)
  BY <1>1, PluginLine
<1>3. inHand <= emitted /\ \A m \in Missing : inHand <= m
  <2>1. Missing \in SUBSET (1 .. emitted) /\ emitted \in Nat /\ GoodLine(Line, Missing, emitted)
    BY <1>1, MissingIsEmitted DEF LineInv
  <2> QED BY <2>1, <1>2, FirstIsNext
<1>4. CASE Abandons /\ UNCHANGED <<acks, acked, taken, refused>>
  <2>1. ServiceInv'
    BY <1>1, <1>4, PluginQuiet
  <2> QED BY <1>4, <2>1, AbandonsStep
<1>5. CASE /\ \/ taken' = Append(taken, inHand) /\ UNCHANGED refused
              \/ refused' = refused \cup {inHand} /\ UNCHANGED taken
           /\ Acknowledges(inHand)
           /\ pc' = "frame" /\ inHand' = 0
           /\ UNCHANGED <<sock, arriving, queue>>
  <2>1. acks' \in Seq(acked') /\ acked' = acked \cup {inHand}
    BY <1>1, <1>5, AcksAreAcked
  <2>2. Missing' = Missing \ {inHand}
    BY <1>1, <1>5, MissingLess DEF ServiceInv
  <2>3. ServiceInv'
    BY <1>1, <1>3, <1>5, <2>1, GoesOn
  <2>4. Line' = Tail(Line)
    <3>1. Line' = (<<>> \o queue) \o arriving
      BY <1>5 DEF Line, Hand
    <3> QED BY <1>2, <3>1
  <2>5. LineInv(Line)'
    BY <1>1, <1>2, <1>5, <2>2, <2>3, <2>4, LeavesLine
  <2> QED BY <1>1, <1>2, <1>5, <2>3, <2>5 DEF PluginInv
<1>6. CASE Abandons /\ UNCHANGED <<acks, acked, taken, told, untold>>
  BY <1>4, <1>6 DEF refused
<1>7. CASE /\ \/ taken' = Append(taken, inHand) /\ UNCHANGED <<told, untold>>
              \/ told' = told \cup {inHand} /\ UNCHANGED <<taken, untold>>
              \/ untold' = untold \cup {inHand} /\ UNCHANGED <<taken, told>>
           /\ Acknowledges(inHand)
           /\ pc' = "frame" /\ inHand' = 0
           /\ UNCHANGED <<sock, arriving, queue>>
  <2>1. \/ taken' = Append(taken, inHand) /\ UNCHANGED refused
        \/ refused' = refused \cup {inHand} /\ UNCHANGED taken
    BY <1>7 DEF refused
  <2> QED BY <1>5, <1>7, <2>1
<1> QED BY <1>6, <1>7 DEF Handled

LEMMA GetAddressStep == PluginInv /\ GetAddress => PluginInv'
<1> SUFFICES ASSUME PluginInv, GetAddress PROVE PluginInv'
  OBVIOUS
<1>1. /\ UNCHANGED <<emitted, unacked, taken, refused, acked, acks, inHand>>
      /\ pc' \in {"open", "ended", "backoff"} /\ arriving' = <<>> /\ queue' = <<>>
      /\ inHand = 0 /\ sock' # "open"
      /\ sock' \in {"connecting", "closing"} => pc' = "open"
  BY DEF GetAddress, BackOff, PluginInv, serviceVars, historyVars, refused
<1>2. ServiceInv' /\ Missing' = Missing
  BY <1>1, PluginQuiet
<1>3. Line' = <<>>
  BY <1>1 DEF Line, Hand
<1>4. LineInv(Line)'
  BY <1>1, <1>3, EmptyLine DEF LineInv
<1> QED BY <1>1, <1>2, <1>4 DEF PluginInv

LEMMA StopStep == PluginInv /\ Stop => PluginInv'
<1> SUFFICES ASSUME PluginInv, Stop PROVE PluginInv'
  OBVIOUS
<1>1. /\ UNCHANGED <<emitted, unacked, taken, refused, acked, acks, inHand, queue, pc>>
      /\ \/ sock' = "closing" /\ arriving' = <<>>
         \/ UNCHANGED <<sock, arriving>> /\ sock # "open"
      /\ sock' = "closing" => pc \in {"open", "frame", "handler"}
  BY DEF Stop, serviceVars, historyVars, refused, PluginInv
<1>2. CASE UNCHANGED <<sock, arriving>>
  <2>1. ServiceInv' /\ LineInv(Line)'
    BY <1>1, <1>2, PluginKeepsLine
  <2> QED BY <1>1, <1>2, <2>1 DEF PluginInv
<1>3. CASE sock' = "closing" /\ arriving' = <<>>
  <2>1. ServiceInv' /\ Missing' = Missing
    BY <1>1, PluginQuiet
  <2>2. Hand \o queue \in Seq(Events) /\ arriving \in Seq(Events) /\ Line \in Seq(1 .. emitted)
        /\ InOrder(Missing, Line)
    BY PluginLine
  <2>3. Line' = (Hand \o queue) \o SubSeq(arriving, 1, 0)
    BY <1>1, <1>3, <2>2 DEF Line, Hand
  <2>4. 0 \in 0 .. Len(arriving)
    BY <2>2
  <2>5. InOrder(Missing, Line')
    BY <2>2, <2>3, <2>4, LineIsCut DEF Line
  <2>6. Line' \in Seq(1 .. emitted)
    BY <2>2, <2>3, <2>4, CutIsShorter DEF Line
  <2>7. LineInv(Line)'
    BY <1>1, <1>3, <2>1, <2>5, <2>6 DEF LineInv, GoodLine
  <2> QED BY <1>1, <1>3, <2>1, <2>7 DEF PluginInv
<1> QED BY <1>1, <1>2, <1>3

LEMMA PluginStep == PluginInv /\ [Next]_vars => PluginInv'
<1> SUFFICES ASSUME PluginInv, [Next]_vars PROVE PluginInv'
  OBVIOUS
<1>1. ASSUME UNCHANGED <<emitted, unacked, taken, refused, acked, acks, queue, arriving, inHand>>,
             sock' = sock \/ sock' # "open"
      PROVE  ServiceInv' /\ LineInv(Line)'
  BY <1>1, PluginKeepsLine
<1>2. CASE WakeUp
  <2>1. /\ UNCHANGED <<emitted, unacked, taken, refused, acked, acks, queue, arriving, inHand, sock>>
        /\ pc = "backoff" /\ pc' \in {"ended", "address"}
    BY <1>2 DEF WakeUp, RoundAgain, serviceVars, historyVars, refused, frameVars
  <2> QED BY <1>1, <2>1 DEF PluginInv
<1>3. CASE Closed
  <2>1. /\ UNCHANGED <<emitted, unacked, taken, refused, acked, acks, queue, arriving, inHand>>
        /\ arriving = <<>> /\ (pc = "frame" => queue = <<>>) /\ sock' = "closed"
    BY <1>3 DEF Closed, EventTurn, serviceVars, frameVars, refused
  <2>2. pc' = pc \/ (pc' \in {"ended", "address", "backoff"} /\ pc \in {"frame", "open"})
    BY <1>3 DEF Closed, RoundAgain, BackOff
  <2> QED BY <1>1, <2>1, <2>2 DEF PluginInv
<1>4. CASE UNCHANGED vars
  <2>1. UNCHANGED <<emitted, unacked, taken, refused, acked, acks, queue, arriving, inHand, sock, pc>>
    BY <1>4 DEF vars, serviceVars, historyVars, refused, frameVars
  <2> QED BY <1>1, <2>1 DEF PluginInv
<1> QED
  BY <1>2, <1>3, <1>4, OpenedStep, ArrivesStep, TakesFrameStep, HandledStep, GetAddressStep,
     StopStep, PluginEventsStep DEF Next, Client

(* The invariant of the dsh-feishu plugin. *)
THEOREM PluginInvariant == Spec => []PluginInv
<1>1. Init => PluginInv
  <2> SUFFICES ASSUME Init PROVE PluginInv
    OBVIOUS
  <2>1. queue = <<>> /\ arriving = <<>> /\ inHand = 0 /\ pc = "address" /\ sock = "none"
    BY DEF Init, EventsInit
  <2>2. ServiceInv /\ LineInv(<<>>) /\ Line = <<>>
    BY <2>1, ServiceStart, NoLine DEF Init
  <2> QED BY <2>1, <2>2 DEF PluginInv
<1> QED BY <1>1, PluginStep, PTL DEF Spec

(* What the plugin acknowledges (_handleFrame) it has handed to an agent,  *)
(* or has told its sender to repeat, unless that apology failed as well.   *)
THEOREM PluginAcksWhatItTook == Spec => []AckedIsTaken
<1>1. PluginInv => AckedIsTaken
  BY DEF PluginInv, ServiceInv, AckedHadTheirTurn, AckedIsTaken, refused
<1> QED BY <1>1, PluginInvariant, PTL

(* The plugin hands messages on in the order they were sent, whatever      *)
(* waits in its queue when a connection ends or onMessage raises.          *)
THEOREM PluginKeepsOrder == Spec => []OrderKept
<1>1. PluginInv => OrderKept
  BY NoGapKeepsOrder DEF PluginInv
<1> QED BY <1>1, PluginInvariant, PTL
=============================================================================
