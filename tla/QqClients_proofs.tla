-------------------------- MODULE QqClients_proofs --------------------------
(***************************************************************************)
(* Theorems about the two clients of the QQ gateway, the dsh-qq plugin     *)
(* (Spec) and the qq_official channel of the bridge (ChannelSpec), for all *)
(* messages, repeated pushes and faults.  PositionInv relates what a       *)
(* client keeps of its session to the log of the gateway, LineInv relates  *)
(* the frames under way to both.                                           *)
(***************************************************************************)
EXTENDS PluginSocket, QqOfficial, SequenceTheorems, TLAPS

Frames == [op : {"hello", "resumed", "ready", "message", "reconnect", "invalid"}, id : Nat, seq : Nat]

(* The n-th event of a log repeats an earlier one. *)
Repeats(log, n) == \E k \in 1 .. n - 1 : log[k] = log[n]

(* The messages of line are those of log from behind p on, one after the   *)
(* other.                                                                  *)
InTurn(line, log, p) ==
  \A i \in DOMAIN line : line[i].op = "message" =>
    /\ line[i].seq \in p + 1 .. Len(log) /\ line[i].id = log[line[i].seq]
    /\ \A n \in p + 1 .. line[i].seq - 1 :
         \E k \in DOMAIN line : k < i /\ line[k].op = "message" /\ line[k].seq = n
    /\ \A k \in DOMAIN line : k < i /\ line[k].op = "message" => line[k].seq < line[i].seq

(* None of them is left out. *)
Full(line, log, p) ==
  \A n \in p + 1 .. Len(log) : \E k \in DOMAIN line : line[k].op = "message" /\ line[k].seq = n

(* The remembered ids are those of the messages taken last. *)
Window ==
  /\ recent \in Seq(Nat) /\ Len(recent) <= Recent /\ Len(recent) <= Len(taken)
  /\ Len(recent) = Recent \/ Len(recent) = Len(taken)
  /\ \A i \in 1 .. Len(recent) : recent[i] = taken[Len(taken) - Len(recent) + i]

(* What the log has behind the position is later than what was taken. *)
Ahead ==
  \A n \in lastSeq + 1 .. Len(gateway.log) :
    Repeats(gateway.log, n) \/ \A i \in DOMAIN taken : taken[i] < gateway.log[n]

LogInOrder ==
  \A n \in DOMAIN gateway.log :
    Repeats(gateway.log, n) \/ \A k \in 1 .. n - 1 : gateway.log[k] < gateway.log[n]

Types ==
  /\ sent \in Nat /\ session \in Nat /\ lastSeq \in Nat
  /\ gateway \in [session : Nat, valid : BOOLEAN, attached : BOOLEAN, log : Seq(1 .. sent)]
  /\ asked \in [op : {"none", "resume", "identify"}, session : Nat, seq : Nat]
  /\ taken \in Seq(1 .. sent)

PositionInv ==
  /\ Types
  /\ Window
  /\ TakenOnceInOrder
  /\ LogInOrder
  /\ session \in {0, gateway.session} /\ (session = 0 => lastSeq = 0)
  /\ gateway.session = 0 => gateway.log = <<>> /\ ~gateway.valid
  /\ lastSeq <= Len(gateway.log)
  /\ \A i \in 1 .. lastSeq : Contains(taken, gateway.log[i])

(* What the frames under way, line, have to do with a gateway g, a         *)
(* position n, a session id, a socket s, the await at of the client and    *)
(* what it asks, q: the pushes are those behind the position, ...          *)
Pushed(line, g, n, s) ==
  /\ line \in Seq(Frames)
  /\ InTurn(line, g.log, n)
  /\ g.attached /\ s = "open" => Full(line, g.log, n)

(* ... an invalid session ends its line, and cannot be resumed, ...        *)
Ends(line, g, s, at) ==
  \A i \in DOMAIN line : line[i].op = "invalid" =>
    /\ i = Len(line)
    /\ g.valid => at = "ready" /\ i = 1
    /\ s = "open" => at \in {"ready", "resumed"} /\ i = 1

ReadyComes(line, at) == at = "ready" /\ line # <<>> /\ Head(line).op = "ready"

(* ... the answer to a handshake comes first, ...                          *)
Greets(line, g, id, s, at) ==
  /\ ReadyComes(line, at) => Head(line).seq = g.session /\ g.session # 0
  /\ at = "hello" => Len(line) <= 1
  /\ at = "resumed" =>
       /\ id # 0
       /\ g.attached /\ s = "open" => line # <<>>
       /\ line # <<>> /\ Head(line).op # "resumed" =>
            /\ Len(line) = 1 /\ ~g.attached
            /\ Head(line).op # "invalid" => s # "open"
  /\ at = "ready" =>
       /\ s = "open" \/ line # <<>> => id = 0
       /\ g.attached /\ s = "open" => ReadyComes(line, at)
  /\ at \in {"frame", "handler"} /\ (s = "open" \/ line # <<>>) => id = g.session
  /\ g.attached => at \in {"resumed", "ready", "frame", "handler"}

(* ... and nothing comes before the answer.                                *)
Waits(line, g, n, at, q) ==
  q.op # "none" =>
    /\ line = <<>> /\ ~g.attached
    /\ q.op = "resume" => at = "resumed" /\ q.seq = n
    /\ q.op = "identify" => at = "ready"

InLine(line, g, n, id, s, at, q) ==
  Pushed(line, g, n, s) /\ Ends(line, g, s, at) /\ Greets(line, g, id, s, at) /\ Waits(line, g, n, at, q)

(* The client is in the session of the gateway, or may come to be. *)
Live(line) == session = gateway.session \/ gateway.valid \/ ReadyComes(line, pc)

LineInv(line) ==
  /\ InLine(line, gateway, lastSeq, session, sock, pc, asked)
  /\ Live(line) => Ahead

PluginInv ==
  /\ PositionInv
  /\ LineInv(queue \o arriving)
  /\ queue \in Seq(Frames) /\ arriving \in Seq(Frames)
  /\ pc \notin {"frame", "handler"} => queue = <<>>

ChannelInv ==
  /\ PositionInv
  /\ LineInv(arriving)

-----------------------------------------------------------------------------
(* Sequences: an entry more or less, the beginning of one, two in a row.   *)
LEMMA ElementsGrow ==
  ASSUME NEW S, NEW s \in Seq(S), NEW e
  PROVE  /\ DOMAIN Append(s, e) = DOMAIN s \cup {Len(s) + 1}
         /\ \A i \in DOMAIN s : Append(s, e)[i] = s[i] /\ i < Len(s) + 1
         /\ Append(s, e)[Len(s) + 1] = e /\ Len(Append(s, e)) = Len(s) + 1
         /\ s # <<>> => Append(s, e) # <<>> /\ Head(Append(s, e)) = Head(s)
  OBVIOUS

LEMMA ElementsShrink ==
  ASSUME NEW S, NEW s \in Seq(S), s # <<>>
  PROVE  /\ Head(s) \in S /\ Head(s) = s[1] /\ 1 \in DOMAIN s
         /\ Tail(s) \in Seq(S) /\ Len(Tail(s)) = Len(s) - 1
         /\ \A i \in DOMAIN Tail(s) : i + 1 \in DOMAIN s /\ Tail(s)[i] = s[i + 1] /\ i \in Nat
         /\ \A i \in DOMAIN s : i = 1 \/ (i - 1 \in DOMAIN Tail(s) /\ s[i] = Tail(s)[i - 1])
         /\ Len(s) <= 1 => Tail(s) = <<>>
  OBVIOUS

LEMMA ElementsCut ==
  ASSUME NEW S, NEW s \in Seq(S), NEW k \in 0 .. Len(s)
  PROVE  /\ SubSeq(s, 1, k) \in Seq(S) /\ Len(SubSeq(s, 1, k)) = k
         /\ DOMAIN SubSeq(s, 1, k) = 1 .. k /\ 1 .. k \subseteq DOMAIN s
         /\ \A i \in 1 .. k : SubSeq(s, 1, k)[i] = s[i]
         /\ SubSeq(s, 1, k) # <<>> => s # <<>> /\ Head(SubSeq(s, 1, k)) = Head(s)
  OBVIOUS

LEMMA InARow ==
  ASSUME NEW S, NEW p \in Seq(S), NEW q \in Seq(S), NEW e \in S
  PROVE  /\ <<>> \o q = q /\ p \o <<>> = p /\ p \o q \in Seq(S)
         /\ p \o Append(q, e) = Append(p \o q, e)
         /\ q # <<>> => Append(p, Head(q)) \o Tail(q) = p \o q
         /\ p # <<>> => Head(p \o q) = Head(p) /\ Tail(p \o q) = Tail(p) \o q /\ p \o q # <<>>
<1>1. <<>> \o q = q /\ p \o <<>> = p /\ p \o q \in Seq(S)
  OBVIOUS
<1>2. p \o Append(q, e) = Append(p \o q, e)
  OBVIOUS
<1>3. q # <<>> => Append(p, Head(q)) \o Tail(q) = p \o q
  OBVIOUS
<1>4. p # <<>> => Head(p \o q) = Head(p) /\ Tail(p \o q) = Tail(p) \o q /\ p \o q # <<>>
  OBVIOUS
<1> QED BY <1>1, <1>2, <1>3, <1>4

LEMMA CutBehind ==
  ASSUME NEW S, NEW p \in Seq(S), NEW q \in Seq(S), NEW k \in 0 .. Len(q)
  PROVE  p \o SubSeq(q, 1, k) = SubSeq(p \o q, 1, Len(p) + k) /\ Len(p) + k \in 0 .. Len(p \o q)
  OBVIOUS

-----------------------------------------------------------------------------
(* InTurn and Full, when the line, the log or the position changes. *)
LEMMA OthersDoNotCount ==
  ASSUME NEW line \in Seq(Frames), NEW log, NEW p, InTurn(line, log, p), NEW f, f.op # "message"
  PROVE  /\ InTurn(Append(line, f), log, p)
         /\ Full(line, log, p) => Full(Append(line, f), log, p)
<1> DEFINE longer == Append(line, f)
<1>1. /\ DOMAIN longer = DOMAIN line \cup {Len(line) + 1}
      /\ \A i \in DOMAIN line : longer[i] = line[i] /\ i < Len(line) + 1
      /\ longer[Len(line) + 1] = f
  BY ElementsGrow
<1> HIDE DEF longer
<1>2. ASSUME NEW i \in DOMAIN longer, longer[i].op = "message"
      PROVE  i \in DOMAIN line /\ longer[i] = line[i]
  BY <1>1, <1>2
<1>3. ASSUME NEW i \in DOMAIN longer, longer[i].op = "message"
      PROVE  /\ longer[i].seq \in p + 1 .. Len(log) /\ longer[i].id = log[longer[i].seq]
             /\ \A n \in p + 1 .. longer[i].seq - 1 :
                  \E k \in DOMAIN longer : k < i /\ longer[k].op = "message" /\ longer[k].seq = n
             /\ \A k \in DOMAIN longer : k < i /\ longer[k].op = "message" => longer[k].seq < longer[i].seq
  <2>1. i \in DOMAIN line /\ longer[i] = line[i] /\ line[i].op = "message"
    BY <1>2, <1>3
  <2>2. \A n \in p + 1 .. longer[i].seq - 1 :
          \E k \in DOMAIN longer : k < i /\ longer[k].op = "message" /\ longer[k].seq = n
    <3>1. ASSUME NEW n \in p + 1 .. line[i].seq - 1
          PROVE  \E k \in DOMAIN longer : k < i /\ longer[k].op = "message" /\ longer[k].seq = n
      <4>1. PICK k \in DOMAIN line : k < i /\ line[k].op = "message" /\ line[k].seq = n
        BY <2>1 DEF InTurn
      <4> QED BY <1>1, <4>1
    <3> QED BY <2>1, <3>1
  <2> QED BY <1>2, <2>1, <2>2 DEF InTurn
<1>4. InTurn(longer, log, p)
  BY <1>3 DEF InTurn
<1>5. ASSUME Full(line, log, p) PROVE Full(longer, log, p)
  BY <1>1, <1>5 DEF Full
<1> QED BY <1>4, <1>5 DEF longer

LEMMA LogGoesOn ==
  ASSUME NEW line \in Seq(Frames), NEW log \in Seq(Nat), NEW p \in Nat, InTurn(line, log, p), NEW m
  PROVE  InTurn(line, Append(log, m), p)
<1>1. /\ Len(Append(log, m)) = Len(log) + 1
      /\ \A n \in 1 .. Len(log) : Append(log, m)[n] = log[n]
  OBVIOUS
<1>2. ASSUME NEW i \in DOMAIN line, line[i].op = "message"
      PROVE  /\ line[i].seq \in p + 1 .. Len(Append(log, m))
             /\ line[i].id = Append(log, m)[line[i].seq]
  <2>1. line[i].seq \in p + 1 .. Len(log) /\ line[i].id = log[line[i].seq]
    BY <1>2 DEF InTurn
  <2>2. line[i].seq \in 1 .. Len(log)
    BY <2>1
  <2> QED BY <1>1, <2>1, <2>2
<1> QED BY <1>2 DEF InTurn

LEMMA PushIsNext ==
  ASSUME NEW line \in Seq(Frames), NEW log \in Seq(Nat), NEW p \in 0 .. Len(log),
         InTurn(line, log, p), Full(line, log, p), NEW m \in Nat
  PROVE  LET longer == Append(line, Push(m, Len(log) + 1)) IN
         InTurn(longer, Append(log, m), p) /\ Full(longer, Append(log, m), p)
<1> DEFINE f      == Push(m, Len(log) + 1)
           longer == Append(line, f)
           more   == Append(log, m)
<1>1. /\ DOMAIN longer = DOMAIN line \cup {Len(line) + 1}
      /\ \A i \in DOMAIN line : longer[i] = line[i] /\ i < Len(line) + 1
      /\ longer[Len(line) + 1] = f
  BY ElementsGrow
<1>2. f.op = "message" /\ f.id = m /\ f.seq = Len(log) + 1
  BY DEF Push
<1>3. Len(more) = Len(log) + 1 /\ more[Len(log) + 1] = m
  OBVIOUS
<1>4. InTurn(line, more, p)
  BY LogGoesOn
<1> HIDE DEF f, longer, more
<1>5. \A n \in p + 1 .. Len(log) : \E k \in DOMAIN longer : k < Len(line) + 1 /\ longer[k].op = "message" /\ longer[k].seq = n
  <2> SUFFICES ASSUME NEW n \in p + 1 .. Len(log)
               PROVE  \E k \in DOMAIN longer : k < Len(line) + 1 /\ longer[k].op = "message" /\ longer[k].seq = n
    OBVIOUS
  <2>1. PICK k \in DOMAIN line : line[k].op = "message" /\ line[k].seq = n
    BY DEF Full
  <2> QED BY <1>1, <2>1
<1>6. \A k \in DOMAIN line : line[k].op = "message" => line[k].seq \in p + 1 .. Len(log)
  BY DEF InTurn
<1>7. InTurn(longer, more, p)
  <2>1. ASSUME NEW i \in DOMAIN longer, longer[i].op = "message"
        PROVE  /\ longer[i].seq \in p + 1 .. Len(more) /\ longer[i].id = more[longer[i].seq]
               /\ \A n \in p + 1 .. longer[i].seq - 1 :
                    \E k \in DOMAIN longer : k < i /\ longer[k].op = "message" /\ longer[k].seq = n
               /\ \A k \in DOMAIN longer : k < i /\ longer[k].op = "message" => longer[k].seq < longer[i].seq
    <3>1. CASE i = Len(line) + 1
      <4>1. longer[i] = f
        BY <1>1, <3>1
      <4>2. longer[i].seq \in p + 1 .. Len(more) /\ longer[i].id = more[longer[i].seq]
        BY <1>2, <1>3, <4>1
      <4>3. \A n \in p + 1 .. longer[i].seq - 1 :
              \E k \in DOMAIN longer : k < i /\ longer[k].op = "message" /\ longer[k].seq = n
        BY <1>2, <1>5, <3>1, <4>1
      <4>4. ASSUME NEW k \in DOMAIN longer, k < i, longer[k].op = "message"
            PROVE  longer[k].seq < longer[i].seq
        <5>1. k \in DOMAIN line /\ longer[k] = line[k]
          BY <1>1, <3>1, <4>4
        <5>2. line[k].seq \in p + 1 .. Len(log)
          BY <1>6, <4>4, <5>1
        <5> QED BY <1>2, <4>1, <5>1, <5>2
      <4> QED BY <4>2, <4>3, <4>4
    <3>2. CASE i \in DOMAIN line
      <4>1. longer[i] = line[i] /\ line[i].op = "message"
        BY <1>1, <2>1, <3>2
      <4>2. line[i].seq \in p + 1 .. Len(more) /\ line[i].id = more[line[i].seq]
        BY <1>4, <3>2, <4>1 DEF InTurn
      <4>3. ASSUME NEW n \in p + 1 .. line[i].seq - 1
            PROVE  \E k \in DOMAIN longer : k < i /\ longer[k].op = "message" /\ longer[k].seq = n
        <5>1. PICK k \in DOMAIN line : k < i /\ line[k].op = "message" /\ line[k].seq = n
          BY <1>4, <3>2, <4>1 DEF InTurn
        <5> QED BY <1>1, <5>1
      <4>4. ASSUME NEW k \in DOMAIN longer, k < i, longer[k].op = "message"
            PROVE  longer[k].seq < longer[i].seq
        <5>1. k \in DOMAIN line /\ longer[k] = line[k]
          BY <1>1, <3>2, <4>4
        <5> QED BY <1>4, <3>2, <4>1, <4>4, <5>1 DEF InTurn
      <4> QED BY <4>1, <4>2, <4>3, <4>4
    <3> QED BY <1>1, <3>1, <3>2
  <2> QED BY <2>1 DEF InTurn
<1>8. Full(longer, more, p)
  <2>1. ASSUME NEW n \in p + 1 .. Len(more)
        PROVE  \E k \in DOMAIN longer : longer[k].op = "message" /\ longer[k].seq = n
    <3>1. CASE n = Len(log) + 1
      BY <1>1, <1>2, <3>1
    <3>2. CASE n \in p + 1 .. Len(log)
      BY <1>5, <3>2
    <3> QED BY <1>3, <3>1, <3>2
  <2> QED BY <2>1 DEF Full
<1> QED BY <1>7, <1>8 DEF f, longer, more

LEMMA CutInTurn ==
  ASSUME NEW line \in Seq(Frames), NEW log, NEW p, InTurn(line, log, p), NEW k \in 0 .. Len(line)
  PROVE  InTurn(SubSeq(line, 1, k), log, p)
<1> DEFINE l == SubSeq(line, 1, k)
<1>1. /\ DOMAIN l = 1 .. k /\ 1 .. k \subseteq DOMAIN line
      /\ \A i \in 1 .. k : l[i] = line[i]
  BY ElementsCut
<1>2. \A i \in 1 .. k, j \in DOMAIN line : j < i => j \in 1 .. k
  OBVIOUS
<1> HIDE DEF l
<1>3. ASSUME NEW i \in DOMAIN l, l[i].op = "message"
      PROVE  /\ l[i].seq \in p + 1 .. Len(log) /\ l[i].id = log[l[i].seq]
             /\ \A n \in p + 1 .. l[i].seq - 1 :
                  \E j \in DOMAIN l : j < i /\ l[j].op = "message" /\ l[j].seq = n
             /\ \A j \in DOMAIN l : j < i /\ l[j].op = "message" => l[j].seq < l[i].seq
  <2>1. i \in DOMAIN line /\ l[i] = line[i] /\ line[i].op = "message"
    BY <1>1, <1>3
  <2>2. ASSUME NEW n \in p + 1 .. line[i].seq - 1
        PROVE  \E j \in DOMAIN l : j < i /\ l[j].op = "message" /\ l[j].seq = n
    <3>1. PICK j \in DOMAIN line : j < i /\ line[j].op = "message" /\ line[j].seq = n
      BY <2>1 DEF InTurn
    <3> QED BY <1>1, <1>2, <3>1
  <2>3. ASSUME NEW j \in DOMAIN l, j < i, l[j].op = "message"
        PROVE  l[j].seq < l[i].seq
    <3>1. j \in DOMAIN line /\ l[j] = line[j]
      BY <1>1
    <3> QED BY <2>1, <2>3, <3>1 DEF InTurn
  <2>4. line[i].seq \in p + 1 .. Len(log) /\ line[i].id = log[line[i].seq]
    BY <2>1 DEF InTurn
  <2> QED BY <2>1, <2>2, <2>3, <2>4
<1>4. InTurn(l, log, p)
  BY <1>3 DEF InTurn
<1> QED BY <1>4 DEF l
LEMMA FirstIsOther ==
  ASSUME NEW line \in Seq(Frames), NEW log, NEW p, InTurn(line, log, p), line # <<>>,
         Head(line).op # "message"
  PROVE  /\ InTurn(Tail(line), log, p)
         /\ Full(line, log, p) => Full(Tail(line), log, p)
<1> DEFINE l == Tail(line)
<1>1. /\ Head(line) = line[1] /\ 1 \in DOMAIN line
      /\ \A i \in DOMAIN l : i + 1 \in DOMAIN line /\ l[i] = line[i + 1] /\ i \in Nat
      /\ \A i \in DOMAIN line : i = 1 \/ (i - 1 \in DOMAIN l /\ line[i] = l[i - 1])
      /\ DOMAIN line \subseteq Nat
  BY ElementsShrink
<1> HIDE DEF l
<1>2. \A k \in DOMAIN line : line[k].op = "message" => k - 1 \in DOMAIN l /\ line[k] = l[k - 1]
  BY <1>1
<1>3. ASSUME NEW i \in DOMAIN l, l[i].op = "message"
      PROVE  /\ l[i].seq \in p + 1 .. Len(log) /\ l[i].id = log[l[i].seq]
             /\ \A n \in p + 1 .. l[i].seq - 1 :
                  \E j \in DOMAIN l : j < i /\ l[j].op = "message" /\ l[j].seq = n
             /\ \A j \in DOMAIN l : j < i /\ l[j].op = "message" => l[j].seq < l[i].seq
  <2>1. i + 1 \in DOMAIN line /\ l[i] = line[i + 1] /\ line[i + 1].op = "message" /\ i \in Nat
    BY <1>1, <1>3
  <2>2. ASSUME NEW n \in p + 1 .. line[i + 1].seq - 1
        PROVE  \E j \in DOMAIN l : j < i /\ l[j].op = "message" /\ l[j].seq = n
    <3>1. PICK k \in DOMAIN line : k < i + 1 /\ line[k].op = "message" /\ line[k].seq = n
      BY <2>1 DEF InTurn
    <3>2. k - 1 \in DOMAIN l /\ l[k - 1] = line[k] /\ k - 1 < i
      BY <1>1, <1>2, <2>1, <3>1
    <3> QED BY <3>1, <3>2
  <2>3. ASSUME NEW j \in DOMAIN l, j < i, l[j].op = "message"
        PROVE  l[j].seq < l[i].seq
    <3>1. j + 1 \in DOMAIN line /\ l[j] = line[j + 1] /\ j + 1 < i + 1
      BY <1>1, <2>1, <2>3
    <3> QED BY <2>1, <2>3, <3>1 DEF InTurn
  <2>4. line[i + 1].seq \in p + 1 .. Len(log) /\ line[i + 1].id = log[line[i + 1].seq]
    BY <2>1 DEF InTurn
  <2> QED BY <2>1, <2>2, <2>3, <2>4
<1>4. InTurn(l, log, p)
  BY <1>3 DEF InTurn
<1>5. ASSUME Full(line, log, p) PROVE Full(l, log, p)
  <2>1. ASSUME NEW n \in p + 1 .. Len(log) PROVE \E j \in DOMAIN l : l[j].op = "message" /\ l[j].seq = n
    <3>1. PICK k \in DOMAIN line : line[k].op = "message" /\ line[k].seq = n
      BY <1>5 DEF Full
    <3> QED BY <1>2, <3>1
  <2> QED BY <2>1 DEF Full
<1> QED BY <1>4, <1>5 DEF l

LEMMA FirstIsPush ==
  ASSUME NEW line \in Seq(Frames), NEW log \in Seq(Nat), NEW p \in Nat, InTurn(line, log, p),
         line # <<>>, Head(line).op = "message"
  PROVE  /\ Head(line).seq = p + 1 /\ p + 1 \in DOMAIN log /\ Head(line).id = log[p + 1]
         /\ InTurn(Tail(line), log, p + 1)
         /\ Full(line, log, p) => Full(Tail(line), log, p + 1)
<1> DEFINE l == Tail(line)
<1>1. /\ Head(line) = line[1] /\ 1 \in DOMAIN line
      /\ \A i \in DOMAIN l : i + 1 \in DOMAIN line /\ l[i] = line[i + 1] /\ i \in Nat
      /\ \A i \in DOMAIN line : i = 1 \/ (i - 1 \in DOMAIN l /\ line[i] = l[i - 1])
      /\ DOMAIN line \subseteq Nat /\ \A k \in DOMAIN line : ~(k < 1)
  BY ElementsShrink
<1> HIDE DEF l
<1>2. line[1].seq = p + 1 /\ p + 1 \in DOMAIN log /\ line[1].id = log[p + 1]
  <2>1. /\ line[1].seq \in p + 1 .. Len(log) /\ line[1].id = log[line[1].seq]
        /\ \A n \in p + 1 .. line[1].seq - 1 : \E k \in DOMAIN line : k < 1
    BY <1>1 DEF InTurn
  <2>2. p + 1 \notin p + 1 .. line[1].seq - 1
    BY <1>1, <2>1
  <2> QED BY <2>1, <2>2
<1>3. ASSUME NEW k \in DOMAIN line, line[k].op = "message", k # 1
      PROVE  k - 1 \in DOMAIN l /\ line[k] = l[k - 1] /\ line[k].seq \in p + 2 .. Len(log)
  <2>1. 1 < k /\ k - 1 \in DOMAIN l /\ line[k] = l[k - 1]
    BY <1>1, <1>3
  <2>2. line[1].seq < line[k].seq /\ line[k].seq \in p + 1 .. Len(log)
    BY <1>1, <1>3, <2>1 DEF InTurn
  <2> QED BY <1>2, <2>1, <2>2
<1>4. ASSUME NEW i \in DOMAIN l, l[i].op = "message"
      PROVE  /\ l[i].seq \in p + 1 + 1 .. Len(log) /\ l[i].id = log[l[i].seq]
             /\ \A n \in p + 1 + 1 .. l[i].seq - 1 :
                  \E j \in DOMAIN l : j < i /\ l[j].op = "message" /\ l[j].seq = n
             /\ \A j \in DOMAIN l : j < i /\ l[j].op = "message" => l[j].seq < l[i].seq
  <2>1. /\ i + 1 \in DOMAIN line /\ l[i] = line[i + 1] /\ line[i + 1].op = "message"
        /\ i \in Nat /\ i + 1 # 1
    <3>1. i # 0
      BY DEF l
    <3> QED BY <1>1, <1>4, <3>1
  <2>2. ASSUME NEW n \in p + 1 + 1 .. line[i + 1].seq - 1
        PROVE  \E j \in DOMAIN l : j < i /\ l[j].op = "message" /\ l[j].seq = n
    <3>1. line[i + 1].seq \in Nat /\ n \in p + 1 .. line[i + 1].seq - 1 /\ n # p + 1
      <4>1. line[i + 1].seq \in p + 2 .. Len(log)
        BY <1>3, <2>1
      <4> QED BY <4>1
    <3>2. PICK k \in DOMAIN line : k < i + 1 /\ line[k].op = "message" /\ line[k].seq = n
      BY <2>1, <3>1 DEF InTurn
    <3>3. k # 1
      BY <1>2, <3>1, <3>2
    <3>4. k - 1 \in DOMAIN l /\ l[k - 1] = line[k] /\ k - 1 < i
      BY <1>1, <1>3, <2>1, <3>2, <3>3
    <3> QED BY <3>2, <3>4
  <2>3. ASSUME NEW j \in DOMAIN l, j < i, l[j].op = "message"
        PROVE  l[j].seq < l[i].seq
    <3>1. j + 1 \in DOMAIN line /\ l[j] = line[j + 1] /\ j + 1 < i + 1
      BY <1>1, <2>1, <2>3
    <3> QED BY <2>1, <2>3, <3>1 DEF InTurn
  <2>4. line[i + 1].seq \in p + 1 + 1 .. Len(log) /\ line[i + 1].id = log[line[i + 1].seq]
    <3>1. line[i + 1].seq \in p + 2 .. Len(log)
      BY <1>3, <2>1
    <3> QED BY <2>1, <3>1 DEF InTurn
  <2> QED BY <2>1, <2>2, <2>3, <2>4
<1>5. InTurn(l, log, p + 1)
  BY <1>4 DEF InTurn
<1>6. ASSUME Full(line, log, p) PROVE Full(l, log, p + 1)
  <2>1. ASSUME NEW n \in p + 1 + 1 .. Len(log) PROVE \E j \in DOMAIN l : l[j].op = "message" /\ l[j].seq = n
    <3>1. n \in p + 1 .. Len(log) /\ n # p + 1
      OBVIOUS
    <3>2. PICK k \in DOMAIN line : line[k].op = "message" /\ line[k].seq = n
      BY <1>6, <3>1 DEF Full
    <3>3. k # 1
      BY <1>2, <3>1, <3>2
    <3> QED BY <1>3, <3>1, <3>2, <3>3
  <2> QED BY <2>1 DEF Full
<1> QED BY <1>1, <1>2, <1>5, <1>6 DEF l

LEMMA ResumeIsInTurn ==
  ASSUME NEW log \in Seq(Nat), NEW p \in 0 .. Len(log), NEW f \in Frames, f.op # "message"
  PROVE  LET l == <<f>> \o Pushes(log, p) IN
         l \in Seq(Frames) /\ l # <<>> /\ Head(l) = f /\ InTurn(l, log, p) /\ Full(l, log, p)
         /\ \A i \in DOMAIN l : i = 1 \/ l[i].op = "message"
<1> DEFINE q == Pushes(log, p)
           l == <<f>> \o q
<1>1. Len(log) - p \in Nat /\ p \in Nat
  OBVIOUS
<1>2. q \in Seq(Frames) /\ Len(q) = Len(log) - p /\ \A i \in 1 .. Len(log) - p : q[i] = Push(log[p + i], p + i)
  <2>1. \A i \in 1 .. Len(log) - p : Push(log[p + i], p + i) \in Frames
    BY DEF Push, Frames
  <2> QED BY <1>1, <2>1 DEF Pushes
<1> HIDE DEF q
<1>3. /\ l \in Seq(Frames) /\ l # <<>> /\ Head(l) = f
      /\ DOMAIN l = 1 .. Len(log) - p + 1 /\ l[1] = f
      /\ \A i \in 2 .. Len(log) - p + 1 : l[i] = q[i - 1]
  <2>1. /\ l \in Seq(Frames) /\ l # <<>> /\ Head(l) = f /\ Len(l) = Len(q) + 1 /\ l[1] = f
        /\ \A i \in 2 .. Len(q) + 1 : l[i] = q[i - 1]
    BY <1>2
  <2>2. Len(q) = Len(log) - p /\ DOMAIN l = 1 .. Len(l)
    BY <1>2, <2>1
  <2> QED BY <2>1, <2>2
<1> HIDE DEF l
<1>4. \A i \in 2 .. Len(log) - p + 1 :
        /\ l[i].op = "message" /\ l[i].seq = p + (i - 1) /\ l[i].id = log[p + (i - 1)]
        /\ i \in DOMAIN l
  <2> SUFFICES ASSUME NEW i \in 2 .. Len(log) - p + 1
               PROVE  /\ l[i].op = "message" /\ l[i].seq = p + (i - 1) /\ l[i].id = log[p + (i - 1)]
                      /\ i \in DOMAIN l
    OBVIOUS
  <2>1. i - 1 \in 1 .. Len(log) - p /\ l[i] = q[i - 1] /\ i \in DOMAIN l
    BY <1>1, <1>3
  <2>2. l[i] = Push(log[p + (i - 1)], p + (i - 1))
    BY <1>2, <2>1
  <2> QED BY <2>1, <2>2 DEF Push
<1>5. \A i \in DOMAIN l : i = 1 \/ i \in 2 .. Len(log) - p + 1
  BY <1>1, <1>3
<1>6. ASSUME NEW i \in DOMAIN l, l[i].op = "message"
      PROVE  /\ l[i].seq \in p + 1 .. Len(log) /\ l[i].id = log[l[i].seq]
             /\ \A n \in p + 1 .. l[i].seq - 1 :
                  \E j \in DOMAIN l : j < i /\ l[j].op = "message" /\ l[j].seq = n
             /\ \A j \in DOMAIN l : j < i /\ l[j].op = "message" => l[j].seq < l[i].seq
  <2>1. i \in 2 .. Len(log) - p + 1
    BY <1>3, <1>5, <1>6
  <2>2. l[i].seq = p + (i - 1) /\ l[i].id = log[l[i].seq] /\ l[i].seq \in p + 1 .. Len(log)
    BY <1>1, <1>4, <2>1
  <2>3. ASSUME NEW n \in p + 1 .. l[i].seq - 1
        PROVE  \E j \in DOMAIN l : j < i /\ l[j].op = "message" /\ l[j].seq = n
    <3>1. n \in p + 1 .. p + (i - 1) - 1 /\ i \in 2 .. Len(log) - p + 1 /\ p \in Nat
      BY <1>1, <2>1, <2>2
    <3>2. n - p + 1 \in 2 .. Len(log) - p + 1 /\ n - p + 1 < i /\ p + ((n - p + 1) - 1) = n
      BY <1>1, <3>1
    <3> QED BY <1>4, <3>2
  <2>4. ASSUME NEW j \in DOMAIN l, j < i, l[j].op = "message"
        PROVE  l[j].seq < l[i].seq
    <3>1. j \in 2 .. Len(log) - p + 1
      BY <1>3, <1>5, <2>4
    <3>2. l[j].seq = p + (j - 1)
      BY <1>4, <3>1
    <3> QED BY <1>1, <2>1, <2>2, <2>4, <3>1, <3>2
  <2> QED BY <2>2, <2>3, <2>4
<1>7. Full(l, log, p)
  <2>1. ASSUME NEW n \in p + 1 .. Len(log) PROVE \E j \in DOMAIN l : l[j].op = "message" /\ l[j].seq = n
    <3>1. n - p + 1 \in 2 .. Len(log) - p + 1 /\ p + ((n - p + 1) - 1) = n
      BY <1>1
    <3> QED BY <1>4, <3>1
  <2> QED BY <2>1 DEF Full
<1>8. InTurn(l, log, p)
  BY <1>6 DEF InTurn
<1> QED BY <1>3, <1>4, <1>5, <1>7, <1>8 DEF l, q

LEMMA OneFrame ==
  ASSUME NEW f \in Frames, f.op # "message", NEW log, NEW p
  PROVE  /\ <<f>> \in Seq(Frames) /\ <<f>> # <<>> /\ Head(<<f>>) = f /\ Len(<<f>>) = 1
         /\ DOMAIN <<f>> = {1} /\ <<f>>[1] = f /\ Tail(<<f>>) = <<>>
         /\ InTurn(<<f>>, log, p)
  BY DEF InTurn

LEMMA NoFrames ==
  ASSUME NEW log, NEW p
  PROVE  <<>> \in Seq(Frames) /\ InTurn(<<>>, log, p)
  BY DEF InTurn
-----------------------------------------------------------------------------
(* PositionInv, when the log, the session or the position changes. *)
LEMMA ContainsIsElement ==
  ASSUME NEW S, NEW s \in Seq(S), NEW e
  PROVE  Contains(s, e) <=> \E i \in DOMAIN s : s[i] = e
  BY DEF Contains

LEMMA LogTypes ==
  ASSUME PositionInv
  PROVE  /\ gateway.log \in Seq(1 .. sent) /\ gateway.log \in Seq(Nat) /\ gateway.session \in Nat
         /\ gateway.valid \in BOOLEAN /\ gateway.attached \in BOOLEAN
         /\ taken \in Seq(1 .. sent) /\ taken \in Seq(Nat)
         /\ lastSeq \in 0 .. Len(gateway.log) /\ sent \in Nat
<1>1. /\ gateway.log \in Seq(1 .. sent) /\ gateway.session \in Nat
      /\ gateway.valid \in BOOLEAN /\ gateway.attached \in BOOLEAN
      /\ taken \in Seq(1 .. sent) /\ sent \in Nat
      /\ lastSeq \in Nat /\ lastSeq <= Len(gateway.log)
  BY DEF PositionInv, Types
<1>2. 1 .. sent \subseteq Nat
  BY <1>1
<1>3. gateway.log \in Seq(Nat) /\ taken \in Seq(Nat)
  BY <1>1, <1>2, SeqMonotonic
<1> QED BY <1>1, <1>3

Gateways == [session : Nat, valid : BOOLEAN, attached : BOOLEAN, log : Seq(1 .. sent)]

LEMMA PositionStays ==
  ASSUME PositionInv, UNCHANGED <<session, lastSeq, recent, taken, sent>>,
         asked' \in [op : {"none", "resume", "identify"}, session : Nat, seq : Nat],
         gateway' \in Gateways, gateway'.session = gateway.session,
         gateway'.log = gateway.log, gateway'.valid => gateway.valid
  PROVE  PositionInv' /\ (Ahead => Ahead')
<1>1. Types'
  BY DEF PositionInv, Types, Gateways
<1>2. Window'
  BY DEF PositionInv, Window
<1>3. TakenOnceInOrder'
  BY DEF PositionInv, TakenOnceInOrder
<1>4. LogInOrder'
  BY DEF PositionInv, LogInOrder
<1>5. Ahead => Ahead'
  BY DEF Ahead
<1> QED BY <1>1, <1>2, <1>3, <1>4, <1>5 DEF PositionInv

LEMMA LogGrows ==
  ASSUME PositionInv, NEW m, gateway' = [gateway EXCEPT !.log = Append(@, m)],
         UNCHANGED <<session, lastSeq, recent, taken, asked>>, gateway.valid,
         \/ sent' = sent + 1 /\ m = sent'
         \/ sent' = sent /\ \E i \in DOMAIN gateway.log : m = gateway.log[i]
  PROVE  PositionInv' /\ (Ahead => Ahead')
<1> DEFINE log == gateway.log
           n   == Len(log) + 1
<1>1. /\ gateway'.log = Append(log, m) /\ gateway'.session = gateway.session
      /\ gateway'.valid = gateway.valid /\ gateway'.attached = gateway.attached
      /\ gateway \in Gateways
  BY DEF PositionInv, Types, Gateways
<1>2. log \in Seq(Nat) /\ log \in Seq(1 .. sent) /\ taken \in Seq(1 .. sent) /\ sent \in Nat
      /\ lastSeq \in 0 .. Len(log)
  BY LogTypes
<1>3. /\ DOMAIN gateway'.log = 1 .. n /\ Len(gateway'.log) = n /\ DOMAIN log = 1 .. n - 1
      /\ \A i \in 1 .. n - 1 : gateway'.log[i] = log[i]
      /\ gateway'.log[n] = m
  BY <1>1, <1>2
<1>4. m \in 1 .. sent' /\ sent' \in Nat /\ 1 .. sent \subseteq 1 .. sent'
  BY <1>2
<1>5. gateway'.log \in Seq(1 .. sent') /\ taken \in Seq(1 .. sent')
  <2>1. log \in Seq(1 .. sent') /\ taken \in Seq(1 .. sent')
    BY <1>2, <1>4, SeqMonotonic
  <2> QED BY <1>1, <1>4, <2>1
<1> HIDE DEF log
<1>6. Types'
  BY <1>1, <1>4, <1>5 DEF PositionInv, Types, Gateways
<1>7. ASSUME NEW i \in 1 .. n - 1, Repeats(log, i) PROVE Repeats(gateway'.log, i)
  <2>1. PICK k \in 1 .. i - 1 : log[k] = log[i]
    BY <1>7 DEF Repeats
  <2>2. k \in 1 .. n - 1
    BY <1>2
  <2>3. gateway'.log[k] = gateway'.log[i]
    BY <1>3, <2>1, <2>2
  <2> QED BY <2>3 DEF Repeats
<1>8. \/ Repeats(gateway'.log, n)
      \/ (\A k \in 1 .. n - 1 : gateway'.log[k] < m) /\ (\A i \in DOMAIN taken : taken[i] < m)
  <2>1. CASE sent' = sent + 1 /\ m = sent'
    <3>1. \A k \in 1 .. n - 1 : log[k] \in 1 .. sent
      BY <1>2, <1>3
    <3>2. \A i \in DOMAIN taken : taken[i] \in 1 .. sent
      BY <1>2
    <3>3. \A k \in 1 .. n - 1 : log[k] < m /\ gateway'.log[k] = log[k]
      BY <1>2, <1>3, <2>1, <3>1
    <3>4. \A i \in DOMAIN taken : taken[i] < m
      BY <1>2, <2>1, <3>2
    <3> QED BY <3>3, <3>4
  <2>2. CASE \E i \in DOMAIN log : m = log[i]
    BY <1>2, <1>3, <2>2 DEF Repeats
  <2> QED BY <2>1, <2>2 DEF log
<1>9. LogInOrder'
  <2>1. ASSUME NEW i \in 1 .. n
        PROVE  Repeats(gateway'.log, i) \/ \A k \in 1 .. i - 1 : gateway'.log[k] < gateway'.log[i]
    <3>1. CASE i = n
      BY <1>3, <1>8, <3>1
    <3>2. CASE i \in 1 .. n - 1
      <4>1. Repeats(log, i) \/ \A k \in 1 .. i - 1 : log[k] < log[i]
        BY <1>3, <3>2 DEF PositionInv, LogInOrder, log
      <4>2. \A k \in 1 .. i - 1 : k \in 1 .. n - 1
        BY <1>2, <3>2
      <4> QED BY <1>3, <1>7, <3>2, <4>1, <4>2
    <3>3. i = n \/ i \in 1 .. n - 1
      BY <1>2
    <3> QED BY <3>1, <3>2, <3>3
  <2> QED BY <1>3, <2>1 DEF LogInOrder
<1>10. Ahead => Ahead'
  <2> SUFFICES ASSUME Ahead PROVE Ahead'
    OBVIOUS
  <2>1. ASSUME NEW i \in lastSeq + 1 .. n
        PROVE  Repeats(gateway'.log, i) \/ \A k \in DOMAIN taken : taken[k] < gateway'.log[i]
    <3>1. CASE i = n
      BY <1>3, <1>8, <3>1
    <3>2. CASE i \in lastSeq + 1 .. n - 1
      <4>1. Repeats(log, i) \/ \A k \in DOMAIN taken : taken[k] < log[i]
        <5>1. i \in lastSeq + 1 .. Len(log)
          BY <1>2, <3>2
        <5> QED BY <5>1 DEF Ahead, log
      <4>2. i \in 1 .. n - 1
        BY <1>2, <3>2
      <4> QED BY <1>3, <1>7, <4>1, <4>2
    <3>3. i = n \/ i \in lastSeq + 1 .. n - 1
      BY <1>2
    <3> QED BY <3>1, <3>2, <3>3
  <2> QED BY <1>3, <2>1 DEF Ahead
<1>11. TakenOnceInOrder'
  BY DEF PositionInv, TakenOnceInOrder
<1>12. Window'
  BY DEF PositionInv, Window
<1>13. \A i \in 1 .. lastSeq : Contains(taken, gateway'.log[i])
  <2>1. \A i \in 1 .. lastSeq : i \in 1 .. n - 1 /\ Contains(taken, log[i])
    BY <1>2 DEF PositionInv, log
  <2> QED BY <1>3, <2>1
<1>14. lastSeq <= Len(gateway'.log)
  BY <1>2, <1>3
<1>15. gateway.session # 0
  BY DEF PositionInv
<1> QED BY <1>1, <1>6, <1>9, <1>10, <1>11, <1>12, <1>13, <1>14, <1>15 DEF PositionInv

(* A new session begins with an empty log, at position zero. *)
LEMMA SessionBegins ==
  ASSUME PositionInv, session = 0,
         gateway' = [session |-> gateway.session + 1, valid |-> TRUE, attached |-> TRUE, log |-> <<>>],
         UNCHANGED <<session, lastSeq, recent, taken, sent>>,
         asked' \in [op : {"none", "resume", "identify"}, session : Nat, seq : Nat]
  PROVE  PositionInv' /\ Ahead'
<1>1. lastSeq = 0 /\ gateway.session \in Nat /\ sent \in Nat
  BY LogTypes DEF PositionInv
<1>2. gateway'.log = <<>> /\ gateway'.session = gateway.session + 1 /\ Len(gateway'.log) = 0
      /\ gateway'.session # 0 /\ DOMAIN gateway'.log = {}
  BY <1>1
<1>3. Types'
  BY <1>1 DEF PositionInv, Types
<1>4. Window'
  BY DEF PositionInv, Window
<1>5. TakenOnceInOrder'
  BY DEF PositionInv, TakenOnceInOrder
<1>6. LogInOrder' /\ Ahead'
  BY <1>1, <1>2 DEF LogInOrder, Ahead
<1> QED BY <1>1, <1>2, <1>3, <1>4, <1>5, <1>6 DEF PositionInv

(* The client forgets its session, or is told which one it has. *)
LEMMA SessionChanges ==
  ASSUME PositionInv, UNCHANGED <<recent, taken, sent>>,
         asked' \in [op : {"none", "resume", "identify"}, session : Nat, seq : Nat],
         gateway' \in Gateways, gateway'.session = gateway.session,
         gateway'.log = gateway.log, gateway'.valid => gateway.valid,
         \/ session' = 0 /\ lastSeq' = 0
         \/ session = 0 /\ session' = gateway.session /\ lastSeq' = lastSeq
  PROVE  PositionInv'
<1>1. session' \in {0, gateway.session} /\ (session' = 0 => lastSeq' = 0)
      /\ (lastSeq' = 0 \/ lastSeq' = lastSeq)
  BY DEF PositionInv
<1>2. gateway.session \in Nat /\ lastSeq \in Nat /\ lastSeq <= Len(gateway.log) /\ Len(gateway.log) \in Nat
  BY LogTypes
<1>3. Types'
  BY <1>1, <1>2 DEF PositionInv, Types, Gateways
<1>4. Window'
  BY DEF PositionInv, Window
<1>5. TakenOnceInOrder'
  BY DEF PositionInv, TakenOnceInOrder
<1>6. LogInOrder'
  BY DEF PositionInv, LogInOrder
<1>7. lastSeq' <= Len(gateway.log) /\ \A i \in 1 .. lastSeq' : Contains(taken, gateway.log[i])
  <2>1. CASE lastSeq' = 0
    BY <1>2, <2>1
  <2>2. CASE lastSeq' = lastSeq
    BY <1>2, <2>2 DEF PositionInv
  <2> QED BY <1>1, <2>1, <2>2
<1> QED BY <1>1, <1>3, <1>4, <1>5, <1>6, <1>7 DEF PositionInv
-----------------------------------------------------------------------------
(* The remembered ids, and the messages taken. *)
LEMMA WindowMoves ==
  ASSUME SocketAssumption, taken \in Seq(Nat), Window, NEW m \in Nat, taken' = Append(taken, m),
         \/ recent' = IF Len(Append(recent, m)) > Recent THEN Tail(Append(recent, m))
                                                         ELSE Append(recent, m)
         \/ recent' = IF Len(recent) = Recent THEN Append(Tail(recent), m) ELSE Append(recent, m)
  PROVE  Window'
<1>1. /\ recent \in Seq(Nat) /\ Len(recent) <= Recent /\ Len(recent) <= Len(taken)
      /\ Len(recent) = Recent \/ Len(recent) = Len(taken)
      /\ \A i \in 1 .. Len(recent) : recent[i] = taken[Len(taken) - Len(recent) + i]
      /\ Len(recent) \in Nat /\ Len(taken) \in Nat /\ Recent \in Nat \ {0}
  BY DEF Window, SocketAssumption
<1>2. /\ Len(taken') = Len(taken) + 1 /\ taken'[Len(taken) + 1] = m
      /\ \A i \in 1 .. Len(taken) : taken'[i] = taken[i]
  OBVIOUS
<1>3. CASE Len(recent) = Recent
  <2>1. recent # <<>>
    BY <1>1, <1>3
  <2>2. recent' = Tail(Append(recent, m)) \/ recent' = Append(Tail(recent), m)
    <3>1. Len(Append(recent, m)) = Len(recent) + 1
      BY <1>1
    <3>2. Len(Append(recent, m)) > Recent
      BY <1>1, <1>3, <3>1
    <3> QED BY <1>3, <3>2
  <2>3. /\ recent' \in Seq(Nat) /\ Len(recent') = Len(recent) /\ recent'[Len(recent)] = m
        /\ \A i \in 1 .. Len(recent) - 1 : recent'[i] = recent[i + 1]
    <3>1. CASE recent' = Append(Tail(recent), m)
      BY <1>1, <2>1, <3>1
    <3>2. CASE recent' = Tail(Append(recent, m))
      <4>1. PICK s : s = Append(recent, m)
        OBVIOUS
      <4>2. /\ s \in Seq(Nat) /\ s # <<>> /\ Len(s) = Len(recent) + 1 /\ s[Len(recent) + 1] = m
            /\ \A i \in 1 .. Len(recent) : s[i] = recent[i]
        <5>1. /\ \A i \in DOMAIN recent : s[i] = recent[i]
              /\ s[Len(recent) + 1] = m /\ Len(s) = Len(recent) + 1 /\ s # <<>>
          <6>1. recent \in Seq(Nat)
            BY <1>1
          <6>2. /\ \A i \in DOMAIN recent : Append(recent, m)[i] = recent[i]
                /\ Append(recent, m)[Len(recent) + 1] = m
                /\ Len(Append(recent, m)) = Len(recent) + 1 /\ Append(recent, m) # <<>>
            BY <2>1, <6>1, ElementsGrow
          <6> QED BY <4>1, <6>2
        <5>2. s \in Seq(Nat) /\ DOMAIN recent = 1 .. Len(recent)
          BY <1>1, <4>1
        <5> QED BY <5>1, <5>2
      <4>3. recent' = Tail(s)
        BY <3>2, <4>1
      <4>4. /\ Tail(s) \in Seq(Nat) /\ Len(Tail(s)) = Len(recent)
            /\ \A i \in 1 .. Len(recent) : Tail(s)[i] = s[i + 1]
        BY <1>1, <4>2
      <4>5. Len(recent) \in 1 .. Len(recent) /\ \A i \in 1 .. Len(recent) - 1 : i + 1 \in 1 .. Len(recent) /\ i \in 1 .. Len(recent)
        BY <1>1, <1>3
      <4>6. recent'[Len(recent)] = m
        BY <4>2, <4>3, <4>4, <4>5
      <4>7. \A i \in 1 .. Len(recent) - 1 : recent'[i] = recent[i + 1]
        BY <4>2, <4>3, <4>4, <4>5
      <4> QED BY <4>3, <4>4, <4>6, <4>7
    <3> QED BY <2>2, <3>1, <3>2
  <2>4. ASSUME NEW i \in 1 .. Len(recent)
        PROVE  recent'[i] = taken'[Len(taken') - Len(recent') + i]
    <3>1. CASE i = Len(recent)
      <4>1. Len(taken') - Len(recent') + i = Len(taken) + 1
        BY <1>1, <1>2, <2>3, <3>1
      <4> QED BY <1>2, <2>3, <3>1, <4>1
    <3>2. CASE i \in 1 .. Len(recent) - 1
      <4>1. i + 1 \in 1 .. Len(recent)
        BY <1>1, <3>2
      <4>2. recent[i + 1] = taken[Len(taken) - Len(recent) + (i + 1)]
        BY <1>1, <4>1
      <4>3. /\ Len(taken) - Len(recent) + (i + 1) = Len(taken') - Len(recent') + i
            /\ Len(taken) - Len(recent) + (i + 1) \in 1 .. Len(taken)
        BY <1>1, <1>2, <2>3, <3>2
      <4>4. taken'[Len(taken) - Len(recent) + (i + 1)] = taken[Len(taken) - Len(recent) + (i + 1)]
        BY <1>2, <4>3
      <4> QED BY <2>3, <3>2, <4>2, <4>3, <4>4
    <3>3. i = Len(recent) \/ i \in 1 .. Len(recent) - 1
      BY <1>1
    <3> QED BY <3>1, <3>2, <3>3
  <2>5. Len(recent') = Recent /\ Len(recent') <= Len(taken') /\ recent' \in Seq(Nat)
    BY <1>1, <1>2, <1>3, <2>3
  <2>6. \A i \in 1 .. Len(recent') : recent'[i] = taken'[Len(taken') - Len(recent') + i]
    BY <2>3, <2>4
  <2>7. Len(recent') <= Recent
    BY <1>1, <2>5
  <2> QED BY <2>5, <2>6, <2>7 DEF Window
<1>4. CASE Len(recent) # Recent
  <2>1. recent' = Append(recent, m)
    <3>1. ~(Len(Append(recent, m)) > Recent)
      BY <1>1, <1>4
    <3> QED BY <1>4, <3>1
  <2>2. Len(recent) = Len(taken) /\ Len(recent) + 1 <= Recent
    BY <1>1, <1>4
  <2>3. /\ recent' \in Seq(Nat) /\ Len(recent') = Len(recent) + 1 /\ recent'[Len(recent) + 1] = m
        /\ \A i \in 1 .. Len(recent) : recent'[i] = recent[i]
    BY <1>1, <2>1
  <2>4. ASSUME NEW i \in 1 .. Len(recent) + 1
        PROVE  recent'[i] = taken'[Len(taken') - Len(recent') + i]
    <3>1. Len(taken') - Len(recent') + i = i /\ (i = Len(recent) + 1 \/ i \in 1 .. Len(recent))
      BY <1>1, <1>2, <2>2, <2>3
    <3>2. CASE i = Len(recent) + 1
      BY <1>2, <2>2, <2>3, <3>1, <3>2
    <3>3. CASE i \in 1 .. Len(recent)
      <4>1. recent[i] = taken[i] /\ taken'[i] = taken[i]
        <5>1. Len(taken) - Len(recent) + i = i
          BY <1>1, <2>2
        <5> QED BY <1>1, <1>2, <2>2, <3>3, <5>1
      <4> QED BY <2>3, <3>1, <3>3, <4>1
    <3> QED BY <3>1, <3>2, <3>3
  <2> QED BY <1>1, <1>2, <2>2, <2>3, <2>4 DEF Window
<1> QED BY <1>3, <1>4

(* What is remembered was taken, and what was taken and is not remembered  *)
(* is more than Recent messages ago.                                       *)
LEMMA WindowShows ==
  ASSUME SocketAssumption, taken \in Seq(Nat), Window, NEW m
  PROVE  /\ Contains(recent, m) => Contains(taken, m)
         /\ \A i \in DOMAIN taken : taken[i] = m /\ ~Contains(recent, m) => Len(taken) + 1 - i > Recent
<1>1. /\ recent \in Seq(Nat) /\ Len(recent) <= Recent /\ Len(recent) <= Len(taken)
      /\ Len(recent) = Recent \/ Len(recent) = Len(taken)
      /\ \A i \in 1 .. Len(recent) : recent[i] = taken[Len(taken) - Len(recent) + i]
      /\ Len(recent) \in Nat /\ Len(taken) \in Nat /\ Recent \in Nat \ {0}
  BY DEF Window, SocketAssumption
<1>2. ASSUME NEW i \in 1 .. Len(recent) PROVE Len(taken) - Len(recent) + i \in 1 .. Len(taken)
  BY <1>1
<1>3. Contains(recent, m) => Contains(taken, m)
  BY <1>1, <1>2 DEF Contains
<1>4. ASSUME NEW i \in DOMAIN taken, taken[i] = m, ~(Len(taken) + 1 - i > Recent)
      PROVE  Contains(recent, m)
  <2>1. i \in 1 .. Len(taken)
    OBVIOUS
  <2>2. i - (Len(taken) - Len(recent)) \in 1 .. Len(recent)
    <3>1. CASE Len(recent) = Recent
      <4>1. Len(taken) + 1 - i <= Recent
        BY <1>1, <1>4, <2>1
      <4> QED BY <1>1, <2>1, <3>1, <4>1
    <3>2. CASE Len(recent) = Len(taken)
      BY <1>1, <2>1, <3>2
    <3> QED BY <1>1, <3>1, <3>2
  <2>3. Len(taken) - Len(recent) + (i - (Len(taken) - Len(recent))) = i
    BY <1>1, <2>1
  <2>4. recent[i - (Len(taken) - Len(recent))] = m
    BY <1>1, <1>4, <2>2, <2>3
  <2> QED BY <2>2, <2>4 DEF Contains
<1> QED BY <1>3, <1>4

(* The next message of the session is taken, or was taken before. *)
LEMMA MessageIsTaken ==
  ASSUME SocketAssumption, PositionInv, Ahead, NEW m, NEW n, n = lastSeq + 1,
         n \in DOMAIN gateway.log, m = gateway.log[n], session = gateway.session,
         lastSeq' = n, UNCHANGED <<session, asked, sent>>,
         gateway' \in Gateways, gateway'.session = gateway.session,
         gateway'.log = gateway.log, gateway'.valid => gateway.valid,
         \/ Contains(recent, m) /\ UNCHANGED <<recent, taken>>
         \/ /\ ~Contains(recent, m) /\ taken' = Append(taken, m)
            /\ \/ recent' = IF Len(Append(recent, m)) > Recent THEN Tail(Append(recent, m))
                                                               ELSE Append(recent, m)
               \/ recent' = IF Len(recent) = Recent THEN Append(Tail(recent), m)
                                                    ELSE Append(recent, m)
  PROVE  PositionInv' /\ Ahead'
<1> DEFINE log == gateway.log
<1>1. /\ log \in Seq(1 .. sent) /\ log \in Seq(Nat) /\ taken \in Seq(1 .. sent) /\ taken \in Seq(Nat)
      /\ lastSeq \in Nat /\ n \in 1 .. Len(log) /\ m \in 1 .. sent /\ m \in Nat /\ sent \in Nat
  <2>1. /\ log \in Seq(1 .. sent) /\ log \in Seq(Nat) /\ taken \in Seq(1 .. sent) /\ taken \in Seq(Nat)
        /\ lastSeq \in Nat /\ sent \in Nat
    BY LogTypes
  <2> QED BY <2>1
<1>2. Window /\ TakenOnceInOrder /\ LogInOrder /\ \A i \in 1 .. lastSeq : Contains(taken, log[i])
  BY DEF PositionInv
<1>3. taken' \in Seq(1 .. sent) /\ taken' \in Seq(Nat) /\ Window'
  <2>1. CASE UNCHANGED <<recent, taken>>
    BY <1>1, <1>2, <2>1 DEF Window
  <2>2. CASE /\ ~Contains(recent, m) /\ taken' = Append(taken, m)
             /\ \/ recent' = IF Len(Append(recent, m)) > Recent THEN Tail(Append(recent, m))
                                                               ELSE Append(recent, m)
                \/ recent' = IF Len(recent) = Recent THEN Append(Tail(recent), m)
                                                    ELSE Append(recent, m)
    <3>1. Window'
      BY <1>1, <1>2, <2>2, WindowMoves
    <3> QED BY <1>1, <2>2, <3>1
  <2> QED BY <2>1, <2>2
<1>4. taken' = Append(taken, m) => /\ DOMAIN taken' = DOMAIN taken \cup {Len(taken) + 1}
                                   /\ \A i \in DOMAIN taken : taken'[i] = taken[i]
                                   /\ taken'[Len(taken) + 1] = m
  <2>1. taken \in Seq(Nat)
    BY <1>1
  <2> QED BY <2>1, ElementsGrow
<1>5. Contains(taken', m) /\ \A e : Contains(taken, e) => Contains(taken', e)
  <2>1. CASE Contains(recent, m) /\ UNCHANGED <<recent, taken>>
    <3>1. Contains(taken, m)
      BY <1>1, <1>2, <2>1, WindowShows
    <3> QED BY <2>1, <3>1
  <2>2. CASE taken' = Append(taken, m)
    <3>2. \A e : Contains(taken, e) <=> \E i \in DOMAIN taken : taken[i] = e
      BY <1>1, ContainsIsElement
    <3>3. \A e : Contains(taken', e) <=> \E i \in DOMAIN taken' : taken'[i] = e
      BY <1>3, ContainsIsElement
    <3> QED BY <1>4, <2>2, <3>2, <3>3
  <2> QED BY <2>1, <2>2
<1>6. \A i \in 1 .. lastSeq' : Contains(taken', log[i])
  <2>1. \A i \in 1 .. n : i = n \/ i \in 1 .. lastSeq
    BY <1>1
  <2> QED BY <1>2, <1>5, <2>1
<1>7. TakenOnceInOrder'
  <2>1. CASE UNCHANGED <<recent, taken>>
    BY <1>2, <2>1 DEF TakenOnceInOrder
  <2>2. CASE ~Contains(recent, m) /\ taken' = Append(taken, m)
    <3>1. /\ DOMAIN taken' = DOMAIN taken \cup {Len(taken) + 1} /\ DOMAIN taken = 1 .. Len(taken)
          /\ \A i \in DOMAIN taken : taken'[i] = taken[i]
          /\ taken'[Len(taken) + 1] = m /\ Len(taken) \in Nat
      <4>1. DOMAIN taken = 1 .. Len(taken) /\ Len(taken) \in Nat
        BY <1>1
      <4> QED BY <1>4, <2>2, <4>1
    <3>2. \/ \A i \in DOMAIN taken : taken[i] < m
          \/ \E k \in DOMAIN taken : taken[k] = m /\ Len(taken) + 1 - k > Recent
      <4>1. CASE Repeats(log, n)
        <5>1. PICK k \in 1 .. n - 1 : log[k] = m
          BY <4>1 DEF Repeats
        <5>2. Contains(taken, m)
          BY <1>1, <1>2, <5>1
        <5>3. PICK i \in DOMAIN taken : taken[i] = m
          BY <1>1, <5>2, ContainsIsElement
        <5> QED BY <1>1, <1>2, <2>2, <5>3, WindowShows
      <4>2. CASE ~Repeats(log, n)
        <5>1. n \in lastSeq + 1 .. Len(gateway.log)
          BY <1>1
        <5> QED BY <4>2, <5>1 DEF Ahead
      <4> QED BY <4>1, <4>2
    <3>3. ASSUME NEW i \in DOMAIN taken', NEW j \in DOMAIN taken', i < j
          PROVE  \/ taken'[i] < taken'[j]
                 \/ \E k \in 1 .. j - 1 : taken'[k] = taken'[j] /\ j - k > Recent
      <4>1. CASE j = Len(taken) + 1
        <5>1. i \in DOMAIN taken /\ j - 1 = Len(taken)
          BY <3>1, <3>3, <4>1
        <5>2. CASE \A k \in DOMAIN taken : taken[k] < m
          BY <3>1, <4>1, <5>1, <5>2
        <5>3. CASE \E k \in DOMAIN taken : taken[k] = m /\ Len(taken) + 1 - k > Recent
          BY <3>1, <4>1, <5>1, <5>3
        <5> QED BY <3>2, <5>2, <5>3
      <4>2. CASE j \in DOMAIN taken
        <5>1. i \in DOMAIN taken /\ \A k \in 1 .. j - 1 : k \in DOMAIN taken
          BY <3>1, <3>3, <4>2
        <5>2. \/ taken[i] < taken[j]
              \/ \E k \in 1 .. j - 1 : taken[k] = taken[j] /\ j - k > Recent
          BY <1>2, <3>3, <4>2, <5>1 DEF TakenOnceInOrder
        <5> QED BY <3>1, <4>2, <5>1, <5>2
      <4> QED BY <3>1, <4>1, <4>2
    <3> QED BY <3>3 DEF TakenOnceInOrder
  <2> QED BY <2>1, <2>2
<1>8. Ahead'
  <2>1. ASSUME NEW i \in n + 1 .. Len(log), ~Repeats(log, i), NEW k \in DOMAIN taken'
        PROVE  taken'[k] < log[i]
    <3>1. i \in lastSeq + 1 .. Len(log) /\ i \in DOMAIN log /\ n \in 1 .. i - 1
      BY <1>1
    <3>2. log[n] < log[i]
      BY <1>2, <2>1, <3>1 DEF LogInOrder
    <3>3. (k \in DOMAIN taken /\ taken'[k] = taken[k]) \/ taken'[k] = m
      <4>1. CASE UNCHANGED <<recent, taken>>
        BY <4>1
      <4>2. CASE taken' = Append(taken, m)
        BY <1>4, <2>1, <4>2
      <4> QED BY <4>1, <4>2
    <3>4. \A j \in DOMAIN taken : taken[j] < log[i]
      BY <2>1, <3>1 DEF Ahead
    <3> QED BY <3>2, <3>3, <3>4
  <2> QED BY <2>1 DEF Ahead
<1>9. LogInOrder'
  BY <1>2 DEF LogInOrder
<1>10. Types'
  BY <1>1, <1>3 DEF PositionInv, Types, Gateways
<1>11. lastSeq' <= Len(gateway'.log)
  BY <1>1
<1>12. session' \in {0, gateway'.session} /\ (session' = 0 => lastSeq' = 0)
       /\ (gateway'.session = 0 => gateway'.log = <<>> /\ ~gateway'.valid)
  <2>1. gateway.log # <<>>
    BY <1>1
  <2>2. gateway.session # 0
    BY <2>1 DEF PositionInv
  <2> QED BY <2>2
<1> QED BY <1>3, <1>6, <1>7, <1>8, <1>9, <1>10, <1>11, <1>12 DEF PositionInv
-----------------------------------------------------------------------------
(* InLine, for each change of the line. *)
LEMMA IdleLine ==
  ASSUME NEW g, NEW n, NEW id, NEW s, NEW at, NEW q, ~g.attached, q.op = "none",
         at \notin {"resumed", "ready", "frame", "handler"}
  PROVE  InLine(<<>>, g, n, id, s, at, q)
<1>1. Pushed(<<>>, g, n, s)
  BY NoFrames DEF Pushed
<1>2. Ends(<<>>, g, s, at)
  BY DEF Ends
<1>3. Greets(<<>>, g, id, s, at)
  BY DEF Greets, ReadyComes
<1> QED BY <1>1, <1>2, <1>3 DEF InLine, Waits

(* The line stays, and the client is in the same place or one like it. *)
LEMMA SameLine ==
  ASSUME NEW line, NEW g, NEW h, NEW n, NEW id, NEW s, NEW s2, NEW at, NEW at2, NEW q, NEW q2,
         InLine(line, g, n, id, s, at, q),
         h.log = g.log, h.session = g.session, h.valid => g.valid, h.attached => g.attached,
         s2 = s \/ s2 # "open", q2 = q \/ q2.op = "none",
         \/ at2 = at
         \/ at = "handler" /\ at2 = "frame"
         \/ at \in {"address", "backoff"} /\ at2 \in {"address", "open", "backoff", "ended"}
  PROVE  InLine(line, h, n, id, s2, at2, q2)
<1>1. Pushed(line, h, n, s2)
  BY DEF InLine, Pushed
<1>2. Ends(line, h, s2, at2)
  BY DEF InLine, Ends
<1>3. Greets(line, h, id, s2, at2)
  BY DEF InLine, Greets, ReadyComes
<1>4. Waits(line, h, n, at2, q2)
  BY DEF InLine, Waits
<1> QED BY <1>1, <1>2, <1>3, <1>4 DEF InLine

(* The socket closes, and only the beginning of the line arrives. *)
LEMMA LineIsCut ==
  ASSUME NEW line, NEW k \in 0 .. Len(line), NEW g, NEW h, NEW n, NEW id, NEW s, NEW s2, NEW at, NEW q, NEW q2,
         InLine(line, g, n, id, s, at, q),
         h.log = g.log, h.session = g.session, h.valid => g.valid, h.attached => g.attached,
         s2 # "open", q2 = q \/ q2.op = "none"
  PROVE  InLine(SubSeq(line, 1, k), h, n, id, s2, at, q2)
<1> DEFINE l == SubSeq(line, 1, k)
<1>1. line \in Seq(Frames) /\ InTurn(line, g.log, n)
  BY DEF InLine, Pushed
<1>2. /\ l \in Seq(Frames) /\ Len(l) = k /\ DOMAIN l = 1 .. k /\ 1 .. k \subseteq DOMAIN line
      /\ \A i \in 1 .. k : l[i] = line[i]
      /\ l # <<>> => line # <<>> /\ Head(l) = Head(line)
      /\ Len(line) \in Nat /\ k <= Len(line) /\ (line = <<>> => l = <<>>)
  BY <1>1, ElementsCut
<1>3. InTurn(l, h.log, n)
  BY <1>1, CutInTurn
<1> HIDE DEF l
<1>4. Pushed(l, h, n, s2)
  BY <1>2, <1>3 DEF Pushed
<1>5. Ends(l, h, s2, at)
  <2>1. ASSUME NEW i \in DOMAIN l, l[i].op = "invalid"
        PROVE  i = Len(l) /\ (h.valid => at = "ready" /\ i = 1)
    <3>1. i \in DOMAIN line /\ line[i].op = "invalid"
      BY <1>2, <2>1
    <3>2. i = Len(line) /\ (g.valid => at = "ready" /\ i = 1)
      BY <3>1 DEF InLine, Ends
    <3> QED BY <1>2, <3>2
  <2> QED BY <2>1 DEF Ends
<1>6. Greets(l, h, id, s2, at)
  <2>1. Greets(line, g, id, s, at)
    BY DEF InLine
  <2>2. l # <<>> /\ Len(line) <= 1 => Len(l) = 1
    <3>1. l # <<>> => Len(l) # 0
      BY <1>2
    <3> QED BY <1>2, <3>1
  <2>3. Len(line) <= 1 => Len(l) <= 1
    BY <1>2
  <2>4. at = "resumed" /\ l # <<>> /\ Head(l).op # "resumed" => Len(l) = 1 /\ ~h.attached
    BY <1>2, <2>1, <2>2 DEF Greets
  <2> QED BY <1>2, <2>1, <2>3, <2>4 DEF Greets, ReadyComes
<1>7. Waits(l, h, n, at, q2)
  BY <1>2 DEF InLine, Waits
<1> QED BY <1>4, <1>5, <1>6, <1>7 DEF InLine, l

(* As long as the session can be resumed, or is fed to the socket, no      *)
(* invalid session is in line.                                             *)
LEMMA NoneInvalid ==
  ASSUME NEW line, NEW g, NEW n, NEW id, NEW s, NEW at, NEW q, InLine(line, g, n, id, s, at, q),
         g.attached, s = "open"
  PROVE  /\ \A i \in DOMAIN line : line[i].op # "invalid"
         /\ at \in {"resumed", "ready"} => line # <<>> /\ Head(line).op = at
         /\ q.op = "none"
<1>1. line \in Seq(Frames) /\ Greets(line, g, id, s, at) /\ Ends(line, g, s, at)
  BY DEF InLine, Pushed
<1>2. at \in {"resumed", "ready"} => line # <<>> /\ Head(line).op = at
  BY <1>1 DEF Greets, ReadyComes
<1>3. ASSUME NEW i \in DOMAIN line, line[i].op = "invalid" PROVE FALSE
  <2>1. i = 1 /\ at \in {"ready", "resumed"}
    BY <1>1, <1>3 DEF Ends
  <2>2. Head(line) = line[1]
    BY <1>1, <1>2, <2>1, ElementsShrink
  <2> QED BY <1>2, <1>3, <2>1, <2>2
<1> QED BY <1>2, <1>3 DEF InLine, Waits
(* A frame joins the line of an open connection: a push of what the log    *)
(* gets, or what ends the connection.                                      *)
LEMMA FrameJoins ==
  ASSUME NEW line, NEW g, NEW h, NEW n, NEW id, NEW s, NEW s2, NEW at, NEW q, NEW f \in Frames,
         InLine(line, g, n, id, s, at, q), g.attached, s = "open", h.session = g.session,
         h.attached => g.attached, h.valid => g.valid,
         f.op = "invalid" => ~h.valid /\ s2 # "open",
         Pushed(Append(line, f), h, n, s2)
  PROVE  InLine(Append(line, f), h, n, id, s2, at, q)
<1> DEFINE l == Append(line, f)
<1>1. line \in Seq(Frames) /\ Greets(line, g, id, s, at)
  BY DEF InLine, Pushed
<1>2. /\ DOMAIN l = DOMAIN line \cup {Len(line) + 1} /\ Len(l) = Len(line) + 1
      /\ \A i \in DOMAIN line : l[i] = line[i]
      /\ l[Len(line) + 1] = f
      /\ line # <<>> => l # <<>> /\ Head(l) = Head(line)
  BY <1>1, ElementsGrow
<1>3. /\ \A i \in DOMAIN line : line[i].op # "invalid"
      /\ at \in {"resumed", "ready"} => line # <<>> /\ Head(line).op = at
      /\ q.op = "none"
  BY NoneInvalid
<1> HIDE DEF l
<1>4. Ends(l, h, s2, at)
  BY <1>2, <1>3 DEF Ends
<1>5. Greets(l, h, id, s2, at)
  BY <1>1, <1>2, <1>3 DEF Greets, ReadyComes
<1> QED BY <1>3, <1>4, <1>5 DEF InLine, Waits, l

LEMMA OtherJoins ==
  ASSUME NEW line, NEW g, NEW h, NEW n, NEW id, NEW s, NEW s2, NEW at, NEW q, NEW f \in Frames,
         InLine(line, g, n, id, s, at, q), g.attached, s = "open", h.session = g.session, h.log = g.log,
         h.attached => g.attached, h.valid => g.valid, f.op # "message",
         f.op = "invalid" => ~h.valid /\ s2 # "open"
  PROVE  InLine(Append(line, f), h, n, id, s2, at, q)
<1>1. line \in Seq(Frames) /\ InTurn(line, g.log, n) /\ Full(line, g.log, n)
  BY DEF InLine, Pushed
<1>2. InTurn(Append(line, f), h.log, n) /\ Full(Append(line, f), h.log, n) /\ Append(line, f) \in Seq(Frames)
  BY <1>1, OthersDoNotCount
<1>3. Pushed(Append(line, f), h, n, s2)
  BY <1>2 DEF Pushed
<1> QED BY <1>3, FrameJoins

LEMMA PushJoins ==
  ASSUME NEW line, NEW g, NEW h, NEW n \in 0 .. Len(g.log), NEW id, NEW s, NEW at, NEW q, NEW m \in Nat,
         InLine(line, g, n, id, s, at, q), g.log \in Seq(Nat), h.log = Append(g.log, m),
         h.session = g.session, h.valid = g.valid, h.attached = g.attached
  PROVE  InLine(IF g.attached /\ s = "open" THEN Append(line, Push(m, Len(g.log) + 1)) ELSE line,
                h, n, id, s, at, q)
<1>1. line \in Seq(Frames) /\ InTurn(line, g.log, n) /\ n \in Nat
  BY DEF InLine, Pushed
<1>2. CASE g.attached /\ s = "open"
  <2>1. Push(m, Len(g.log) + 1) \in Frames /\ Push(m, Len(g.log) + 1).op = "message"
    BY DEF Push, Frames
  <2>2. Full(line, g.log, n)
    BY <1>2 DEF InLine, Pushed
  <2>3. /\ InTurn(Append(line, Push(m, Len(g.log) + 1)), h.log, n)
        /\ Full(Append(line, Push(m, Len(g.log) + 1)), h.log, n)
    BY <1>1, <2>2, PushIsNext
  <2>4. Append(line, Push(m, Len(g.log) + 1)) \in Seq(Frames)
    BY <1>1, <2>1
  <2>5. Pushed(Append(line, Push(m, Len(g.log) + 1)), h, n, s)
    BY <2>3, <2>4 DEF Pushed
  <2> QED BY <1>2, <2>1, <2>5, FrameJoins
<1>3. CASE ~(g.attached /\ s = "open")
  <2>1. InTurn(line, h.log, n)
    BY <1>1, LogGoesOn
  <2>2. Pushed(line, h, n, s)
    BY <1>1, <1>3, <2>1 DEF Pushed
  <2>3. Ends(line, h, s, at) /\ Greets(line, h, id, s, at) /\ Waits(line, h, n, at, q)
    BY DEF InLine, Ends, Greets, Waits, ReadyComes
  <2> QED BY <1>3, <2>2, <2>3 DEF InLine
<1> QED BY <1>2, <1>3

(* The client takes the answer to its handshake, and is in the session. *)
LEMMA AnswerIsTaken ==
  ASSUME NEW line, NEW g, NEW n, NEW id, NEW id2, NEW s, NEW at, NEW q,
         InLine(line, g, n, id, s, at, q), line # <<>>, at \in {"resumed", "ready"}, Head(line).op = at,
         id2 = g.session
  PROVE  InLine(Tail(line), g, n, id2, s, "frame", q)
<1> DEFINE l == Tail(line)
<1>1. line \in Seq(Frames) /\ Ends(line, g, s, at) /\ InTurn(line, g.log, n)
  BY DEF InLine, Pushed
<1>2. /\ l \in Seq(Frames) /\ Len(l) = Len(line) - 1 /\ Len(line) \in Nat
      /\ \A i \in DOMAIN l : i + 1 \in DOMAIN line /\ l[i] = line[i + 1] /\ i \in Nat /\ i > 0
  <2>1. l \in Seq(Frames) /\ Len(line) \in Nat
    BY <1>1, ElementsShrink
  <2> QED BY <1>1, <2>1, ElementsShrink
<1>3. InTurn(l, g.log, n) /\ (Full(line, g.log, n) => Full(l, g.log, n))
  BY <1>1, FirstIsOther
<1> HIDE DEF l
<1>4. Pushed(l, g, n, s)
  BY <1>2, <1>3 DEF InLine, Pushed
<1>5. Ends(l, g, s, "frame")
  <2>1. ASSUME NEW i \in DOMAIN l, l[i].op = "invalid"
        PROVE  i = Len(l) /\ ~g.valid /\ s # "open"
    <3>1. i + 1 \in DOMAIN line /\ line[i + 1].op = "invalid" /\ i + 1 # 1
      BY <1>2, <2>1
    <3>2. i + 1 = Len(line) /\ ~g.valid /\ s # "open"
      BY <1>1, <3>1 DEF Ends
    <3> QED BY <1>2, <3>2
  <2> QED BY <2>1 DEF Ends
<1>6. Greets(l, g, id2, s, "frame")
  BY DEF Greets, ReadyComes
<1>7. Waits(l, g, n, "frame", q)
  BY DEF InLine, Waits
<1> QED BY <1>4, <1>5, <1>6, <1>7 DEF InLine, l

(* A frame of the session is taken: a message moves the position. *)
LEMMA FrameIsTaken ==
  ASSUME NEW line, NEW g, NEW n \in Nat, NEW n2, NEW id, NEW s, NEW at, NEW q, g.log \in Seq(Nat),
         InLine(line, g, n, id, s, "frame", q), line # <<>>, at \in {"frame", "handler"},
         \/ Head(line).op = "message" /\ n2 = Head(line).seq
         \/ Head(line).op # "message" /\ n2 = n
  PROVE  InLine(Tail(line), g, n2, id, s, at, q)
<1> DEFINE l == Tail(line)
<1>1. line \in Seq(Frames) /\ Ends(line, g, s, "frame") /\ InTurn(line, g.log, n)
  BY DEF InLine, Pushed
<1>2. /\ l \in Seq(Frames) /\ Len(l) = Len(line) - 1 /\ Len(line) \in Nat
      /\ \A i \in DOMAIN l : i + 1 \in DOMAIN line /\ l[i] = line[i + 1] /\ i \in Nat /\ i > 0
  <2>1. l \in Seq(Frames) /\ Len(line) \in Nat
    BY <1>1, ElementsShrink
  <2> QED BY <1>1, <2>1, ElementsShrink
<1>3. InTurn(l, g.log, n2) /\ (Full(line, g.log, n) => Full(l, g.log, n2))
  <2>1. CASE Head(line).op = "message" /\ n2 = Head(line).seq
    BY <1>1, <2>1, FirstIsPush
  <2>2. CASE Head(line).op # "message" /\ n2 = n
    BY <1>1, <2>2, FirstIsOther
  <2> QED BY <2>1, <2>2
<1> HIDE DEF l
<1>4. Pushed(l, g, n2, s)
  BY <1>2, <1>3 DEF InLine, Pushed
<1>5. Ends(l, g, s, at)
  <2>1. ASSUME NEW i \in DOMAIN l, l[i].op = "invalid"
        PROVE  i = Len(l) /\ ~g.valid /\ s # "open"
    <3>1. i + 1 \in DOMAIN line /\ line[i + 1].op = "invalid" /\ i + 1 # 1
      BY <1>2, <2>1
    <3>2. i + 1 = Len(line) /\ ~g.valid /\ s # "open"
      BY <1>1, <3>1 DEF Ends
    <3> QED BY <1>2, <3>2
  <2> QED BY <2>1 DEF Ends
<1>6. Greets(l, g, id, s, at)
  BY DEF InLine, Greets, ReadyComes
<1>7. Waits(l, g, n2, at, q)
  BY DEF InLine, Waits
<1> QED BY <1>4, <1>5, <1>6, <1>7 DEF InLine, l
-----------------------------------------------------------------------------
(* The gateway.  A client has p in its hands; what arrives stands behind.  *)
Asked == [op : {"none", "resume", "identify"}, session : Nat, seq : Nat]

LEMMA NobodyAsks == Nobody \in Asked /\ Nobody.op = "none"
  BY DEF Nobody, Asked

LEMMA EmptyInARow ==
  ASSUME NEW S, NEW p \in Seq(S), NEW q \in Seq(S)
  PROVE  p \o q = <<>> <=> p = <<>> /\ q = <<>>
  OBVIOUS

(* Nothing is in line before the gateway answers. *)
LEMMA NothingBefore ==
  ASSUME PositionInv, NEW p \in Seq(Frames), arriving \in Seq(Frames), LineInv(p \o arriving),
         asked.op # "none", sock = "open"
  PROVE  /\ p = <<>> /\ ~gateway.attached
         /\ asked.op = "resume" => pc = "resumed" /\ asked.seq = lastSeq /\ session # 0
                                   /\ session = gateway.session
         /\ asked.op = "identify" => pc = "ready" /\ session = 0 /\ lastSeq = 0
<1>1. Waits(p \o arriving, gateway, lastSeq, pc, asked) /\ Greets(p \o arriving, gateway, session, sock, pc)
  BY DEF LineInv, InLine
<1>2. p \o arriving = <<>> /\ ~gateway.attached
  BY <1>1 DEF Waits
<1>3. p = <<>>
  BY <1>2, EmptyInARow
<1>4. asked.op = "resume" => pc = "resumed" /\ asked.seq = lastSeq /\ session # 0
  BY <1>1 DEF Waits, Greets
<1>5. asked.op = "identify" => pc = "ready" /\ session = 0
  BY <1>1 DEF Waits, Greets
<1> QED BY <1>2, <1>3, <1>4, <1>5 DEF PositionInv

LEMMA AnswersStep ==
  ASSUME PositionInv, NEW p \in Seq(Frames), arriving \in Seq(Frames), LineInv(p \o arriving), Answers
  PROVE  PositionInv' /\ arriving' \in Seq(Frames) /\ LineInv(p \o arriving)'
<1>1. /\ asked.op # "none" /\ sock = "open" /\ asked' = Nobody
      /\ UNCHANGED <<pc, sock, session, lastSeq, recent, taken, sent>>
  BY DEF Answers, clientVars, boundVars, historyVars
<1>2. /\ p = <<>> /\ ~gateway.attached
      /\ asked.op = "resume" => pc = "resumed" /\ asked.seq = lastSeq /\ session # 0
                                /\ session = gateway.session
      /\ asked.op = "identify" => pc = "ready" /\ session = 0 /\ lastSeq = 0
  BY <1>1, NothingBefore
<1>3. asked' \in Asked /\ asked'.op = "none"
  BY <1>1, NobodyAsks
<1>4. /\ gateway.session \in Nat /\ gateway.log \in Seq(Nat) /\ lastSeq \in 0 .. Len(gateway.log)
      /\ gateway \in Gateways
  BY LogTypes DEF PositionInv, Types, Gateways
<1>5. SUFFICES /\ PositionInv' /\ arriving' \in Seq(Frames)
               /\ InLine(arriving', gateway', lastSeq', session', sock', pc', asked')
               /\ session' = gateway'.session \/ gateway'.valid \/ ReadyComes(arriving', pc') => Ahead'
  <2>1. arriving' \in Seq(Frames) => p \o arriving' = arriving'
    BY <1>2
  <2> QED BY <2>1 DEF LineInv, Live
<1>6. CASE /\ asked.op = "identify"
           /\ gateway' = [session |-> gateway.session + 1, valid |-> TRUE, attached |-> TRUE, log |-> <<>>]
           /\ arriving' = <<[Plain("ready") EXCEPT !.seq = gateway'.session]>>
  <2>1. PositionInv' /\ Ahead'
    BY <1>1, <1>2, <1>3, <1>6, SessionBegins DEF Asked
  <2>2. PICK f : f = [Plain("ready") EXCEPT !.seq = gateway'.session]
    OBVIOUS
  <2>6. /\ gateway'.session = gateway.session + 1 /\ gateway'.session \in Nat \ {0}
        /\ gateway'.log = <<>> /\ Len(gateway'.log) = 0
    BY <1>4, <1>6
  <2>3. f \in Frames /\ f.op = "ready" /\ f.seq = gateway'.session
    BY <2>2, <2>6 DEF Plain, Frames
  <2>4. arriving' = <<f>>
    BY <1>6, <2>2
  <2>5. /\ arriving' \in Seq(Frames) /\ arriving' # <<>> /\ Head(arriving') = f
        /\ DOMAIN arriving' = {1} /\ arriving'[1] = f /\ InTurn(arriving', gateway'.log, lastSeq)
    BY <2>3, <2>4, OneFrame
  <2>7. Pushed(arriving', gateway', lastSeq', sock')
    <3>1. Full(arriving', gateway'.log, 0)
      BY <2>6 DEF Full
    <3>2. lastSeq' = 0
      BY <1>1, <1>2, <1>6
    <3>3. InTurn(arriving', gateway'.log, lastSeq') /\ Full(arriving', gateway'.log, lastSeq')
      BY <1>1, <2>5, <3>1, <3>2
    <3> QED BY <2>5, <3>3 DEF Pushed
  <2>8. Ends(arriving', gateway', sock', pc')
    BY <2>3, <2>5 DEF Ends
  <2>9. Greets(arriving', gateway', session', sock', pc')
    BY <1>1, <1>2, <1>6, <2>3, <2>5, <2>6 DEF Greets, ReadyComes
  <2>10. Waits(arriving', gateway', lastSeq', pc', asked')
    BY <1>3 DEF Waits
  <2> QED BY <2>1, <2>5, <2>7, <2>8, <2>9, <2>10 DEF InLine
<1>7. CASE /\ asked.op = "resume" /\ gateway.valid
           /\ gateway' = [gateway EXCEPT !.attached = TRUE]
           /\ arriving' = <<Plain("resumed")>> \o Pushes(gateway.log, asked.seq)
  <2>1. /\ gateway' \in Gateways /\ gateway'.session = gateway.session
        /\ gateway'.log = gateway.log /\ gateway'.valid = gateway.valid
    BY <1>4, <1>7 DEF Gateways
  <2>2. PositionInv' /\ (Ahead => Ahead')
    BY <1>1, <1>3, <2>1, PositionStays DEF Asked
  <2>3. Ahead
    BY <1>7 DEF LineInv, Live
  <2>4. Plain("resumed") \in Frames /\ Plain("resumed").op = "resumed"
    BY DEF Plain, Frames
  <2>5. /\ arriving' \in Seq(Frames) /\ arriving' # <<>> /\ Head(arriving') = Plain("resumed")
        /\ InTurn(arriving', gateway.log, lastSeq) /\ Full(arriving', gateway.log, lastSeq)
        /\ \A i \in DOMAIN arriving' : i = 1 \/ arriving'[i].op = "message"
    BY <1>2, <1>4, <1>7, <2>4, ResumeIsInTurn
  <2>6. Pushed(arriving', gateway', lastSeq', sock')
    BY <1>1, <2>1, <2>5 DEF Pushed
  <2>7. Ends(arriving', gateway', sock', pc')
    <3>1. arriving'[1].op = "resumed"
      BY <2>4, <2>5, ElementsShrink
    <3> QED BY <2>5, <3>1 DEF Ends
  <2>8. Greets(arriving', gateway', session', sock', pc')
    BY <1>1, <1>2, <1>7, <2>4, <2>5 DEF Greets, ReadyComes
  <2>9. Waits(arriving', gateway', lastSeq', pc', asked')
    BY <1>3 DEF Waits
  <2> QED BY <2>2, <2>3, <2>5, <2>6, <2>7, <2>8, <2>9 DEF InLine
<1>8. CASE /\ asked.op = "resume" /\ ~gateway.valid
           /\ arriving' = <<Plain("invalid")>> /\ UNCHANGED gateway
  <2>1. PositionInv' /\ (Ahead => Ahead')
    BY <1>1, <1>3, <1>4, <1>8, PositionStays DEF Asked
  <2>2. Ahead
    BY <1>2, <1>8 DEF LineInv, Live
  <2>3. Plain("invalid") \in Frames /\ Plain("invalid").op = "invalid"
    BY DEF Plain, Frames
  <2>4. /\ arriving' \in Seq(Frames) /\ Head(arriving') = Plain("invalid") /\ Len(arriving') = 1
        /\ DOMAIN arriving' = {1} /\ InTurn(arriving', gateway.log, lastSeq)
    BY <1>8, <2>3, OneFrame
  <2>5. Pushed(arriving', gateway', lastSeq', sock')
    BY <1>1, <1>2, <1>8, <2>4 DEF Pushed
  <2>6. Ends(arriving', gateway', sock', pc')
    BY <1>1, <1>2, <1>8, <2>4 DEF Ends
  <2>7. Greets(arriving', gateway', session', sock', pc')
    BY <1>1, <1>2, <1>8, <2>3, <2>4 DEF Greets, ReadyComes
  <2>8. Waits(arriving', gateway', lastSeq', pc', asked')
    BY <1>3 DEF Waits
  <2> QED BY <2>1, <2>2, <2>4, <2>5, <2>6, <2>7, <2>8 DEF InLine
<1> QED BY <1>6, <1>7, <1>8 DEF Answers

LEMMA TurnsAwayStep ==
  ASSUME PositionInv, NEW p \in Seq(Frames), arriving \in Seq(Frames), LineInv(p \o arriving), TurnsAway
  PROVE  PositionInv' /\ arriving' \in Seq(Frames) /\ LineInv(p \o arriving)'
<1>1. /\ asked.op # "none" /\ sock = "open" /\ asked' = Nobody
      /\ UNCHANGED <<pc, session, lastSeq, recent, taken, sent, gateway>>
      /\ \/ arriving' = <<Plain("reconnect")>> /\ sock' = "closing"
         \/ asked.op = "identify" /\ arriving' = <<Plain("invalid")>> /\ UNCHANGED sock
  BY DEF TurnsAway, clientVars, historyVars
<1>2. /\ p = <<>> /\ ~gateway.attached
      /\ asked.op = "resume" => pc = "resumed" /\ session # 0
      /\ asked.op = "identify" => pc = "ready" /\ session = 0
  BY <1>1, NothingBefore
<1>3. asked' \in Asked /\ asked'.op = "none"
  BY <1>1, NobodyAsks
<1>4. gateway \in Gateways /\ asked.op \in {"none", "resume", "identify"}
  BY DEF PositionInv, Types, Gateways
<1>5. PositionInv' /\ (Ahead => Ahead')
  BY <1>1, <1>3, <1>4, PositionStays DEF Asked
<1>6. PICK f \in {Plain("reconnect"), Plain("invalid")} :
        /\ arriving' = <<f>>
        /\ \/ f.op = "reconnect" /\ sock' = "closing"
           \/ f.op = "invalid" /\ pc = "ready" /\ sock' = sock
  BY <1>1, <1>2 DEF Plain
<1>7. f \in Frames /\ f.op # "message" /\ f.op # "ready" /\ f.op # "resumed"
  BY DEF Plain, Frames
<1>8. /\ arriving' \in Seq(Frames) /\ Head(arriving') = f /\ Len(arriving') = 1
      /\ DOMAIN arriving' = {1} /\ arriving'[1] = f /\ InTurn(arriving', gateway.log, lastSeq)
  BY <1>6, <1>7, OneFrame
<1>9. p \o arriving' = arriving'
  BY <1>2, <1>8
<1>10. Pushed(arriving', gateway', lastSeq', sock')
  BY <1>1, <1>2, <1>8 DEF Pushed
<1>11. Ends(arriving', gateway', sock', pc')
  BY <1>1, <1>6, <1>8 DEF Ends
<1>12. Greets(arriving', gateway', session', sock', pc')
  BY <1>1, <1>2, <1>4, <1>6, <1>7, <1>8 DEF Greets, ReadyComes
<1>13. Waits(arriving', gateway', lastSeq', pc', asked')
  BY <1>3 DEF Waits
<1>14. session' = gateway'.session \/ gateway'.valid \/ ReadyComes(arriving', pc') => Ahead
  BY <1>1, <1>7, <1>8 DEF LineInv, Live, ReadyComes
<1> QED BY <1>5, <1>8, <1>9, <1>10, <1>11, <1>12, <1>13, <1>14 DEF LineInv, InLine, Live
(* The log grows, and what it gets is pushed to an open connection. *)
LEMMA LogsStep ==
  ASSUME PositionInv, NEW p \in Seq(Frames), arriving \in Seq(Frames), LineInv(p \o arriving), NEW m, Logs(m),
         gateway.valid,
         \/ sent' = sent + 1 /\ m = sent'
         \/ sent' = sent /\ \E i \in DOMAIN gateway.log : m = gateway.log[i]
  PROVE  PositionInv' /\ arriving' \in Seq(Frames) /\ LineInv(p \o arriving)'
<1>1. /\ UNCHANGED <<pc, sock, session, lastSeq, recent, asked, taken>>
      /\ gateway' = [gateway EXCEPT !.log = Append(@, m)]
      /\ arriving' = IF gateway.attached /\ sock = "open"
                     THEN Append(arriving, Push(m, Len(gateway.log) + 1)) ELSE arriving
  BY DEF Logs, clientVars, historyVars
<1>2. PositionInv' /\ (Ahead => Ahead')
  BY <1>1, LogGrows
<1>3. /\ gateway.log \in Seq(Nat) /\ lastSeq \in 0 .. Len(gateway.log) /\ sent \in Nat
      /\ gateway \in Gateways
  BY LogTypes DEF PositionInv, Types, Gateways
<1>4. m \in Nat
  BY <1>3
<1>5. /\ gateway'.log = Append(gateway.log, m) /\ gateway'.session = gateway.session
      /\ gateway'.valid = gateway.valid /\ gateway'.attached = gateway.attached
  BY <1>1, <1>3 DEF Gateways
<1>6. Push(m, Len(gateway.log) + 1) \in Frames
  BY <1>3, <1>4 DEF Push, Frames
<1>7. /\ arriving' \in Seq(Frames)
      /\ p \o arriving' = IF gateway.attached /\ sock = "open"
                          THEN Append(p \o arriving, Push(m, Len(gateway.log) + 1)) ELSE p \o arriving
  <2>1. PICK f \in Frames : f = Push(m, Len(gateway.log) + 1)
    BY <1>6
  <2>2. Append(arriving, f) \in Seq(Frames) /\ p \o Append(arriving, f) = Append(p \o arriving, f)
    BY InARow
  <2> QED BY <1>1, <2>1, <2>2
<1>8. InLine(p \o arriving, gateway, lastSeq, session, sock, pc, asked) /\ Ahead
  BY DEF LineInv, Live
<1>9. InLine(p \o arriving', gateway', lastSeq, session, sock, pc, asked)
  BY <1>3, <1>4, <1>5, <1>7, <1>8, PushJoins
<1> QED BY <1>1, <1>2, <1>7, <1>8, <1>9 DEF LineInv

LEMMA OtherComes ==
  ASSUME PositionInv, NEW p \in Seq(Frames), arriving \in Seq(Frames), LineInv(p \o arriving),
         gateway.attached, sock = "open", NEW f \in Frames, f.op \in {"reconnect", "invalid"},
         arriving' = Append(arriving, f), f.op = "invalid" => ~gateway'.valid /\ sock' # "open",
         gateway' \in Gateways, gateway'.session = gateway.session, gateway'.log = gateway.log,
         gateway'.valid => gateway.valid, gateway'.attached => gateway.attached,
         UNCHANGED <<pc, session, lastSeq, recent, taken, sent, asked>>
  PROVE  PositionInv' /\ arriving' \in Seq(Frames) /\ LineInv(p \o arriving)'
<1>1. PositionInv' /\ (Ahead => Ahead')
  BY PositionStays DEF PositionInv, Types
<1>2. arriving' \in Seq(Frames) /\ p \o arriving' = Append(p \o arriving, f) /\ p \o arriving \in Seq(Frames)
  BY InARow
<1>3. InLine(p \o arriving, gateway, lastSeq, session, sock, pc, asked)
  BY DEF LineInv
<1>4. InLine(p \o arriving', gateway', lastSeq, session, sock', pc, asked)
  BY <1>2, <1>3, OtherJoins
<1>5. Live(p \o arriving)' => Live(p \o arriving)
  <2>1. PICK line : line = p \o arriving
    OBVIOUS
  <2>2. InLine(line, gateway, lastSeq, session, sock, pc, asked)
    BY <1>3, <2>1
  <2>3. pc \in {"resumed", "ready"} => line # <<>> /\ Head(line).op = pc
    BY <2>2, NoneInvalid
  <2>4. pc = "ready" => ReadyComes(p \o arriving, pc)
    BY <2>1, <2>3 DEF ReadyComes
  <2> QED BY <2>4 DEF Live, ReadyComes
<1> QED BY <1>1, <1>2, <1>4, <1>5 DEF LineInv

LEMMA AsksToReconnectStep ==
  ASSUME PositionInv, NEW p \in Seq(Frames), arriving \in Seq(Frames), LineInv(p \o arriving), AsksToReconnect
  PROVE  PositionInv' /\ arriving' \in Seq(Frames) /\ LineInv(p \o arriving)'
<1>1. /\ gateway.attached /\ sock = "open" /\ arriving' = Append(arriving, Plain("reconnect"))
      /\ UNCHANGED <<gateway, pc, session, lastSeq, recent, taken, sent, asked>>
  BY DEF AsksToReconnect, clientVars, gatewayVars, historyVars
<1>2. Plain("reconnect") \in Frames /\ Plain("reconnect").op = "reconnect"
  BY DEF Plain, Frames
<1>3. gateway \in Gateways
  BY DEF PositionInv, Types, Gateways
<1> QED BY <1>1, <1>2, <1>3, OtherComes

LEMMA SessionExpiresStep ==
  ASSUME PositionInv, NEW p \in Seq(Frames), arriving \in Seq(Frames), LineInv(p \o arriving), SessionExpires
  PROVE  PositionInv' /\ arriving' \in Seq(Frames) /\ LineInv(p \o arriving)'
<1>1. /\ gateway.valid /\ gateway' = [gateway EXCEPT !.valid = FALSE, !.attached = FALSE]
      /\ IF gateway.attached /\ sock = "open"
         THEN sock' = "closing" /\ arriving' = Append(arriving, Plain("invalid"))
         ELSE UNCHANGED <<sock, arriving>>
      /\ UNCHANGED <<pc, session, lastSeq, recent, taken, sent, asked>>
  BY DEF SessionExpires, clientVars, historyVars
<1>2. Plain("invalid") \in Frames /\ Plain("invalid").op = "invalid"
  BY DEF Plain, Frames
<1>3. gateway \in Gateways /\ asked \in Asked
  BY DEF PositionInv, Types, Gateways, Asked
<1>4. /\ gateway' \in Gateways /\ gateway'.session = gateway.session /\ gateway'.log = gateway.log
      /\ ~gateway'.valid /\ ~gateway'.attached
  BY <1>1, <1>3 DEF Gateways
<1>5. CASE gateway.attached /\ sock = "open"
  BY <1>1, <1>2, <1>4, <1>5, OtherComes
<1>6. CASE ~(gateway.attached /\ sock = "open")
  <2>1. PositionInv' /\ (Ahead => Ahead')
    BY <1>1, <1>3, <1>4, PositionStays DEF Asked
  <2>2. InLine(p \o arriving, gateway', lastSeq, session, sock, pc, asked)
    BY <1>4, SameLine DEF LineInv
  <2>3. UNCHANGED <<sock, arriving>>
    BY <1>1, <1>6
  <2>4. Live(p \o arriving)' => Live(p \o arriving)
    BY <1>1, <2>3 DEF Live
  <2> QED BY <1>1, <2>1, <2>2, <2>3, <2>4 DEF LineInv
<1> QED BY <1>5, <1>6

(* The socket closes, and some of what was under way is lost. *)
LEMMA ArrivingIsCut ==
  ASSUME PositionInv, NEW p \in Seq(Frames), arriving \in Seq(Frames), LineInv(p \o arriving),
         NEW k \in 0 .. Len(arriving), arriving' = SubSeq(arriving, 1, k), sock' # "open",
         gateway' \in Gateways, gateway'.session = gateway.session, gateway'.log = gateway.log,
         gateway'.valid => gateway.valid, gateway'.attached => gateway.attached,
         asked' = asked \/ asked' = Nobody,
         UNCHANGED <<pc, session, lastSeq, recent, taken, sent>>
  PROVE  PositionInv' /\ arriving' \in Seq(Frames) /\ LineInv(p \o arriving)'
<1>1. asked' \in Asked /\ (asked' = asked \/ asked'.op = "none")
  BY NobodyAsks DEF PositionInv, Types, Asked
<1>2. PositionInv' /\ (Ahead => Ahead')
  BY <1>1, PositionStays DEF Asked
<1>3. /\ p \o arriving' = SubSeq(p \o arriving, 1, Len(p) + k) /\ Len(p) + k \in 0 .. Len(p \o arriving)
      /\ p \o arriving \in Seq(Frames)
  BY CutBehind, InARow
<1>4. InLine(p \o arriving', gateway', lastSeq, session, sock', pc, asked')
  BY <1>1, <1>3, LineIsCut DEF LineInv
<1>5. arriving' \in Seq(Frames)
  BY ElementsCut
<1>6. Live(p \o arriving)' => Live(p \o arriving)
  <2>1. p \o arriving' # <<>> => p \o arriving # <<>> /\ Head(p \o arriving') = Head(p \o arriving)
    BY <1>3, ElementsCut
  <2> QED BY <2>1 DEF Live, ReadyComes
<1> QED BY <1>2, <1>4, <1>5, <1>6 DEF LineInv

LEMMA ConnectionLostStep ==
  ASSUME PositionInv, NEW p \in Seq(Frames), arriving \in Seq(Frames), LineInv(p \o arriving), ConnectionLost
  PROVE  PositionInv' /\ arriving' \in Seq(Frames) /\ LineInv(p \o arriving)'
<1>1. /\ sock' = "closing" /\ gateway' = [gateway EXCEPT !.attached = FALSE] /\ asked' = Nobody
      /\ UNCHANGED <<pc, session, lastSeq, recent, taken, sent>>
  BY DEF ConnectionLost, clientVars, historyVars
<1>2. PICK k \in 0 .. Len(arriving) : arriving' = SubSeq(arriving, 1, k)
  BY DEF ConnectionLost
<1>3. gateway \in Gateways
  BY DEF PositionInv, Types, Gateways
<1>4. /\ gateway' \in Gateways /\ gateway'.session = gateway.session /\ gateway'.log = gateway.log
      /\ gateway'.valid = gateway.valid /\ ~gateway'.attached
  BY <1>1, <1>3 DEF Gateways
<1> QED BY <1>1, <1>2, <1>4, ArrivingIsCut

LEMMA GatewayStep ==
  ASSUME PositionInv, NEW p \in Seq(Frames), arriving \in Seq(Frames), LineInv(p \o arriving), GatewayNext
  PROVE  PositionInv' /\ arriving' \in Seq(Frames) /\ LineInv(p \o arriving)' /\ pc' = pc
<1>1. CASE PersonSends
  <2>1. gateway.valid /\ sent' = sent + 1 /\ Logs(sent')
    BY <1>1 DEF PersonSends
  <2> QED BY <2>1, LogsStep DEF Logs
<1>2. CASE PushesAgain
  <2>1. PICK i \in DOMAIN gateway.log : Logs(gateway.log[i])
    BY <1>2 DEF PushesAgain
  <2>2. gateway.valid /\ sent' = sent
    BY <1>2 DEF PushesAgain
  <2> QED BY <2>1, <2>2, LogsStep DEF Logs
<1>3. CASE Answers
  BY <1>3, AnswersStep DEF Answers
<1>4. CASE TurnsAway
  BY <1>4, TurnsAwayStep DEF TurnsAway
<1>5. CASE AsksToReconnect
  BY <1>5, AsksToReconnectStep DEF AsksToReconnect
<1>6. CASE SessionExpires
  BY <1>6, SessionExpiresStep DEF SessionExpires
<1>7. CASE ConnectionLost
  BY <1>7, ConnectionLostStep DEF ConnectionLost
<1> QED BY <1>1, <1>2, <1>3, <1>4, <1>5, <1>6, <1>7 DEF GatewayNext
-----------------------------------------------------------------------------
(* What the clients have in common. *)
LEMMA SameStep ==
  ASSUME PositionInv, NEW line, LineInv(line), UNCHANGED <<session, lastSeq, recent, taken, sent>>,
         gateway' \in Gateways, gateway'.session = gateway.session, gateway'.log = gateway.log,
         gateway'.valid = gateway.valid, gateway'.attached => gateway.attached,
         sock' = sock \/ sock' # "open", asked' = asked \/ asked' = Nobody,
         \/ pc' = pc
         \/ pc = "handler" /\ pc' = "frame"
         \/ pc \in {"address", "backoff"} /\ pc' \in {"address", "open", "backoff", "ended"}
  PROVE  PositionInv' /\ LineInv(line)'
<1>1. asked' \in Asked /\ (asked' = asked \/ asked'.op = "none")
  BY NobodyAsks DEF PositionInv, Types, Asked
<1>2. PositionInv' /\ (Ahead => Ahead')
  BY <1>1, PositionStays DEF Asked
<1>3. InLine(line, gateway', lastSeq, session, sock', pc', asked')
  BY <1>1, SameLine DEF LineInv
<1>4. Live(line)' => Live(line)
  BY DEF Live, ReadyComes
<1> QED BY <1>2, <1>3, <1>4 DEF LineInv

LEMMA IdleStep ==
  ASSUME PositionInv, NEW line, LineInv(line), UNCHANGED <<session, lastSeq, recent, taken, sent>>,
         gateway' \in Gateways, gateway'.session = gateway.session, gateway'.log = gateway.log,
         gateway'.valid = gateway.valid, ~gateway'.attached,
         asked' \in Asked, asked'.op = "none", pc' \notin {"resumed", "ready", "frame", "handler"}
  PROVE  PositionInv' /\ LineInv(<<>>)'
<1>1. PositionInv' /\ (Ahead => Ahead')
  BY PositionStays DEF Asked
<1>2. InLine(<<>>, gateway', lastSeq, session, sock', pc', asked')
  BY IdleLine
<1>3. Live(<<>>)' => Live(line)
  BY DEF Live, ReadyComes
<1> QED BY <1>1, <1>2, <1>3 DEF LineInv

(* The hello of a new socket. *)
LEMMA HelloStep ==
  ASSUME PositionInv, NEW line, LineInv(line), UNCHANGED <<session, lastSeq, recent, taken, sent, gateway, asked>>,
         pc = "open", pc' = "hello", sock' = "open"
  PROVE  PositionInv' /\ LineInv(<<Plain("hello")>>)'
<1>1. gateway \in Gateways /\ asked \in Asked
  BY DEF PositionInv, Types, Gateways, Asked
<1>2. PositionInv' /\ (Ahead => Ahead')
  BY <1>1, PositionStays DEF Asked
<1>3. PICK f : f = Plain("hello")
  OBVIOUS
<1>4. f \in Frames /\ f.op = "hello"
  BY <1>3 DEF Plain, Frames
<1>5. /\ <<f>> \in Seq(Frames) /\ Len(<<f>>) = 1 /\ DOMAIN <<f>> = {1} /\ <<f>>[1] = f
      /\ InTurn(<<f>>, gateway.log, lastSeq)
  BY <1>4, OneFrame
<1>6. ~gateway.attached /\ asked.op = "none"
  BY <1>1 DEF LineInv, InLine, Greets, Waits, Asked
<1>7. Pushed(<<f>>, gateway, lastSeq, "open")
  BY <1>5, <1>6 DEF Pushed
<1>8. Ends(<<f>>, gateway, "open", "hello")
  BY <1>4, <1>5 DEF Ends
<1>9. Greets(<<f>>, gateway, session, "open", "hello")
  BY <1>5, <1>6 DEF Greets, ReadyComes
<1>10. Waits(<<f>>, gateway, lastSeq, "hello", asked)
  BY <1>6 DEF Waits
<1>11. InLine(<<f>>, gateway', lastSeq', session', sock', pc', asked')
  BY <1>7, <1>8, <1>9, <1>10 DEF InLine
<1>12. Live(<<f>>)' => Live(line)
  BY DEF Live, ReadyComes
<1> QED BY <1>2, <1>3, <1>11, <1>12 DEF LineInv

(* An invalid session is the last frame; the client forgets it. *)
LEMMA InvalidComes ==
  ASSUME PositionInv, NEW line, LineInv(line), line # <<>>, Head(line).op = "invalid",
         pc \in {"resumed", "frame"}, session' = 0, lastSeq' = 0, UNCHANGED <<recent, taken, sent>>,
         gateway' \in Gateways, gateway'.session = gateway.session, gateway'.log = gateway.log,
         gateway'.valid = gateway.valid, asked' \in Asked
  PROVE  /\ PositionInv' /\ (session' = gateway'.session \/ gateway'.valid => Ahead')
         /\ Tail(line) = <<>> /\ (pc = "frame" => sock # "open") /\ (pc = "resumed" => ~gateway.attached)
<1>1. /\ line \in Seq(Frames) /\ Ends(line, gateway, sock, pc) /\ Greets(line, gateway, session, sock, pc)
  BY DEF LineInv, InLine, Pushed
<1>2. Head(line) = line[1] /\ 1 \in DOMAIN line /\ (Len(line) <= 1 => Tail(line) = <<>>)
  BY <1>1, ElementsShrink
<1>3. Len(line) = 1 /\ ~gateway.valid /\ (sock = "open" => pc \in {"ready", "resumed"})
  BY <1>1, <1>2 DEF Ends
<1>4. pc = "resumed" => ~gateway.attached /\ session # 0
  BY <1>1 DEF Greets
<1>5. pc = "frame" => session = gateway.session
  BY <1>1 DEF Greets
<1>6. PositionInv'
  BY SessionChanges DEF Asked
<1>7. session' = gateway'.session => Ahead'
  <2> SUFFICES ASSUME gateway.session = 0 PROVE Ahead'
    OBVIOUS
  <2>1. gateway.log = <<>>
    BY DEF PositionInv
  <2>2. Len(gateway'.log) = 0
    BY <2>1
  <2> QED BY <2>2 DEF Ahead
<1> QED BY <1>2, <1>3, <1>4, <1>6, <1>7

(* The client asks the gateway, when nothing is in line. *)
LEMMA AsksInLine ==
  ASSUME NEW g, NEW n, NEW id, NEW s, NEW at, NEW q, ~g.attached,
         \/ at = "resumed" /\ id # 0 /\ q.op = "resume" /\ q.seq = n
         \/ at = "ready" /\ (s = "open" => id = 0) /\ q.op = "identify"
  PROVE  InLine(<<>>, g, n, id, s, at, q)
<1>1. Pushed(<<>>, g, n, s)
  BY NoFrames DEF Pushed
<1>2. Ends(<<>>, g, s, at)
  BY DEF Ends
<1>3. Greets(<<>>, g, id, s, at)
  BY DEF Greets, ReadyComes
<1>4. Waits(<<>>, g, n, at, q)
  BY DEF Waits
<1> QED BY <1>1, <1>2, <1>3, <1>4 DEF InLine

(* Both handshakes: a frame of one is taken, and the next one is awaited.  *)
LEMMA HandshakeStep ==
  ASSUME PositionInv, NEW line, LineInv(line), line # <<>>, UNCHANGED <<sock, gateway, recent, taken, sent>>,
         \/ /\ pc = "hello" /\ session # 0
            /\ pc' = "resumed" /\ UNCHANGED <<session, lastSeq>> /\ Asks("resume")
         \/ /\ pc = "hello" /\ session = 0
            /\ pc' = "ready" /\ UNCHANGED <<session, lastSeq>> /\ Asks("identify")
         \/ /\ pc \in {"resumed", "ready"} /\ Head(line).op = pc /\ pc' = "frame"
            /\ session' = (IF pc = "ready" THEN Head(line).seq ELSE session)
            /\ UNCHANGED <<lastSeq, asked>>
         \/ /\ pc = "resumed" /\ Head(line).op = "invalid"
            /\ pc' = "ready" /\ session' = 0 /\ lastSeq' = 0 /\ Asks("identify")
         \/ /\ pc = "resumed" /\ Head(line).op \notin {"resumed", "invalid"}
            /\ pc' = "ready" /\ UNCHANGED <<session, lastSeq>> /\ Asks("identify")
  PROVE  PositionInv' /\ LineInv(Tail(line))'
<1>1. /\ line \in Seq(Frames) /\ Greets(line, gateway, session, sock, pc)
      /\ InLine(line, gateway, lastSeq, session, sock, pc, asked)
  BY DEF LineInv, InLine, Pushed
<1>2. Len(line) <= 1 => Tail(line) = <<>>
  BY <1>1, ElementsShrink
<1>3. /\ gateway \in Gateways /\ asked \in Asked /\ session \in Nat /\ lastSeq \in Nat
      /\ session \in {0, gateway.session}
  BY DEF PositionInv, Types, Gateways, Asked
<1>4. PICK l : l = Tail(line)
  OBVIOUS
<1>5. SUFFICES /\ PositionInv' /\ InLine(l, gateway', lastSeq', session', sock', pc', asked')
               /\ session' = gateway'.session \/ gateway'.valid \/ ReadyComes(l, pc') => Ahead'
  BY <1>4 DEF LineInv, Live
<1>6. CASE \/ /\ pc = "hello" /\ session # 0
              /\ pc' = "resumed" /\ UNCHANGED <<session, lastSeq>> /\ Asks("resume")
           \/ /\ pc = "hello" /\ session = 0
              /\ pc' = "ready" /\ UNCHANGED <<session, lastSeq>> /\ Asks("identify")
  <2>1. l = <<>> /\ ~gateway.attached
    BY <1>1, <1>2, <1>4, <1>6 DEF Greets
  <2>2. asked' \in Asked /\ asked'.seq = lastSeq /\ asked'.op = IF pc' = "resumed" THEN "resume" ELSE "identify"
    BY <1>3, <1>6 DEF Asks, Asked
  <2>3. PositionInv' /\ (Ahead => Ahead')
    BY <1>3, <1>6, <2>2, PositionStays DEF Asked
  <2>4. InLine(<<>>, gateway, lastSeq, session, sock, pc', asked')
    BY <1>6, <2>1, <2>2, AsksInLine
  <2> QED BY <1>6, <2>1, <2>3, <2>4 DEF LineInv, Live, ReadyComes
<1>7. CASE /\ pc \in {"resumed", "ready"} /\ Head(line).op = pc /\ pc' = "frame"
           /\ session' = (IF pc = "ready" THEN Head(line).seq ELSE session)
           /\ UNCHANGED <<lastSeq, asked>>
  <2>1. session' = gateway.session /\ (pc = "ready" => session = 0) /\ (pc = "resumed" => session' = session)
    BY <1>1, <1>3, <1>7 DEF Greets, ReadyComes
  <2>2. PositionInv' /\ Ahead'
    <3>1. Ahead
      BY <1>7, <2>1 DEF LineInv, Live, ReadyComes
    <3>2. CASE pc = "ready"
      <4>1. PositionInv'
        BY <1>3, <1>7, <2>1, <3>2, SessionChanges DEF Asked
      <4> QED BY <1>7, <3>1, <4>1 DEF Ahead
    <3>3. CASE pc = "resumed"
      BY <1>3, <1>7, <2>1, <3>1, <3>3, PositionStays DEF Asked
    <3> QED BY <1>7, <3>2, <3>3
  <2>3. InLine(l, gateway, lastSeq, session', sock, "frame", asked)
    BY <1>1, <1>4, <1>7, <2>1, AnswerIsTaken
  <2> QED BY <1>7, <2>2, <2>3
<1>8. CASE /\ pc = "resumed" /\ Head(line).op = "invalid"
           /\ pc' = "ready" /\ session' = 0 /\ lastSeq' = 0 /\ Asks("identify")
  <2>1. asked' \in Asked /\ asked'.op = "identify"
    BY <1>8 DEF Asks, Asked
  <2>2. /\ PositionInv' /\ (session' = gateway'.session \/ gateway'.valid => Ahead')
        /\ l = <<>> /\ ~gateway.attached
    BY <1>3, <1>4, <1>8, <2>1, InvalidComes
  <2>3. InLine(<<>>, gateway, 0, 0, sock, "ready", asked')
    BY <2>1, <2>2, AsksInLine
  <2> QED BY <1>8, <2>2, <2>3 DEF ReadyComes
<1>9. CASE /\ pc = "resumed" /\ Head(line).op \notin {"resumed", "invalid"}
           /\ pc' = "ready" /\ UNCHANGED <<session, lastSeq>> /\ Asks("identify")
  <2>1. asked' \in Asked /\ asked'.op = "identify"
    BY <1>3, <1>9 DEF Asks, Asked
  <2>2. l = <<>> /\ ~gateway.attached /\ sock # "open"
    BY <1>1, <1>2, <1>4, <1>9 DEF Greets
  <2>3. PositionInv' /\ (Ahead => Ahead')
    BY <1>3, <1>9, <2>1, PositionStays DEF Asked
  <2>4. InLine(<<>>, gateway, lastSeq, session, sock, "ready", asked')
    BY <2>1, <2>2, AsksInLine
  <2> QED BY <1>9, <2>2, <2>3, <2>4 DEF LineInv, Live, ReadyComes
<1> QED BY <1>6, <1>7, <1>8, <1>9
(* A message is taken from the line. *)
LEMMA TakesStep ==
  ASSUME PositionInv, NEW line, LineInv(line), line # <<>>, pc = "frame", Head(line).op = "message",
         lastSeq' = Head(line).seq, pc' \in {"frame", "handler"},
         UNCHANGED <<sock, session, asked, sent, gateway>>,
         \/ Contains(recent, Head(line).id) /\ UNCHANGED <<recent, taken>>
         \/ /\ ~Contains(recent, Head(line).id) /\ taken' = Append(taken, Head(line).id)
            /\ \/ recent' = IF Len(Append(recent, Head(line).id)) > Recent
                            THEN Tail(Append(recent, Head(line).id)) ELSE Append(recent, Head(line).id)
               \/ recent' = IF Len(recent) = Recent THEN Append(Tail(recent), Head(line).id)
                                                    ELSE Append(recent, Head(line).id)
  PROVE  PositionInv' /\ LineInv(Tail(line))'
<1>1. /\ line \in Seq(Frames) /\ InTurn(line, gateway.log, lastSeq)
      /\ InLine(line, gateway, lastSeq, session, sock, "frame", asked)
  BY DEF LineInv, InLine, Pushed
<1>2. session = gateway.session /\ Ahead
  BY DEF LineInv, Live, InLine, Greets
<1>3. gateway.log \in Seq(Nat) /\ lastSeq \in Nat /\ gateway \in Gateways
  BY LogTypes DEF PositionInv, Types, Gateways
<1>4. PICK m, n : m = Head(line).id /\ n = Head(line).seq
  OBVIOUS
<1>5. n = lastSeq + 1 /\ n \in DOMAIN gateway.log /\ m = gateway.log[n]
  BY <1>1, <1>3, <1>4, FirstIsPush
<1>6. \/ Contains(recent, m) /\ UNCHANGED <<recent, taken>>
      \/ /\ ~Contains(recent, m) /\ taken' = Append(taken, m)
         /\ \/ recent' = IF Len(Append(recent, m)) > Recent THEN Tail(Append(recent, m))
                                                            ELSE Append(recent, m)
            \/ recent' = IF Len(recent) = Recent THEN Append(Tail(recent), m)
                                                 ELSE Append(recent, m)
  BY <1>4
<1>7. PositionInv' /\ Ahead'
  BY <1>2, <1>3, <1>4, <1>5, <1>6, MessageIsTaken, SocketAssumption
<1>8. InLine(Tail(line), gateway, n, session, sock, pc', asked)
  BY <1>1, <1>3, <1>4, FrameIsTaken
<1> QED BY <1>4, <1>7, <1>8 DEF LineInv
-----------------------------------------------------------------------------
(* The channel. *)
LEMMA ChannelStarts == GatewayInit => PositionInv /\ LineInv(<<>>)
<1> SUFFICES ASSUME GatewayInit PROVE PositionInv /\ LineInv(<<>>)
  OBVIOUS
<1>1. /\ pc = "address" /\ session = 0 /\ lastSeq = 0 /\ recent = <<>> /\ taken = <<>> /\ sent = 0
      /\ asked = Nobody
      /\ gateway = [session |-> 0, valid |-> FALSE, attached |-> FALSE, log |-> <<>>]
  BY DEF GatewayInit
<1>2. Nobody \in Asked /\ Nobody.op = "none"
  BY NobodyAsks
<1>3. Types
  BY <1>1, <1>2 DEF Types, Asked
<1>4. Window
  BY <1>1, SocketAssumption DEF Window, SocketAssumption
<1>5. TakenOnceInOrder /\ LogInOrder /\ Ahead
  BY <1>1 DEF TakenOnceInOrder, LogInOrder, Ahead
<1>6. PositionInv
  BY <1>1, <1>3, <1>4, <1>5 DEF PositionInv
<1>7. InLine(<<>>, gateway, lastSeq, session, sock, pc, asked)
  BY <1>1, <1>2, IdleLine
<1> QED BY <1>5, <1>6, <1>7 DEF LineInv

LEMMA ChannelConnects ==
  ASSUME ChannelInv, Discovers \/ Connects \/ Retries \/ LosesSocket \/ Cancel
  PROVE  ChannelInv'
<1>1. gateway \in Gateways /\ asked \in Asked
  BY DEF ChannelInv, PositionInv, Types, Gateways, Asked
<1>2. PICK line : line = arriving
  OBVIOUS
<1>3. PositionInv /\ LineInv(line)
  BY <1>2 DEF ChannelInv, LineInv
<1>4. CASE Discovers \/ Retries
  <2>1. /\ UNCHANGED <<session, lastSeq, recent, taken, sent, gateway, asked, arriving>>
        /\ sock' = sock \/ sock' # "open"
        /\ pc \in {"address", "backoff"} /\ pc' \in {"address", "open", "backoff"}
    BY <1>4 DEF Discovers, Retries, clientVars, gatewayVars, boundVars, historyVars
  <2>2. PositionInv' /\ LineInv(line)'
    BY <1>1, <1>3, <2>1, SameStep
  <2> QED BY <1>2, <2>1, <2>2 DEF ChannelInv, LineInv
<1>5. CASE Connects
  <2>1. /\ UNCHANGED <<session, lastSeq, recent, taken, sent, gateway, asked>>
        /\ pc = "open" /\ pc' = "hello" /\ sock' = "open" /\ arriving' = <<Plain("hello")>>
    BY <1>5 DEF Connects, clientVars, gatewayVars, boundVars, historyVars
  <2>2. PositionInv' /\ LineInv(<<Plain("hello")>>)'
    BY <1>3, <2>1, HelloStep
  <2> QED BY <2>1, <2>2 DEF ChannelInv, LineInv
<1>6. CASE LosesSocket \/ Cancel
  <2>1. /\ UNCHANGED <<session, lastSeq, recent, taken, sent>> /\ arriving' = <<>>
        /\ gateway' = [gateway EXCEPT !.attached = FALSE] /\ asked' = Nobody
        /\ pc' \in {"backoff", "ended"}
    BY <1>6 DEF LosesSocket, Cancel, LeavesSocket, clientVars, boundVars, historyVars
  <2>2. /\ gateway' \in Gateways /\ gateway'.session = gateway.session /\ gateway'.log = gateway.log
        /\ gateway'.valid = gateway.valid /\ ~gateway'.attached
    BY <1>1, <2>1 DEF Gateways
  <2>3. PositionInv' /\ LineInv(<<>>)'
    BY <1>3, <2>1, <2>2, IdleStep, NobodyAsks
  <2> QED BY <2>1, <2>3 DEF ChannelInv, LineInv
<1> QED BY <1>4, <1>5, <1>6

LEMMA ChannelShakesHands ==
  ASSUME ChannelInv, ShakesHands
  PROVE  ChannelInv'
<1>1. gateway \in Gateways /\ asked \in Asked
  BY DEF ChannelInv, PositionInv, Types, Gateways, Asked
<1>2. PICK line : line = arriving
  OBVIOUS
<1>3. PositionInv /\ LineInv(line) /\ line # <<>>
  BY <1>2 DEF ChannelInv, LineInv, ShakesHands
<1>4. UNCHANGED <<recent, taken, sent>>
  BY DEF ShakesHands, boundVars, historyVars
<1>5. CASE /\ ReceivesHello \/ ReceivesResumeAnswer(Head(line).op) \/ ReceivesReady(Head(line))
           /\ arriving' = Tail(line)
           /\ UNCHANGED <<sock, gateway>>
  <2>1. \/ /\ pc = "hello" /\ session # 0
           /\ pc' = "resumed" /\ UNCHANGED <<session, lastSeq>> /\ Asks("resume")
        \/ /\ pc = "hello" /\ session = 0
           /\ pc' = "ready" /\ UNCHANGED <<session, lastSeq>> /\ Asks("identify")
        \/ /\ pc \in {"resumed", "ready"} /\ Head(line).op = pc /\ pc' = "frame"
           /\ session' = (IF pc = "ready" THEN Head(line).seq ELSE session)
           /\ UNCHANGED <<lastSeq, asked>>
        \/ /\ pc = "resumed" /\ Head(line).op = "invalid"
           /\ pc' = "ready" /\ session' = 0 /\ lastSeq' = 0 /\ Asks("identify")
        \/ /\ pc = "resumed" /\ Head(line).op \notin {"resumed", "invalid"}
           /\ pc' = "ready" /\ UNCHANGED <<session, lastSeq>> /\ Asks("identify")
    <3>1. CASE ReceivesHello
      <4>1. CASE session # 0
        BY <3>1, <4>1 DEF ReceivesHello
      <4>2. CASE session = 0
        BY <3>1, <4>2 DEF ReceivesHello
      <4> QED BY <4>1, <4>2
    <3>2. CASE ReceivesResumeAnswer(Head(line).op)
      <4>1. CASE Head(line).op = "resumed"
        BY <3>2, <4>1 DEF ReceivesResumeAnswer
      <4>2. CASE Head(line).op = "invalid"
        BY <3>2, <4>2 DEF ReceivesResumeAnswer
      <4>3. CASE Head(line).op \notin {"resumed", "invalid"}
        BY <3>2, <4>3 DEF ReceivesResumeAnswer
      <4> QED BY <4>1, <4>2, <4>3
    <3>3. CASE ReceivesReady(Head(line))
      BY <3>3 DEF ReceivesReady
    <3> QED BY <1>5, <3>1, <3>2, <3>3
  <2>2. PositionInv' /\ LineInv(Tail(line))'
    BY <1>3, <1>4, <1>5, <2>1, HandshakeStep
  <2> QED BY <1>5, <2>2 DEF ChannelInv, LineInv
<1>6. CASE pc = "ready" /\ LeavesSocket /\ UNCHANGED <<session, lastSeq, asked>>
  <2>1. /\ gateway' = [gateway EXCEPT !.attached = FALSE] /\ pc' = "backoff" /\ arriving' = <<>>
    BY <1>6 DEF LeavesSocket
  <2>2. /\ gateway' \in Gateways /\ gateway'.session = gateway.session /\ gateway'.log = gateway.log
        /\ gateway'.valid = gateway.valid /\ ~gateway'.attached
    BY <1>1, <2>1 DEF Gateways
  <2>3. asked.op = "none"
    BY <1>3 DEF LineInv, InLine, Waits
  <2>4. PositionInv' /\ LineInv(<<>>)'
    BY <1>1, <1>3, <1>4, <1>6, <2>1, <2>2, <2>3, IdleStep
  <2> QED BY <2>1, <2>4 DEF ChannelInv, LineInv
<1> QED BY <1>2, <1>5, <1>6 DEF ShakesHands

LEMMA ChannelRunsFrame ==
  ASSUME ChannelInv, RunsFrame
  PROVE  ChannelInv'
<1>1. gateway \in Gateways /\ asked \in Asked
  BY DEF ChannelInv, PositionInv, Types, Gateways, Asked
<1>2. PICK line : line = arriving
  OBVIOUS
<1>3. PositionInv /\ LineInv(line) /\ line # <<>> /\ pc = "frame"
  BY <1>2 DEF ChannelInv, LineInv, RunsFrame
<1>4. UNCHANGED <<asked, sent>> /\ asked.op = "none"
  BY <1>3 DEF RunsFrame, boundVars, LineInv, InLine, Waits
<1>5. CASE Head(line).op = "message" /\ TakesMessage(Head(line).id, Head(line).seq)
  <2>1. /\ lastSeq' = Head(line).seq /\ arriving' = Tail(line)
        /\ UNCHANGED <<pc, sock, session, gateway>>
        /\ \/ Contains(recent, Head(line).id) /\ UNCHANGED <<recent, taken>>
           \/ /\ ~Contains(recent, Head(line).id) /\ taken' = Append(taken, Head(line).id)
              /\ recent' = IF Len(recent) = Recent THEN Append(Tail(recent), Head(line).id)
                                                   ELSE Append(recent, Head(line).id)
    BY <1>2, <1>5 DEF TakesMessage, RemembersId
  <2>2. PositionInv' /\ LineInv(Tail(line))'
    BY <1>3, <1>4, <1>5, <2>1, TakesStep
  <2> QED BY <2>1, <2>2 DEF ChannelInv, LineInv
<1>6. ASSUME LeavesSocket
      PROVE  /\ gateway' \in Gateways /\ gateway'.session = gateway.session /\ gateway'.log = gateway.log
             /\ gateway'.valid = gateway.valid /\ ~gateway'.attached
             /\ pc' = "backoff" /\ arriving' = <<>>
  <2>1. gateway' = [gateway EXCEPT !.attached = FALSE] /\ pc' = "backoff" /\ arriving' = <<>>
    BY <1>6 DEF LeavesSocket
  <2> QED BY <1>1, <2>1 DEF Gateways
<1>7. CASE Head(line).op = "reconnect" /\ LeavesSocket /\ UNCHANGED <<clientVars, taken>>
  <2>1. PositionInv' /\ LineInv(<<>>)'
    BY <1>1, <1>3, <1>4, <1>6, <1>7, IdleStep DEF clientVars
  <2> QED BY <1>6, <1>7, <2>1 DEF ChannelInv, LineInv
<1>8. CASE /\ Head(line).op = "invalid" /\ LeavesSocket
           /\ session' = 0 /\ lastSeq' = 0 /\ UNCHANGED <<recent, taken>>
  <2>1. PositionInv' /\ (session' = gateway'.session \/ gateway'.valid => Ahead')
    BY <1>1, <1>3, <1>4, <1>6, <1>8, InvalidComes
  <2>2. InLine(<<>>, gateway', lastSeq', session', sock', pc', asked')
    BY <1>4, <1>6, <1>8, IdleLine
  <2>3. Live(<<>>)' => session' = gateway'.session \/ gateway'.valid
    BY DEF Live, ReadyComes
  <2>4. LineInv(<<>>)'
    BY <2>1, <2>2, <2>3 DEF LineInv
  <2> QED BY <1>6, <1>8, <2>1, <2>4 DEF ChannelInv, LineInv
<1> QED BY <1>2, <1>5, <1>7, <1>8 DEF RunsFrame
LEMMA ChannelStep == ChannelInv /\ [ChannelNext]_channelVars => ChannelInv'
<1> SUFFICES ASSUME ChannelInv, [ChannelNext]_channelVars PROVE ChannelInv'
  OBVIOUS
<1>1. CASE Channel \/ Cancel
  BY <1>1, ChannelConnects, ChannelShakesHands, ChannelRunsFrame DEF Channel
<1>2. CASE GatewayNext
  <2>1. PICK p : p = <<>>
    OBVIOUS
  <2>2. p \in Seq(Frames) /\ arriving \in Seq(Frames)
    BY <2>1 DEF ChannelInv, LineInv, InLine, Pushed
  <2>3. p \o arriving = arriving
    BY <2>1, <2>2, InARow
  <2>4. PositionInv /\ LineInv(p \o arriving)
    BY <2>3 DEF ChannelInv, LineInv, Live
  <2>5. PositionInv' /\ arriving' \in Seq(Frames) /\ LineInv(p \o arriving)'
    BY <1>2, <2>2, <2>4, GatewayStep
  <2>6. p \o arriving' = arriving'
    BY <2>1, <2>5
  <2> QED BY <2>5, <2>6 DEF ChannelInv, LineInv, Live
<1>3. CASE UNCHANGED channelVars
  <2>1. PICK line : line = arriving
    OBVIOUS
  <2>2. PositionInv /\ LineInv(line) /\ gateway \in Gateways
    BY <2>1 DEF ChannelInv, LineInv, PositionInv, Types, Gateways
  <2>3. UNCHANGED <<pc, sock, arriving, session, lastSeq, recent, taken, sent, gateway, asked>>
    BY <1>3 DEF channelVars, clientVars, gatewayVars, boundVars, historyVars
  <2>4. PositionInv' /\ LineInv(line)'
    BY <2>2, <2>3, SameStep
  <2> QED BY <2>1, <2>3, <2>4 DEF ChannelInv, LineInv
<1> QED BY <1>1, <1>2, <1>3 DEF ChannelNext

(* The channel: what it keeps of its session covers only what it took, and *)
(* what is under way goes on from there, in order.                         *)
THEOREM ChannelInvariant == ChannelSpec => []ChannelInv
<1>1. GatewayInit => ChannelInv
  <2> SUFFICES ASSUME GatewayInit PROVE ChannelInv
    OBVIOUS
  <2>1. arriving = <<>>
    BY DEF GatewayInit
  <2> QED BY <2>1, ChannelStarts DEF ChannelInv, LineInv
<1> QED BY <1>1, ChannelStep, PTL DEF ChannelSpec

(* The position with which the channel resumes covers no message of the    *)
(* session that _on_c2c_message was not given.                             *)
THEOREM ChannelPosition == ChannelSpec => []PositionIsTaken
<1>1. ChannelInv => PositionIsTaken
  BY DEF ChannelInv, PositionInv, PositionIsTaken
<1> QED BY <1>1, ChannelInvariant, PTL

(* The channel hands the hub each message once, in the order they were     *)
(* sent, but for what left its deque of ids.                               *)
THEOREM ChannelTakesOnce == ChannelSpec => []TakenOnceInOrder
<1>1. ChannelInv => TakenOnceInOrder
  BY DEF ChannelInv, PositionInv
<1> QED BY <1>1, ChannelInvariant, PTL
-----------------------------------------------------------------------------
(* The plugin: what waits in the queue stands in line before what arrives. *)
LEMMA PluginLine ==
  ASSUME PluginInv
  PROVE  /\ gateway \in Gateways /\ asked \in Asked /\ PositionInv /\ LineInv(queue \o arriving)
         /\ queue \in Seq(Frames) /\ arriving \in Seq(Frames) /\ queue \o arriving \in Seq(Frames)
         /\ queue = <<>> => queue \o arriving = arriving
         /\ pc \notin {"frame", "handler"} => queue = <<>>
  BY InARow DEF PluginInv, PositionInv, Types, Gateways, Asked

(* After a step that leaves nothing in line, or that leaves l.             *)
LEMMA PluginLineIs ==
  ASSUME PositionInv', NEW l, LineInv(l)', queue' \in Seq(Frames), arriving' \in Seq(Frames),
         queue' \o arriving' = l, pc' \notin {"frame", "handler"} => queue' = <<>>
  PROVE  PluginInv'
  BY DEF PluginInv, LineInv, Live

LEMMA PluginIdles ==
  ASSUME PluginInv, UNCHANGED <<session, lastSeq, recent, taken, sent>>, queue' = <<>>, arriving' = <<>>,
         gateway' \in {gateway, [gateway EXCEPT !.attached = FALSE]}, ~gateway'.attached,
         asked' \in {asked, Nobody}, asked'.op = "none",
         pc' \notin {"resumed", "ready", "frame", "handler"}
  PROVE  PluginInv'
<1>1. PICK line : line = queue \o arriving
  OBVIOUS
<1>2. PositionInv /\ LineInv(line) /\ gateway \in Gateways /\ asked \in Asked /\ Nobody \in Asked
  BY <1>1, PluginLine, NobodyAsks DEF LineInv, Live
<1>3. /\ gateway' \in Gateways /\ gateway'.session = gateway.session /\ gateway'.log = gateway.log
      /\ gateway'.valid = gateway.valid
  BY <1>2 DEF Gateways
<1>4. PositionInv' /\ LineInv(<<>>)'
  BY <1>2, <1>3, IdleStep
<1>5. queue' \in Seq(Frames) /\ arriving' \in Seq(Frames) /\ queue' \o arriving' = <<>>
  OBVIOUS
<1> QED BY <1>4, <1>5, PluginLineIs

LEMMA PluginStays ==
  ASSUME PluginInv, UNCHANGED <<session, lastSeq, recent, taken, sent, queue, arriving>>,
         gateway' \in {gateway, [gateway EXCEPT !.attached = FALSE]},
         sock' = sock \/ sock' # "open", asked' = asked \/ asked' = Nobody,
         \/ pc' = pc
         \/ pc = "handler" /\ pc' = "frame"
         \/ pc \in {"address", "backoff"} /\ pc' \in {"address", "open", "backoff", "ended"}
  PROVE  PluginInv'
<1>1. PICK line : line = queue \o arriving
  OBVIOUS
<1>2. PositionInv /\ LineInv(line) /\ gateway \in Gateways
  BY <1>1, PluginLine DEF LineInv, Live
<1>3. /\ gateway' \in Gateways /\ gateway'.session = gateway.session /\ gateway'.log = gateway.log
      /\ gateway'.valid = gateway.valid /\ (gateway'.attached => gateway.attached)
  BY <1>2 DEF Gateways
<1>4. PositionInv' /\ LineInv(line)'
  BY <1>2, <1>3, SameStep
<1>5. /\ queue' \in Seq(Frames) /\ arriving' \in Seq(Frames) /\ queue' \o arriving' = line
      /\ pc' \notin {"frame", "handler"} => queue' = <<>>
  BY <1>1, PluginLine
<1> QED BY <1>4, <1>5, PluginLineIs

LEMMA AddressStep ==
  ASSUME PluginInv, GetAddress
  PROVE  PluginInv'
<1>1. /\ pc = "address" /\ pc' \in {"open", "ended", "backoff"} /\ arriving' = <<>> /\ queue' = <<>>
      /\ UNCHANGED <<session, lastSeq, recent, taken, sent, gateway, asked>>
  BY DEF GetAddress, BackOff, clientVars, gatewayVars, historyVars
<1>2. ~gateway.attached /\ asked.op = "none"
  BY <1>1, PluginLine DEF LineInv, InLine, Greets, Waits, Asked
<1> QED BY <1>1, <1>2, PluginIdles

LEMMA OpenedStep ==
  ASSUME PluginInv, Opened
  PROVE  PluginInv'
<1>1. /\ pc = "open" /\ pc' = "hello" /\ sock' = "open" /\ arriving' = <<Plain("hello")>> /\ queue' = queue
      /\ UNCHANGED <<session, lastSeq, recent, taken, sent, gateway, asked>>
  BY DEF Opened, clientVars, gatewayVars, boundVars, historyVars
<1>2. PICK line : line = queue \o arriving
  OBVIOUS
<1>3. PositionInv /\ LineInv(line) /\ queue = <<>>
  BY <1>1, <1>2, PluginLine DEF LineInv, Live
<1>4. PositionInv' /\ LineInv(<<Plain("hello")>>)'
  BY <1>1, <1>3, HelloStep
<1>5. Plain("hello") \in Frames
  BY DEF Plain, Frames
<1>6. queue' \in Seq(Frames) /\ arriving' \in Seq(Frames) /\ queue' \o arriving' = <<Plain("hello")>>
  BY <1>1, <1>3, <1>5
<1> QED BY <1>1, <1>3, <1>4, <1>6 DEF PluginInv, LineInv, Live

LEMMA ClosedStep ==
  ASSUME PluginInv, Closed
  PROVE  PluginInv'
<1>1. /\ arriving = <<>> /\ sock' = "closed" /\ asked' = Nobody
      /\ gateway' = [gateway EXCEPT !.attached = FALSE]
      /\ UNCHANGED <<session, lastSeq, recent, taken, sent, queue, arriving>>
  BY DEF Closed, clientVars, boundVars
<1>2. ~gateway'.attached /\ asked'.op = "none"
  BY <1>1, PluginLine, NobodyAsks DEF Gateways
<1>3. CASE pc = "handler" /\ pc' = "handler"
  BY <1>1, <1>3, PluginStays
<1>4. CASE pc = "frame" /\ RoundAgain
  <2>1. queue = <<>> /\ pc' \in {"ended", "address"}
    BY <1>4 DEF Closed, EventTurn, RoundAgain
  <2> QED BY <1>1, <1>2, <2>1, PluginIdles
<1>5. CASE pc \in Handshake \cup {"open"} /\ BackOff
  <2>1. queue = <<>> /\ pc' \in {"ended", "backoff"}
    BY <1>5, PluginLine DEF BackOff, Handshake
  <2> QED BY <1>1, <1>2, <2>1, PluginIdles
<1> QED BY <1>3, <1>4, <1>5 DEF Closed

LEMMA StopStep ==
  ASSUME PluginInv, Stop
  PROVE  PluginInv'
<1>1. /\ UNCHANGED <<pc, session, lastSeq, recent, taken, sent, queue, gateway, asked>>
      /\ \/ sock' = "closing" /\ arriving' = <<>>
         \/ UNCHANGED <<sock, arriving>>
  BY DEF Stop, clientVars, gatewayVars, boundVars, historyVars
<1>2. CASE UNCHANGED <<sock, arriving>>
  BY <1>1, <1>2, PluginStays
<1>3. CASE sock' = "closing" /\ arriving' = <<>>
  <2>1. PICK p : p = queue
    OBVIOUS
  <2>2. PositionInv /\ p \in Seq(Frames) /\ arriving \in Seq(Frames) /\ LineInv(p \o arriving) /\ gateway \in Gateways
    BY <2>1, PluginLine DEF LineInv, Live
  <2>3. 0 \in 0 .. Len(arriving) /\ arriving' = SubSeq(arriving, 1, 0)
    BY <1>3, <2>2
  <2>4. PositionInv' /\ arriving' \in Seq(Frames) /\ LineInv(p \o arriving)'
    BY <1>1, <1>3, <2>2, <2>3, ArrivingIsCut
  <2>5. queue' = p /\ (pc' \notin {"frame", "handler"} => queue' = <<>>)
    BY <1>1, <2>1, PluginLine
  <2> QED BY <2>2, <2>4, <2>5 DEF PluginInv, LineInv, Live
<1> QED BY <1>1, <1>2, <1>3

LEMMA ShakesStep ==
  ASSUME PluginInv, Shakes
  PROVE  PluginInv'
<1>1. pc \in Handshake /\ arriving # <<>> /\ UNCHANGED <<recent, taken, sent>>
  BY DEF Shakes, boundVars, historyVars
<1>2. PICK line : line = arriving
  OBVIOUS
<1>3. PositionInv /\ LineInv(line) /\ queue = <<>> /\ line # <<>> /\ line \in Seq(Frames)
  <2>1. queue = <<>>
    BY <1>1, PluginLine DEF Handshake
  <2>2. queue \o arriving = line
    BY <1>2, <2>1, PluginLine
  <2> QED BY <1>1, <1>2, <2>1, <2>2, PluginLine DEF LineInv, Live
<1>4. CASE /\ pc = "ready" => Head(line).op = "ready"
           /\ arriving' = Tail(line)
           /\ ShakeHands
           /\ UNCHANGED <<sock, queue, gateway>>
  <2>1. \/ /\ pc = "hello" /\ session # 0
           /\ pc' = "resumed" /\ UNCHANGED <<session, lastSeq>> /\ Asks("resume")
        \/ /\ pc = "hello" /\ session = 0
           /\ pc' = "ready" /\ UNCHANGED <<session, lastSeq>> /\ Asks("identify")
        \/ /\ pc = "resumed" /\ Head(line).op = "resumed"
           /\ pc' = "frame" /\ UNCHANGED <<session, lastSeq, asked>>
        \/ /\ pc = "resumed" /\ Head(line).op = "invalid"
           /\ pc' = "ready" /\ session' = 0 /\ lastSeq' = 0 /\ Asks("identify")
        \/ /\ pc = "resumed" /\ Head(line).op \notin {"resumed", "invalid"}
           /\ pc' = "ready" /\ UNCHANGED <<session, lastSeq>> /\ Asks("identify")
        \/ /\ pc = "ready"
           /\ pc' = "frame" /\ session' = Head(line).seq /\ UNCHANGED <<lastSeq, asked>>
    BY <1>2, <1>4 DEF ShakeHands
  <2>2. \/ /\ pc = "hello" /\ session # 0
           /\ pc' = "resumed" /\ UNCHANGED <<session, lastSeq>> /\ Asks("resume")
        \/ /\ pc = "hello" /\ session = 0
           /\ pc' = "ready" /\ UNCHANGED <<session, lastSeq>> /\ Asks("identify")
        \/ /\ pc \in {"resumed", "ready"} /\ Head(line).op = pc /\ pc' = "frame"
           /\ session' = (IF pc = "ready" THEN Head(line).seq ELSE session)
           /\ UNCHANGED <<lastSeq, asked>>
        \/ /\ pc = "resumed" /\ Head(line).op = "invalid"
           /\ pc' = "ready" /\ session' = 0 /\ lastSeq' = 0 /\ Asks("identify")
        \/ /\ pc = "resumed" /\ Head(line).op \notin {"resumed", "invalid"}
           /\ pc' = "ready" /\ UNCHANGED <<session, lastSeq>> /\ Asks("identify")
    BY <1>4, <2>1
  <2>3. PositionInv' /\ LineInv(Tail(line))'
    BY <1>1, <1>3, <1>4, <2>2, HandshakeStep
  <2>4. Tail(line) \in Seq(Frames)
    BY <1>3, ElementsShrink
  <2>5. queue' = <<>> /\ queue' \in Seq(Frames) /\ queue' \o arriving' = Tail(line) /\ arriving' \in Seq(Frames)
    BY <1>3, <1>4, <2>4
  <2> QED BY <2>3, <2>5 DEF PluginInv, LineInv, Live
<1>5. CASE pc = "ready" /\ Abandons /\ UNCHANGED <<session, lastSeq, asked>>
  <2>1. /\ gateway' = [gateway EXCEPT !.attached = FALSE] /\ queue' = <<>> /\ arriving' = <<>>
        /\ pc' \in {"ended", "backoff"}
    BY <1>5 DEF Abandons, BackOff
  <2>2. ~gateway'.attached
    BY <2>1, PluginLine DEF Gateways
  <2>3. asked.op = "none"
    BY <1>3 DEF LineInv, InLine, Waits
  <2> QED BY <1>1, <1>5, <2>1, <2>2, <2>3, PluginIdles
<1> QED BY <1>2, <1>4, <1>5 DEF Shakes
LEMMA ArrivesStep ==
  ASSUME PluginInv, Arrives
  PROVE  PluginInv'
<1>1. /\ pc \in {"frame", "handler"} /\ arriving # <<>> /\ UNCHANGED <<pc, sock>>
      /\ arriving' = Tail(arriving) /\ queue' = Append(queue, Head(arriving))
      /\ UNCHANGED <<session, lastSeq, recent, taken, sent, gateway, asked>>
  BY DEF Arrives, clientVars, gatewayVars, boundVars, historyVars
<1>2. PICK line : line = queue \o arriving
  OBVIOUS
<1>3. PositionInv /\ LineInv(line) /\ gateway \in Gateways /\ queue \in Seq(Frames) /\ arriving \in Seq(Frames)
  BY <1>2, PluginLine DEF LineInv, Live
<1>4. PositionInv' /\ LineInv(line)'
  BY <1>1, <1>3, SameStep
<1>5. Head(arriving) \in Frames /\ arriving' \in Seq(Frames)
  BY <1>1, <1>3, ElementsShrink
<1>6. queue' \in Seq(Frames) /\ queue' \o arriving' = line
  <2>1. Append(queue, Head(arriving)) \o Tail(arriving) = queue \o arriving
    BY <1>1, <1>3, <1>5, InARow
  <2>2. Append(queue, Head(arriving)) \in Seq(Frames)
    BY <1>3, <1>5
  <2> QED BY <1>1, <1>2, <2>1, <2>2
<1> QED BY <1>1, <1>4, <1>5, <1>6, PluginLineIs

LEMMA TakesFrameStep ==
  ASSUME PluginInv, TakesFrame
  PROVE  PluginInv'
<1>1. /\ pc = "frame" /\ queue # <<>> /\ queue' = Tail(queue)
      /\ UNCHANGED <<asked, gateway, sent>>
  BY DEF TakesFrame, gatewayVars, boundVars
<1>2. PICK line : line = queue \o arriving
  OBVIOUS
<1>3. PositionInv /\ LineInv(line) /\ gateway \in Gateways /\ queue \in Seq(Frames) /\ arriving \in Seq(Frames)
  BY <1>2, PluginLine DEF LineInv, Live
<1>4. /\ line # <<>> /\ line \in Seq(Frames) /\ Head(line) = Head(queue)
      /\ Tail(line) = Tail(queue) \o arriving /\ queue' \in Seq(Frames)
  <2>1. Head(line) = Head(queue) /\ Tail(line) = Tail(queue) \o arriving /\ line # <<>> /\ line \in Seq(Frames)
    BY <1>1, <1>2, <1>3, InARow
  <2> QED BY <1>1, <1>3, <2>1, ElementsShrink
<1>5. PICK f : f = Head(line)
  OBVIOUS
<1>6. CASE f.op = "message" /\ Take(f.id, f.seq)
  <2>1. /\ lastSeq' = f.seq /\ UNCHANGED <<session, sock, arriving>> /\ pc' \in {"frame", "handler"}
        /\ \/ Contains(recent, f.id) /\ UNCHANGED <<recent, taken>>
           \/ /\ ~Contains(recent, f.id) /\ taken' = Append(taken, f.id)
              /\ recent' = IF Len(Append(recent, f.id)) > Recent THEN Tail(Append(recent, f.id))
                                                                 ELSE Append(recent, f.id)
    BY <1>1, <1>6 DEF Take, Remember
  <2>2. PositionInv' /\ LineInv(Tail(line))'
    BY <1>1, <1>3, <1>4, <1>5, <1>6, <2>1, TakesStep
  <2>3. arriving' \in Seq(Frames) /\ queue' \o arriving' = Tail(line)
    BY <1>1, <1>3, <1>4, <2>1
  <2> QED BY <1>4, <2>1, <2>2, <2>3 DEF PluginInv, LineInv, Live
<1>7. CASE f.op = "reconnect" /\ Reconnect
  <2>1. /\ UNCHANGED <<pc, session, lastSeq, recent, taken>> /\ arriving' = <<>> /\ sock' # "open"
    BY <1>7 DEF Reconnect, clientVars, historyVars
  <2>2. PositionInv' /\ (Ahead => Ahead')
    BY <1>1, <1>3, <2>1, PositionStays DEF PositionInv, Types
  <2>3. gateway.log \in Seq(Nat) /\ lastSeq \in Nat
    BY <1>3, LogTypes
  <2>4. InLine(line, gateway, lastSeq, session, sock, "frame", asked)
    BY <1>1, <1>3 DEF LineInv
  <2>5. InLine(Tail(line), gateway, lastSeq, session, sock, "frame", asked)
    BY <1>4, <1>5, <1>7, <2>3, <2>4, FrameIsTaken
  <2>6. /\ Len(queue') \in 0 .. Len(Tail(line)) /\ SubSeq(Tail(line), 1, Len(queue')) = queue'
        /\ queue' \o arriving' = queue' /\ arriving' \in Seq(Frames)
    <3>1. PICK p \in Seq(Frames) : p = queue'
      BY <1>4
    <3>2. p \o SubSeq(arriving, 1, 0) = SubSeq(p \o arriving, 1, Len(p) + 0) /\ Len(p) + 0 \in 0 .. Len(p \o arriving)
      <4>1. 0 \in 0 .. Len(arriving)
        BY <1>3
      <4> QED BY <1>3, <4>1, CutBehind
    <3>3. SubSeq(arriving, 1, 0) = <<>> /\ p \o <<>> = p /\ Len(p) + 0 = Len(p)
      BY <1>3
    <3>4. Tail(line) = p \o arriving /\ queue' = p
      BY <1>1, <1>4, <3>1
    <3> QED BY <2>1, <3>2, <3>3, <3>4
  <2>7. InLine(queue', gateway, lastSeq, session, sock', "frame", asked)
    BY <2>1, <2>5, <2>6, LineIsCut
  <2>8. session = gateway.session \/ gateway.valid => Ahead
    BY <1>3 DEF LineInv, Live
  <2> QED BY <1>1, <1>4, <2>1, <2>2, <2>6, <2>7, <2>8 DEF PluginInv, LineInv, Live, ReadyComes
<1>8. CASE f.op = "invalid" /\ Forget
  <2>1. /\ UNCHANGED <<pc, sock, arriving, recent, taken>> /\ session' = 0 /\ lastSeq' = 0
    BY <1>8 DEF Forget, historyVars
  <2>2. asked \in Asked /\ asked.op = "none"
    BY <1>3, <1>4 DEF PositionInv, Types, Asked, LineInv, InLine, Waits
  <2>3. /\ PositionInv' /\ (session' = gateway'.session \/ gateway'.valid => Ahead')
        /\ Tail(line) = <<>> /\ sock # "open"
    BY <1>1, <1>3, <1>4, <1>5, <1>8, <2>1, <2>2, InvalidComes
  <2>4. queue' \o arriving' = <<>>
    BY <1>1, <1>4, <2>1, <2>3
  <2>5. Pushed(<<>>, gateway, 0, sock) /\ Ends(<<>>, gateway, sock, "frame")
        /\ Greets(<<>>, gateway, 0, sock, "frame") /\ Waits(<<>>, gateway, 0, "frame", asked)
    BY <2>2, <2>3, NoFrames DEF Pushed, Ends, Greets, Waits, ReadyComes
  <2> QED BY <1>1, <1>3, <1>4, <2>1, <2>3, <2>4, <2>5 DEF PluginInv, LineInv, InLine, Live, ReadyComes
<1> QED BY <1>4, <1>5, <1>6, <1>7, <1>8 DEF TakesFrame

LEMMA HandledStep ==
  ASSUME PluginInv, Handled
  PROVE  PluginInv'
<1>1. pc = "handler" /\ UNCHANGED <<session, lastSeq, recent, taken, sent, asked>>
  BY DEF Handled, clientVars, historyVars
<1>2. CASE pc' = "frame" /\ UNCHANGED <<sock, arriving, queue, gateway>>
  BY <1>1, <1>2, PluginStays
<1>3. CASE Abandons
  <2>1. /\ gateway' = [gateway EXCEPT !.attached = FALSE] /\ queue' = <<>> /\ arriving' = <<>>
        /\ pc' \in {"ended", "backoff"}
    BY <1>3 DEF Abandons, BackOff
  <2>2. ~gateway'.attached
    BY <2>1, PluginLine DEF Gateways
  <2>3. asked.op = "none"
    BY <1>1, PluginLine DEF LineInv, InLine, Waits, Asked
  <2> QED BY <1>1, <2>1, <2>2, <2>3, PluginIdles
<1> QED BY <1>2, <1>3 DEF Handled

LEMMA WakeUpStep ==
  ASSUME PluginInv, WakeUp
  PROVE  PluginInv'
  BY PluginStays DEF WakeUp, RoundAgain, clientVars, gatewayVars, boundVars, historyVars

LEMMA PluginGatewayStep ==
  ASSUME PluginInv, GatewayNext, UNCHANGED queue
  PROVE  PluginInv'
<1>1. PICK p : p = queue
  OBVIOUS
<1>2. PositionInv /\ p \in Seq(Frames) /\ arriving \in Seq(Frames) /\ LineInv(p \o arriving)
  BY <1>1, PluginLine DEF LineInv, Live
<1>3. PositionInv' /\ arriving' \in Seq(Frames) /\ LineInv(p \o arriving)' /\ pc' = pc
  BY <1>2, GatewayStep
<1>4. queue' = p /\ (pc' \notin {"frame", "handler"} => queue' = <<>>)
  BY <1>1, <1>3, PluginLine
<1> QED BY <1>2, <1>3, <1>4 DEF PluginInv, LineInv, Live

LEMMA PluginStep == PluginInv /\ [Next]_vars => PluginInv'
<1> SUFFICES ASSUME PluginInv, [Next]_vars PROVE PluginInv'
  OBVIOUS
<1>1. CASE Client
  BY <1>1, AddressStep, OpenedStep, WakeUpStep, ClosedStep, ShakesStep, ArrivesStep, TakesFrameStep,
     HandledStep DEF Client
<1>2. CASE Stop
  BY <1>2, StopStep
<1>3. CASE GatewayNext /\ UNCHANGED queue
  BY <1>3, PluginGatewayStep
<1>4. CASE UNCHANGED vars
  BY <1>4, PluginStays DEF vars, clientVars, gatewayVars, boundVars, historyVars
<1> QED BY <1>1, <1>2, <1>3, <1>4 DEF Next

(* The plugin: what it keeps of its session covers only what it took, and  *)
(* what waits in its queue and is under way goes on from there, in order.  *)
THEOREM PluginInvariant == Spec => []PluginInv
<1>1. Init => PluginInv
  <2> SUFFICES ASSUME Init PROVE PluginInv
    OBVIOUS
  <2>1. queue = <<>> /\ arriving = <<>> /\ queue \o arriving = <<>>
    BY DEF Init, GatewayInit
  <2>2. PositionInv /\ LineInv(<<>>)
    BY ChannelStarts DEF Init
  <2> QED BY <2>1, <2>2 DEF PluginInv, LineInv, Live
<1> QED BY <1>1, PluginStep, PTL DEF Spec

(* The position with which the plugin resumes covers no message of the     *)
(* session that onMessage was not given: what waits in the queue is pushed *)
(* again.                                                                  *)
THEOREM PluginPosition == Spec => []PositionIsTaken
<1>1. PluginInv => PositionIsTaken
  BY DEF PluginInv, PositionInv, PositionIsTaken
<1> QED BY <1>1, PluginInvariant, PTL

(* The plugin hands each message on once, in the order they were sent, but *)
(* for what left its set of ids.                                           *)
THEOREM PluginTakesOnce == Spec => []TakenOnceInOrder
<1>1. PluginInv => TakenOnceInOrder
  BY DEF PluginInv, PositionInv
<1> QED BY <1>1, PluginInvariant, PTL
=============================================================================
