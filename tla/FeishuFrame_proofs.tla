------------------------- MODULE FeishuFrame_proofs -------------------------
(***************************************************************************)
(* Theorems about the frames of Feishu: what a client reads of a frame is  *)
(* what was written, and what it acknowledges is the same frame, for all   *)
(* frames, bases and limits.  The functions of the codec are recursive;    *)
(* Least stands for induction, and Recursion for their definition.         *)
(***************************************************************************)
EXTENDS FeishuFrame, FiniteSetTheorems, SequenceTheorems, WellFoundedInduction, TLAPS

-----------------------------------------------------------------------------
(* Induction: what is not so for some number is not so for a least one. *)
LEMMA Least ==
  ASSUME NEW S \in SUBSET Nat, S # {}
  PROVE  \E n \in S : \A m \in S : n <= m
<1> DEFINE R == OpToRel(<, Nat)
<1>1. IsWellFoundedOn(R, Nat)
  BY NatLessThanWellFounded
<1>2. \A m, n \in Nat : m < n => <<m, n>> \in R
  BY DEF OpToRel
<1> HIDE DEF R
<1>3. PICK n \in S : \A m \in S : ~(<<m, n>> \in R)
  BY <1>1, WFMin
<1>4. \A m \in S : m \in Nat /\ n \in Nat /\ ~(m < n)
  BY <1>2, <1>3
<1> QED BY <1>4

(* A definition by recursion, in which what is defined for x depends on    *)
(* what is of a smaller measure, has a function: f is as defined below n,  *)
(* such functions agree, and there is one for every n.                     *)
AsDefined(A, mu, D, n, f) == \A x \in A : mu[x] < n => f[x] = D[x][f]

DependsOnSmaller(A, S, mu, D) ==
  \A x \in A, g, h \in [A -> S] :
    (\A y \in A : mu[y] < mu[x] => g[y] = h[y]) => D[x][g] = D[x][h]

Recursive(A, S, mu, D) ==
  /\ S # {} /\ mu \in [A -> Nat] /\ D \in [A -> [[A -> S] -> S]]
  /\ DependsOnSmaller(A, S, mu, D)

(* Two functions defined up to some bounds agree below both. *)
LEMMA DefinedOnce ==
  ASSUME NEW A, NEW S, NEW mu \in [A -> Nat], NEW D, DependsOnSmaller(A, S, mu, D),
         NEW n \in Nat, NEW k \in Nat, NEW g \in [A -> S], NEW h \in [A -> S],
         AsDefined(A, mu, D, n, g), AsDefined(A, mu, D, k, h),
         NEW z \in A, mu[z] < n, mu[z] < k
  PROVE  g[z] = h[z]
<1> DEFINE Bad == {m \in Nat : \E x \in A : mu[x] = m /\ m < n /\ m < k /\ g[x] # h[x]}
<1> SUFFICES ASSUME Bad # {} PROVE FALSE
  OBVIOUS
<1>1. PICK m \in Bad : \A i \in Bad : m <= i
  BY Least
<1>2. PICK x \in A : mu[x] = m /\ m < n /\ m < k /\ g[x] # h[x]
  OBVIOUS
<1>3. \A y \in A : mu[y] < mu[x] => g[y] = h[y]
  <2> SUFFICES ASSUME NEW y \in A, mu[y] < mu[x], g[y] # h[y] PROVE FALSE
    OBVIOUS
  <2>1. mu[y] \in Nat /\ mu[x] \in Nat /\ m \in Nat
    OBVIOUS
  <2>2. mu[y] < m /\ mu[y] < n /\ mu[y] < k
    BY <1>2, <2>1
  <2>3. m <= mu[y]
    BY <1>1, <2>1, <2>2
  <2> QED BY <2>1, <2>2, <2>3
<1>4. D[x][g] = D[x][h]
  BY <1>3 DEF DependsOnSmaller
<1>5. g[x] = D[x][g] /\ h[x] = D[x][h]
  BY <1>2 DEF AsDefined
<1> QED BY <1>2, <1>4, <1>5

(* Up to every bound there is such a function. *)
LEMMA DefinedBelow ==
  ASSUME NEW A, NEW S, NEW some \in S, NEW mu \in [A -> Nat],
         NEW D \in [A -> [[A -> S] -> S]], DependsOnSmaller(A, S, mu, D), NEW n \in Nat
  PROVE  \E g \in [A -> S] : AsDefined(A, mu, D, n, g)
<1> DEFINE Bad == {m \in Nat : ~ \E g \in [A -> S] : AsDefined(A, mu, D, m, g)}
<1> SUFFICES ASSUME Bad # {} PROVE FALSE
  OBVIOUS
<1>1. PICK m \in Bad : \A k \in Bad : m <= k
  BY Least
<1>2. m # 0
  <2> DEFINE g == [x \in A |-> some]
  <2>1. g \in [A -> S] /\ AsDefined(A, mu, D, 0, g)
    BY DEF AsDefined
  <2> QED BY <2>1
<1>3. m - 1 \in Nat /\ m - 1 \notin Bad
  <2>1. m \in Nat /\ m - 1 \in Nat /\ ~(m <= m - 1)
    BY <1>2
  <2> HIDE DEF Bad
  <2> QED BY <1>1, <2>1
<1>4. PICK g \in [A -> S] : AsDefined(A, mu, D, m - 1, g)
  BY <1>3
<1> DEFINE h == [x \in A |-> IF mu[x] < m - 1 THEN g[x] ELSE D[x][g]]
<1>5. h \in [A -> S]
  OBVIOUS
<1>6. ASSUME NEW x \in A, mu[x] < m PROVE h[x] = D[x][h]
  <2>1. \A y \in A : mu[y] < mu[x] => g[y] = h[y]
    <3> SUFFICES ASSUME NEW y \in A, mu[y] < mu[x] PROVE g[y] = h[y]
      OBVIOUS
    <3>1. mu[y] \in Nat /\ mu[x] \in Nat /\ m \in Nat
      OBVIOUS
    <3>2. mu[y] < m - 1
      BY <1>6, <3>1
    <3> QED BY <3>2
  <2>2. D[x][g] = D[x][h]
    BY <1>5, <2>1 DEF DependsOnSmaller
  <2>3. h[x] = D[x][g]
    BY <1>4 DEF AsDefined
  <2> QED BY <2>2, <2>3
<1> QED BY <1>5, <1>6 DEF AsDefined

(* A recursive function whose value at an argument depends on smaller ones *)
(* only exists: it satisfies its equation.                                 *)
LEMMA Recursion ==
  ASSUME NEW A, NEW S, NEW mu, NEW D, Recursive(A, S, mu, D)
  PROVE  \E f \in [A -> S] : \A x \in A : f[x] = D[x][f]
<1>0. PICK some \in S : TRUE
  BY DEF Recursive
<1> USE DEF Recursive
<1> DEFINE Of(x) == CHOOSE g \in [A -> S] : AsDefined(A, mu, D, mu[x] + 1, g)
           f == [x \in A |-> Of(x)[x]]
<1>1. ASSUME NEW x \in A
      PROVE  Of(x) \in [A -> S] /\ AsDefined(A, mu, D, mu[x] + 1, Of(x)) /\ mu[x] + 1 \in Nat
  <2>1. mu[x] + 1 \in Nat
    OBVIOUS
  <2>2. \E g \in [A -> S] : AsDefined(A, mu, D, mu[x] + 1, g)
    BY <2>1, DefinedBelow
  <2> QED BY <2>1, <2>2
<1> HIDE DEF Of
<1>2. f \in [A -> S]
  BY <1>1
<1>3. ASSUME NEW x \in A PROVE f[x] = D[x][f]
  <2>1. Of(x)[x] = D[x][Of(x)]
    <3>1. mu[x] < mu[x] + 1
      OBVIOUS
    <3> QED BY <1>1, <3>1 DEF AsDefined
  <2>2. \A y \in A : mu[y] < mu[x] => Of(x)[y] = f[y]
    <3> SUFFICES ASSUME NEW y \in A, mu[y] < mu[x] PROVE Of(x)[y] = Of(y)[y]
      OBVIOUS
    <3>1. mu[y] < mu[y] + 1 /\ mu[y] < mu[x] + 1
      OBVIOUS
    <3>2. /\ Of(x) \in [A -> S] /\ AsDefined(A, mu, D, mu[x] + 1, Of(x)) /\ mu[x] + 1 \in Nat
          /\ Of(y) \in [A -> S] /\ AsDefined(A, mu, D, mu[y] + 1, Of(y)) /\ mu[y] + 1 \in Nat
      BY <1>1
    <3> HIDE DEF f
    <3> QED BY <3>1, <3>2, DefinedOnce
  <2>3. D[x][Of(x)] = D[x][f]
    BY <1>1, <1>2, <2>2 DEF DependsOnSmaller
  <2> QED BY <2>1, <2>3
<1> QED BY <1>2, <1>3

-----------------------------------------------------------------------------
(* The digits of a number. *)
IsGroups(g) ==
  g = [m \in Nat |-> IF m < Base THEN <<m>> ELSE <<Base + (m % Base)>> \o g[m \div Base]]

(* Arithmetic of digits: what is left of a number, and how a marked one is *)
(* read.                                                                   *)
LEMMA Digits ==
  ASSUME NEW m \in Nat
  PROVE  /\ m % Base \in 0 .. Base - 1 /\ m \div Base \in Nat
         /\ m = (m % Base) + Base * (m \div Base)
         /\ m < Base => m % Base = m
         /\ m >= Base => m \div Base < m /\ m \div Base >= 1
         /\ (Base + (m % Base)) % Base = m % Base
         /\ Base + (m % Base) \in Bytes
<1>1. Base \in Nat \ {0, 1}
  BY FrameAssumption
<1>2. m % Base \in 0 .. Base - 1 /\ m \div Base \in Nat
  BY <1>1
<1>3. m = (m % Base) + Base * (m \div Base)
  BY <1>1
<1>4. m < Base => m % Base = m
  BY <1>1
<1>5. m >= Base => m \div Base < m /\ m \div Base >= 1
  BY <1>1
<1>6. \A x \in 0 .. Base - 1 : (Base + x) % Base = x /\ Base + x \in 0 .. 2 * Base - 1
  BY <1>1
<1> QED BY <1>2, <1>3, <1>4, <1>5, <1>6 DEF Bytes

(* What a text consists of. *)
LEMMA TextIs ==
  ASSUME NEW s \in Texts
  PROVE  /\ Len(s) \in Nat /\ Base \in Nat
         /\ \A k \in 1 .. Len(s) : s[k] \in Bytes /\ s[k] \in Nat /\ s[k] % Base \in Nat
<1>1. Base \in Nat \ {0, 1}
  BY FrameAssumption
<1>2. \A k \in 1 .. Len(s) : s[k] \in Bytes /\ s[k] \in Nat
  BY <1>1 DEF Texts, Bytes
<1>3. \A x \in Nat : x % Base \in Nat
  BY <1>1
<1> QED BY <1>1, <1>2, <1>3 DEF Texts

(* The recursive function in Varint exists. *)
LEMMA GroupsExist == \E g \in [Nat -> Texts] : IsGroups(g)
<1> DEFINE D == [m \in Nat |-> [g \in [Nat -> Texts] |->
                   IF m < Base THEN <<m>> ELSE <<Base + (m % Base)>> \o g[m \div Base]]]
           mu == [m \in Nat |-> m]
<1>1. mu \in [Nat -> Nat] /\ <<>> \in Texts
  BY DEF Texts
<1>2. ASSUME NEW m \in Nat, NEW g \in [Nat -> Texts] PROVE D[m][g] \in Texts
  <2>1. CASE m < Base
    <3>1. m \in Bytes
      BY <2>1, FrameAssumption DEF Bytes
    <3> QED BY <2>1, <3>1 DEF Texts
  <2>2. CASE ~(m < Base)
    <3>1. <<Base + (m % Base)>> \in Texts /\ g[m \div Base] \in Texts
      BY Digits DEF Texts
    <3> QED BY <2>2, <3>1 DEF Texts
  <2> QED BY <2>1, <2>2
<1>3. D \in [Nat -> [[Nat -> Texts] -> Texts]]
  BY <1>2
<1>4. DependsOnSmaller(Nat, Texts, mu, D)
  <2> SUFFICES ASSUME NEW m \in Nat, NEW g \in [Nat -> Texts], NEW h \in [Nat -> Texts],
                      \A y \in Nat : mu[y] < mu[m] => g[y] = h[y]
               PROVE  D[m][g] = D[m][h]
    BY DEF DependsOnSmaller
  <2>1. ~(m < Base) => g[m \div Base] = h[m \div Base]
    <3>1. Base \in Nat /\ (m >= Base => m \div Base < m /\ m \div Base \in Nat)
      BY Digits, FrameAssumption
    <3> QED BY <3>1
  <2> QED BY <2>1
<1> DEFINE A == Nat
<1>5. \E g \in [A -> Texts] : \A m \in A : g[m] = D[m][g]
  <2>1. Recursive(A, Texts, mu, D)
    BY <1>1, <1>3, <1>4 DEF Recursive
  <2> HIDE DEF D, mu, A
  <2> QED BY <2>1, Recursion
<1>6. PICK g \in [Nat -> Texts] : \A m \in Nat : g[m] = D[m][g]
  BY <1>5
<1>7. IsGroups(g)
  BY <1>6 DEF IsGroups
<1> QED BY <1>7

(* The digits are bytes, of which the last one only is not marked. *)
LEMMA GroupsTyped ==
  ASSUME NEW g, IsGroups(g), NEW m \in Nat
  PROVE  /\ g[m] \in Texts /\ Len(g[m]) >= 1 /\ g[m][Len(g[m])] < Base
         /\ \A k \in 1 .. Len(g[m]) - 1 : g[m][k] >= Base
<1> DEFINE Good(x) == /\ g[x] \in Texts /\ Len(g[x]) >= 1 /\ g[x][Len(g[x])] < Base
                      /\ \A k \in 1 .. Len(g[x]) - 1 : g[x][k] >= Base
           Bad == {x \in Nat : ~Good(x)}
<1> SUFFICES ASSUME Bad # {} PROVE FALSE
  OBVIOUS
<1>1. PICK x \in Bad : \A y \in Bad : x <= y
  BY Least
<1>2. CASE x < Base
  <2>1. g[x] = <<x>> /\ x \in Bytes
    BY <1>2, FrameAssumption DEF IsGroups, Bytes
  <2>2. g[x] \in Texts /\ Len(g[x]) = 1 /\ g[x][1] = x
    BY <2>1 DEF Texts
  <2> QED BY <1>2, <2>2
<1>3. CASE ~(x < Base)
  <2>1. Base \in Nat /\ x >= Base
    BY <1>3, FrameAssumption
  <2> DEFINE y == x \div Base
             b == Base + (x % Base)
  <2>2. y \in Nat /\ y < x /\ b \in Bytes /\ b >= Base /\ b \in Nat
    <3>1. x % Base \in 0 .. Base - 1
      BY Digits
    <3>2. y \in Nat /\ y < x /\ b \in Bytes
      BY <2>1, Digits
    <3> QED BY <2>1, <3>1, <3>2
  <2>3. g[x] = <<b>> \o g[y]
    BY <1>3 DEF IsGroups
  <2>4. Good(y)
    <3> HIDE DEF Good, y, b
    <3> QED BY <1>1, <2>2
  <2> HIDE DEF y, b
  <2>5. <<b>> \in Seq(Bytes) /\ g[y] \in Seq(Bytes)
    BY <2>2, <2>4 DEF Texts
  <2>6. /\ g[x] \in Texts /\ Len(g[x]) = 1 + Len(g[y]) /\ g[x][1] = b
        /\ \A k \in 1 .. Len(g[y]) : g[x][k + 1] = g[y][k]
    BY <2>3, <2>5 DEF Texts
  <2>7. Len(g[y]) \in Nat /\ Len(g[x]) >= 1 /\ g[x][Len(g[x])] < Base
    BY <2>4, <2>5, <2>6
  <2>8. ASSUME NEW k \in 1 .. Len(g[x]) - 1 PROVE g[x][k] >= Base
    <3>1. CASE k = 1
      BY <3>1, <2>2, <2>6
    <3>2. CASE k # 1
      <4>1. k - 1 \in 1 .. Len(g[y]) - 1 /\ (k - 1) + 1 = k
        BY <2>6, <2>7, <3>2
      <4>2. g[x][k] = g[y][k - 1]
        BY <2>6, <2>7, <4>1
      <4> QED BY <2>4, <4>1, <4>2
    <3> QED BY <3>1, <3>2
  <2> QED BY <2>6, <2>7, <2>8
<1> QED BY <1>2, <1>3

(* Varint is given by it. *)
LEMMA VarintGroups == \E g : IsGroups(g) /\ \A n : Varint(n) = g[n % Modulus]
<1> DEFINE g == CHOOSE h : IsGroups(h)
<1>1. IsGroups(g)
  BY GroupsExist
<1>2. \A n : Varint(n) = g[n % Modulus]
  BY DEF Varint, IsGroups
<1> QED BY <1>1, <1>2

-----------------------------------------------------------------------------
(* A number that is kept to 53 bits or so. *)
IsStep(g, exact) == g = [m \in Nat |-> IF m < exact THEN 1 ELSE 2 * g[m \div 2]]

(* The recursive function in Rounded exists. *)
LEMMA StepExists == ASSUME NEW exact \in Nat \ {0} PROVE \E g \in [Nat -> Nat] : IsStep(g, exact)
<1> DEFINE D == [m \in Nat |-> [g \in [Nat -> Nat] |->
                                  IF m < exact THEN 1 ELSE 2 * g[m \div 2]]]
           mu == [m \in Nat |-> m]
           A  == Nat
<1>1. \A m \in Nat : ~(m < exact) => m \div 2 \in Nat /\ m \div 2 < m
  OBVIOUS
<1>2. mu \in [A -> Nat] /\ A # {} /\ D \in [A -> [[A -> A] -> A]]
  BY <1>1
<1>3. DependsOnSmaller(A, A, mu, D)
  BY <1>1 DEF DependsOnSmaller
<1>4. Recursive(A, A, mu, D)
  BY <1>2, <1>3 DEF Recursive
<1>5. \E g \in [A -> A] : \A m \in A : g[m] = D[m][g]
  <2> HIDE DEF A, D, mu
  <2> QED BY <1>4, Recursion
<1>6. PICK g \in [Nat -> Nat] : \A m \in Nat : g[m] = D[m][g]
  BY <1>5
<1> QED BY <1>6 DEF IsStep

(* Its values are positive. *)
LEMMA StepTyped ==
  ASSUME NEW exact \in Nat \ {0}, NEW g, IsStep(g, exact), NEW n \in Nat
  PROVE  /\ g[n] \in Nat \ {0}
         /\ n < exact => g[n] = 1
         /\ n >= exact => g[n] >= 2
<1> DEFINE Bad == {x \in Nat : g[x] \notin Nat \ {0}}
<1>1. Bad = {}
  <2> SUFFICES ASSUME Bad # {} PROVE FALSE
    OBVIOUS
  <2>1. PICK x \in Bad : \A y \in Bad : x <= y
    BY Least
  <2>2. CASE x < exact
    BY <2>2 DEF IsStep
  <2>3. CASE ~(x < exact)
    <3>1. x \div 2 \in Nat /\ x \div 2 < x
      BY <2>3
    <3>2. g[x \div 2] \in Nat \ {0}
      BY <2>1, <3>1
    <3>3. g[x] = 2 * g[x \div 2]
      BY <2>3 DEF IsStep
    <3> QED BY <3>2, <3>3
  <2> QED BY <2>2, <2>3
<1>2. CASE n < exact
  BY <1>2 DEF IsStep
<1>3. CASE ~(n < exact)
  <2>1. n \div 2 \in Nat /\ g[n] = 2 * g[n \div 2]
    BY <1>3 DEF IsStep
  <2>2. g[n \div 2] \in Nat \ {0}
    BY <1>1, <2>1
  <2> QED BY <1>3, <2>1, <2>2
<1> QED BY <1>2, <1>3

(* Rounding leaves alone what can be kept, and makes no number 1. *)
LEMMA RoundedIs ==
  ASSUME NEW exact \in Nat \ {0}, NEW n \in Nat
  PROVE  /\ Rounded(n, exact) \in Nat
         /\ n < exact => Rounded(n, exact) = n
         /\ exact > 1 => (Rounded(n, exact) = 1 <=> n = 1)
<1> DEFINE g    == CHOOSE h : IsStep(h, exact)
           unit == g[n]
           half == 2 * (n % unit)
           up   == half > unit \/ (half = unit /\ (n \div unit) % 2 = 1)
<1>1. IsStep(g, exact)
  BY StepExists
<1>2. Rounded(n, exact) = ((n \div unit) + IF up THEN 1 ELSE 0) * unit
  BY DEF Rounded, IsStep
<1>3. /\ unit \in Nat \ {0}
      /\ n < exact => unit = 1
      /\ n >= exact => unit >= 2
  <2> HIDE DEF g
  <2> QED BY <1>1, StepTyped
<1> HIDE DEF g, unit
<1>4. n \div unit \in Nat
  BY <1>3
<1>5. PICK q \in Nat : Rounded(n, exact) = q * unit
  BY <1>2, <1>4
<1>6. Rounded(n, exact) \in Nat
  BY <1>3, <1>5
<1>7. n < exact => Rounded(n, exact) = n
  <2> SUFFICES ASSUME n < exact PROVE Rounded(n, exact) = n
    OBVIOUS
  <2>1. unit = 1 /\ n % 1 = 0 /\ n \div 1 = n
    BY <1>3
  <2>2. ~up
    BY <2>1
  <2> QED BY <1>2, <2>1, <2>2
<1>8. n >= exact => Rounded(n, exact) # 1
  <2>1. \A u \in Nat : u >= 2 => q * u # 1
    OBVIOUS
  <2> QED BY <1>3, <1>5, <2>1
<1>9. CASE n < exact
  BY <1>6, <1>7, <1>9
<1>10. CASE n >= exact
  BY <1>6, <1>8, <1>10
<1> QED BY <1>9, <1>10

-----------------------------------------------------------------------------
(* What a decoder reads between two places. *)
IsNumber(g, s, i, j) ==
  g = [k \in i .. j + 1 |-> IF k > j THEN 0 ELSE (s[k] % Base) + Base * g[k + 1]]

(* The recursive function in NumberAt exists. *)
LEMMA NumberExists ==
  ASSUME NEW s \in Texts, NEW i \in Nat \ {0}, NEW j \in i .. Len(s)
  PROVE  \E g \in [i .. j + 1 -> Nat] : IsNumber(g, s, i, j)
<1> DEFINE A  == i .. j + 1
           N  == Nat
           D  == [k \in A |-> [g \in [A -> N] |->
                                IF k > j THEN 0 ELSE (s[k] % Base) + Base * g[k + 1]]]
           mu == [k \in A |-> j + 1 - k]
<1>1. Len(s) \in Nat /\ Base \in Nat /\ \A k \in 1 .. Len(s) : s[k] % Base \in Nat
  BY TextIs
<1>2. \A k \in A : k \in Nat /\ j + 1 - k \in Nat
  BY <1>1
<1>3. \A k \in A : ~(k > j) => k \in 1 .. Len(s) /\ k + 1 \in A /\ j + 1 - (k + 1) < j + 1 - k
  BY <1>1
<1>4. mu \in [A -> Nat] /\ N # {}
  BY <1>2
<1>5. ASSUME NEW k \in A, NEW g \in [A -> N] PROVE D[k][g] \in N
  <2>1. CASE k > j
    BY <2>1
  <2>2. CASE ~(k > j)
    <3>1. s[k] % Base \in Nat /\ k + 1 \in A
      BY <1>1, <1>3, <2>2
    <3> HIDE DEF A
    <3>2. g[k + 1] \in Nat
      BY <3>1
    <3>4. (s[k] % Base) + Base * g[k + 1] \in Nat
      BY <1>1, <3>1, <3>2
    <3> QED BY <2>2, <3>4
  <2> QED BY <2>1, <2>2
<1>6. D \in [A -> [[A -> N] -> N]]
  <2> HIDE DEF A, N
  <2> QED BY <1>5
<1>7. DependsOnSmaller(A, N, mu, D)
  <2> SUFFICES ASSUME NEW k \in A, NEW g \in [A -> N], NEW h \in [A -> N],
                      \A y \in A : mu[y] < mu[k] => g[y] = h[y]
               PROVE  D[k][g] = D[k][h]
    BY DEF DependsOnSmaller
  <2>1. ~(k > j) => g[k + 1] = h[k + 1]
    BY <1>3
  <2> QED BY <2>1
<1>8. \E g \in [A -> N] : \A k \in A : g[k] = D[k][g]
  <2>1. Recursive(A, N, mu, D)
    <3> HIDE DEF A, N, mu, D
    <3> QED BY <1>4, <1>6, <1>7 DEF Recursive
  <2> HIDE DEF A, N, mu, D
  <2> QED BY <2>1, Recursion
<1>9. PICK g \in [A -> N] : \A k \in A : g[k] = D[k][g]
  BY <1>8
<1>10. IsNumber(g, s, i, j)
  BY <1>9 DEF IsNumber
<1> QED BY <1>10

(* Its values are numbers. *)
LEMMA NumberTyped ==
  ASSUME NEW s \in Texts, NEW i \in Nat \ {0}, NEW j \in i .. Len(s),
         NEW g, IsNumber(g, s, i, j), NEW z \in i .. j + 1
  PROVE  g[z] \in Nat
<1> DEFINE Bad == {x \in Nat : x <= j + 1 - i /\ g[j + 1 - x] \notin Nat}
<1>1. Bad = {}
  <2> SUFFICES ASSUME Bad # {} PROVE FALSE
    OBVIOUS
  <2>1. PICK x \in Bad : \A y \in Bad : x <= y
    BY Least
  <2> DEFINE k == j + 1 - x
  <2>2. k \in i .. j + 1 /\ k \in Nat /\ Len(s) \in Nat /\ j \in Nat
    BY DEF Texts
  <2>3. CASE k > j
    BY <2>2, <2>3 DEF IsNumber
  <2>4. CASE ~(k > j)
    <3>1. x - 1 \in Nat /\ x - 1 < x /\ x - 1 <= j + 1 - i /\ j + 1 - (x - 1) = k + 1
      BY <2>2, <2>4
    <3>2. g[k + 1] \in Nat
      <4>1. x - 1 \notin Bad
        <5>1. x \in Nat /\ ~(x <= x - 1)
          BY <3>1
        <5> HIDE DEF Bad
        <5> QED BY <2>1, <5>1
      <4> QED BY <3>1, <4>1
    <3>3. s[k] % Base \in Nat /\ Base \in Nat
      BY <2>2, <2>4, TextIs
    <3> HIDE DEF k
    <3>4. g[k] = (s[k] % Base) + Base * g[k + 1]
      BY <2>2, <2>4 DEF IsNumber
    <3> DEFINE u == s[k] % Base
               v == g[k + 1]
    <3>5. u \in Nat /\ v \in Nat /\ g[k] = u + Base * v
      BY <3>2, <3>3, <3>4
    <3> HIDE DEF u, v
    <3>6. \A a, b \in Nat : a * b \in Nat
      OBVIOUS
    <3> DEFINE w == Base * v
    <3>7. w \in Nat
      BY <3>3, <3>5, <3>6
    <3>8. g[k] = u + w
      BY <3>5
    <3> HIDE DEF w
    <3> QED BY <3>5, <3>7, <3>8 DEF k
  <2> QED BY <2>3, <2>4
<1>2. j + 1 - z \in Nat /\ j + 1 - z <= j + 1 - i /\ j + 1 - (j + 1 - z) = z
  BY DEF Texts
<1>3. g[j + 1 - (j + 1 - z)] \in Nat
  BY <1>1, <1>2
<1> QED BY <1>2, <1>3

(* NumberAt is given by it. *)
LEMMA NumberAtIs ==
  ASSUME NEW s \in Texts, NEW i \in Nat \ {0}, NEW j \in i .. Len(s)
  PROVE  \E g : /\ IsNumber(g, s, i, j) /\ g[i] \in Nat
                /\ \A exact : NumberAt(s, i, j, exact) = Rounded(g[i], exact)
<1> DEFINE g == CHOOSE h : IsNumber(h, s, i, j)
<1>1. IsNumber(g, s, i, j)
  BY NumberExists
<1>2. \A exact : NumberAt(s, i, j, exact) = Rounded(g[i], exact)
  BY DEF NumberAt, IsNumber
<1> HIDE DEF g
<1>3. i \in i .. j + 1
  BY DEF Texts
<1>4. g[i] \in Nat
  BY <1>1, <1>3, NumberTyped
<1> QED BY <1>1, <1>2, <1>4

-----------------------------------------------------------------------------
(* From i on s is t, as far as s goes. *)
Agrees(s, i, t) == \A k \in 1 .. Len(t) : i + k - 1 <= Len(s) => s[i + k - 1] = t[k]

(* A text that agrees with two in a row agrees with each of them in its    *)
(* place.                                                                  *)
LEMMA AgreesConcat ==
  ASSUME NEW s \in Texts, NEW i \in Nat \ {0}, NEW t \in Texts, NEW u \in Texts,
         Agrees(s, i, t \o u)
  PROVE  Agrees(s, i, t) /\ Agrees(s, i + Len(t), u)
<1>1. /\ Len(s) \in Nat /\ Len(t) \in Nat /\ Len(u) \in Nat /\ Len(t \o u) = Len(t) + Len(u)
      /\ \A k \in 1 .. Len(t) : (t \o u)[k] = t[k]
      /\ \A k \in 1 .. Len(u) : (t \o u)[Len(t) + k] = u[k]
  BY DEF Texts
<1>2. ASSUME NEW k \in 1 .. Len(t), i + k - 1 <= Len(s) PROVE s[i + k - 1] = t[k]
  <2>1. k \in 1 .. Len(t \o u)
    BY <1>1
  <2> QED BY <1>1, <1>2, <2>1 DEF Agrees
<1>3. ASSUME NEW k \in 1 .. Len(u), i + Len(t) + k - 1 <= Len(s)
      PROVE  s[i + Len(t) + k - 1] = u[k]
  <2>1. Len(t) + k \in 1 .. Len(t \o u) /\ i + (Len(t) + k) - 1 = i + Len(t) + k - 1
    BY <1>1
  <2> QED BY <1>1, <1>3, <2>1 DEF Agrees
<1> QED BY <1>2, <1>3 DEF Agrees

(* The least number of a set of numbers. *)
LEMMA MinIs ==
  ASSUME NEW S, NEW e \in S, \A x \in S : e <= x /\ x \in Nat
  PROVE  Min(S) = e
<1>1. \E x \in S : \A y \in S : x <= y
  OBVIOUS
<1>2. Min(S) \in S /\ \A y \in S : Min(S) <= y
  BY <1>1 DEF Min
<1>3. Min(S) \in Nat /\ e \in Nat /\ Min(S) <= e /\ e <= Min(S)
  BY <1>2
<1> QED BY <1>3

(* The greatest number of a set of numbers. *)
LEMMA MaxIs ==
  ASSUME NEW S, NEW e \in S, \A x \in S : x <= e /\ x \in Nat
  PROVE  Max(S) = e
<1>1. \E x \in S : \A y \in S : x >= y
  OBVIOUS
<1>2. Max(S) \in S /\ \A y \in S : Max(S) >= y
  BY <1>1 DEF Max
<1>3. Max(S) \in Nat /\ e \in Nat /\ Max(S) >= e /\ Max(S) <= e
  BY <1>2
<1> QED BY <1>3

(* Between z and j s is t. *)
Between(s, z, j, t) == Len(t) = j - z + 1 /\ \A k \in 1 .. Len(t) : s[z + k - 1] = t[k]

(* What is read of the digits of a number is the number. *)
LEMMA DigitsRead ==
  ASSUME NEW s \in Texts, NEW i \in Nat \ {0}, NEW j \in i .. Len(s),
         NEW f, IsNumber(f, s, i, j), NEW g, IsGroups(g), NEW n \in Nat, NEW z \in i .. j,
         Between(s, z, j, g[n])
  PROVE  f[z] = n
<1> DEFINE Bad == {m \in Nat : \E y \in i .. j : Between(s, y, j, g[m]) /\ f[y] # m}
<1> SUFFICES ASSUME Bad # {} PROVE FALSE
  OBVIOUS
<1>1. PICK m \in Bad : \A x \in Bad : m <= x
  BY Least
<1>2. PICK y \in i .. j : Between(s, y, j, g[m]) /\ f[y] # m
  OBVIOUS
<1>3. /\ Len(s) \in Nat /\ y \in 1 .. Len(s) /\ j \in Nat /\ y \in Nat /\ m \in Nat /\ Base \in Nat
      /\ i \in Nat /\ i <= y /\ y <= j
  BY TextIs
<1>4. Len(g[m]) = j - y + 1
  BY <1>2 DEF Between
<1>5. \A k \in 1 .. Len(g[m]) : s[y + k - 1] = g[m][k]
  BY <1>2 DEF Between
<1>6. f[y] = (s[y] % Base) + Base * f[y + 1]
  BY <1>3 DEF IsNumber
<1>7. CASE m < Base
  <2>1. g[m] = <<m>>
    BY <1>3, <1>7 DEF IsGroups
  <2>2. Len(g[m]) = 1 /\ g[m][1] = m
    BY <2>1
  <2>3. y = j /\ s[y] = m
    <3>1. y = j
      <4>1. j - y + 1 = 1
        BY <1>4, <2>2
      <4> QED BY <1>3, <4>1
    <3>2. 1 \in 1 .. Len(g[m]) /\ y + 1 - 1 = y
      BY <1>3, <2>2
    <3>3. s[y + 1 - 1] = g[m][1]
      BY <1>5, <3>2
    <3> QED BY <2>2, <3>1, <3>2, <3>3
  <2>4. f[y + 1] = 0
    BY <1>3, <2>3 DEF IsNumber
  <2>5. m % Base = m
    BY <1>3, <1>7, Digits
  <2>6. (s[y] % Base) + Base * f[y + 1] = m
    <3> HIDE DEF Bad
    <3> QED BY <1>3, <2>3, <2>4, <2>5
  <2> QED BY <1>2, <1>6, <2>6
<1>8. CASE ~(m < Base)
  <2> DEFINE d == m \div Base
             b == Base + (m % Base)
  <2>1. /\ d \in Nat /\ d < m /\ b \in Bytes /\ b % Base = m % Base
        /\ m = (m % Base) + Base * d /\ m % Base \in Nat
    <3>1. m >= Base
      BY <1>3, <1>8
    <3> QED BY <1>3, <3>1, Digits
  <2>2. g[m] = <<b>> \o g[d]
    BY <1>3, <1>8 DEF IsGroups
  <2>3. g[d] \in Texts /\ Len(g[d]) >= 1 /\ Len(g[d]) \in Nat
    BY <2>1, GroupsTyped, TextIs
  <2> HIDE DEF d, b
  <2>4. /\ Len(g[m]) = Len(g[d]) + 1 /\ g[m][1] = b
        /\ \A k \in 1 .. Len(g[d]) : g[m][k + 1] = g[d][k]
    BY <2>1, <2>2, <2>3 DEF Texts
  <2>5. s[y] = b /\ y + 1 \in i .. j /\ Len(g[d]) = j - (y + 1) + 1
    <3>1. Len(g[d]) = j - y
      <4>1. j - y + 1 = Len(g[d]) + 1
        BY <1>4, <2>4
      <4> QED BY <1>3, <2>3, <4>1
    <3>2. y + 1 \in i .. j
      BY <1>3, <2>3, <3>1
    <3>3. Len(g[d]) = j - (y + 1) + 1
      BY <1>3, <3>1
    <3>4. 1 \in 1 .. Len(g[m]) /\ y + 1 - 1 = y
      BY <1>3, <2>3, <2>4
    <3>5. s[y + 1 - 1] = g[m][1]
      BY <1>5, <3>4
    <3> QED BY <2>4, <3>2, <3>3, <3>4, <3>5
  <2>6. ASSUME NEW k \in 1 .. Len(g[d]) PROVE s[(y + 1) + k - 1] = g[d][k]
    <3>1. k \in Nat /\ k + 1 \in 1 .. Len(g[m])
      BY <2>3, <2>4
    <3>2. s[y + (k + 1) - 1] = g[m][k + 1]
      BY <1>5, <3>1
    <3>3. y + (k + 1) - 1 = (y + 1) + k - 1
      BY <1>3, <3>1
    <3> QED BY <2>4, <3>2, <3>3
  <2>7. f[y + 1] = d
    <3>1. d \notin Bad
      <4>1. ~(m <= d)
        BY <1>3, <2>1
      <4> HIDE DEF Bad
      <4> QED BY <1>1, <4>1
    <3>2. Between(s, y + 1, j, g[d])
      BY <2>5, <2>6 DEF Between
    <3> QED BY <2>1, <2>5, <3>1, <3>2
  <2> QED BY <1>2, <1>6, <2>1, <2>5, <2>7
<1> QED BY <1>7, <1>8

(* Where the encoding of a number is, whole, the number is read; of one    *)
(* that is cut short none is.                                              *)
LEMMA VarintRead ==
  ASSUME NEW s \in Texts, NEW i \in Nat \ {0}, NEW n \in 0 .. Modulus - 1,
         Agrees(s, i, Varint(n))
  PROVE  LET e == i + Len(Varint(n)) - 1
         IN  /\ e > Len(s) => End(s, i) = 0
             /\ e <= Len(s) => /\ End(s, i) = e
                               /\ \A exact : NumberAt(s, i, e, exact) = Rounded(n, exact)
<1>1. PICK g : IsGroups(g) /\ Varint(n) = g[n % Modulus]
  BY VarintGroups
<1>2. n % Modulus = n /\ n \in Nat
  BY FrameAssumption
<1> DEFINE t == Varint(n)
           L == Len(t)
           e == i + L - 1
<1>3. /\ t \in Texts /\ L >= 1 /\ t[L] < Base /\ \A k \in 1 .. L - 1 : t[k] >= Base
  <2> HIDE DEF t
  <2>1. t = g[n]
    BY <1>1, <1>2 DEF t
  <2> QED BY <1>1, <1>2, <2>1, GroupsTyped
<1>4. L \in Nat /\ Len(s) \in Nat /\ Base \in Nat /\ \A k \in 1 .. L : t[k] \in Nat
  BY <1>3, TextIs
<1>5. \A k \in 1 .. L : i + k - 1 <= Len(s) => s[i + k - 1] = t[k]
  BY DEF Agrees
<1> DEFINE last == {x \in i .. Len(s) : s[x] < Base}
<1>6. \A x \in i .. Len(s) : x < e => x \notin last
  <2> SUFFICES ASSUME NEW x \in i .. Len(s), x < e PROVE ~(s[x] < Base)
    OBVIOUS
  <2> HIDE DEF t
  <2>1. (x - i) + 1 \in 1 .. L - 1 /\ i + ((x - i) + 1) - 1 = x /\ (x - i) + 1 \in 1 .. L
    BY <1>4
  <2>2. s[x] = t[(x - i) + 1]
    BY <1>5, <2>1
  <2>3. t[(x - i) + 1] >= Base /\ t[(x - i) + 1] \in Nat
    BY <1>3, <1>4, <2>1
  <2> QED BY <1>4, <2>2, <2>3
<1>7. CASE e > Len(s)
  <2> HIDE DEF t
  <2>1. last = {}
    BY <1>4, <1>6, <1>7
  <2> QED BY <1>4, <1>7, <2>1 DEF End, t
<1>8. CASE e <= Len(s)
  <2> HIDE DEF t
  <2>1. e \in i .. Len(s) /\ e \in Nat
    BY <1>3, <1>4, <1>8
  <2>2. e \in last
    BY <1>3, <1>4, <1>5, <1>8, <2>1
  <2>3. \A x \in last : e <= x /\ x \in Nat
    BY <1>4, <1>6, <2>1
  <2>4. Min(last) = e
    <3> HIDE DEF last, e
    <3> QED BY <2>1, <2>2, <2>3, MinIs
  <2>5. End(s, i) = e
    BY <2>2, <2>4 DEF End
  <2>6. PICK f : IsNumber(f, s, i, e) /\ \A exact : NumberAt(s, i, e, exact) = Rounded(f[i], exact)
    BY <2>1, NumberAtIs
  <2>7. f[i] = n
    <3>1. g[n] = t /\ i \in i .. e /\ L = e - i + 1
      BY <1>1, <1>2, <1>3, <1>4, <2>1 DEF t
    <3>2. Between(s, i, e, t)
      BY <1>4, <1>5, <1>8, <3>1 DEF Between
    <3> HIDE DEF e
    <3> QED BY <1>1, <1>2, <2>1, <2>6, <3>1, <3>2, DigitsRead
  <2> QED BY <1>8, <2>1, <2>5, <2>6, <2>7 DEF t
<1> QED BY <1>4, <1>7, <1>8

-----------------------------------------------------------------------------
(* The highest key: of field 8, a chunk. *)
Keys == 66

(* Fields that can be written, those that can be read back, what is read   *)
(* of one, and what may be read of one that is cut short.                  *)

Writable == [field : Nat, wire : Nat, number : Nat, data : Texts]

Readable(f, exact) ==
  /\ f \in Writable /\ f \in [field : 1 .. 8, wire : {0, 2}, number : 0 .. Modulus - 1, data : Texts]
  /\ IF f.wire = 0 THEN f.data = <<>> ELSE f.number = Len(f.data) /\ f.number < exact

Read(f, exact) == [field |-> f.field, wire |-> f.wire, number |-> Rounded(f.number, exact),
                   data |-> f.data]

Beginning(t, u) == \E n \in 0 .. Len(u) - 1 : t = SubSeq(u, 1, n)

Cut(r, f) == \/ r = Raised
             \/ /\ f.wire = 2 /\ r.wire = 2 /\ r.field = f.field
                /\ Beginning(r.data, f.data)

(* Every client, and the service, keeps the keys. *)
LEMMA LimitsAre ==
  /\ Modulus \in Nat /\ Keys < Modulus
  /\ \A c \in DOMAIN Exact : Exact[c] \in Nat /\ Keys < Exact[c]
<1>1. Modulus \in Nat /\ \A c \in DOMAIN Exact : Exact[c] \in Nat
  BY FrameAssumption
<1>2. \A n \in {Modulus} \cup {Exact[c] : c \in DOMAIN Exact} : 8 * 8 + 2 < n
  BY LengthAssumption
<1> QED BY <1>1, <1>2 DEF Keys

(* Of the data of a chunk, all is read, or a proper beginning if it is cut *)
(* short.                                                                  *)
LEMMA DataRead ==
  ASSUME NEW s \in Texts, NEW t \in Texts, NEW k \in 0 .. Len(s), Agrees(s, k + 1, t)
  PROVE  /\ k + Len(t) <= Len(s) => SubSeq(s, k + 1, k + Len(t)) = t
         /\ k + Len(t) > Len(s) => Beginning(SubSeq(s, k + 1, Len(s)), t)
<1>1. /\ Len(s) \in Nat /\ Len(t) \in Nat /\ k \in Nat
      /\ \A x \in 1 .. Len(s) : s[x] \in Bytes
      /\ \A x \in 1 .. Len(t) : t[x] \in Bytes
  BY TextIs
<1>2. \A x \in 1 .. Len(t) : k + 1 + x - 1 <= Len(s) => s[k + 1 + x - 1] = t[x]
  BY DEF Agrees
<1>3. CASE k + Len(t) <= Len(s)
  <2> DEFINE d == SubSeq(s, k + 1, k + Len(t))
  <2>1. \A x \in k + 1 .. k + Len(t) : s[x] \in Bytes
    BY <1>1, <1>3
  <2>2. /\ d \in Seq(Bytes)
        /\ Len(d) = IF k + 1 <= k + Len(t) THEN k + Len(t) - (k + 1) + 1 ELSE 0
        /\ \A x \in 1 .. k + Len(t) - (k + 1) + 1 : d[x] = s[k + 1 + x - 1]
    <3>1. k + 1 \in Int /\ k + Len(t) \in Int
      BY <1>1
    <3> QED BY <2>1, <3>1, SubSeqProperties
  <2> HIDE DEF d
  <2>3. Len(d) = Len(t)
    BY <1>1, <2>2
  <2>4. ASSUME NEW x \in 1 .. Len(t) PROVE d[x] = t[x]
    <3>1. x \in 1 .. k + Len(t) - (k + 1) + 1 /\ k + 1 + x - 1 <= Len(s)
      BY <1>1, <1>3
    <3> QED BY <1>2, <2>2, <3>1
  <2>5. d = t
    BY <2>2, <2>3, <2>4, SeqEqual DEF Texts
  <2> QED BY <1>1, <1>3, <2>5 DEF d
<1>4. CASE k + Len(t) > Len(s)
  <2> DEFINE d == SubSeq(s, k + 1, Len(s))
             n == Len(s) - k
             b == SubSeq(t, 1, n)
  <2>1. \A x \in k + 1 .. Len(s) : s[x] \in Bytes
    BY <1>1
  <2>2. /\ d \in Seq(Bytes)
        /\ Len(d) = IF k + 1 <= Len(s) THEN Len(s) - (k + 1) + 1 ELSE 0
        /\ \A x \in 1 .. Len(s) - (k + 1) + 1 : d[x] = s[k + 1 + x - 1]
    <3>1. k + 1 \in Int /\ Len(s) \in Int
      BY <1>1
    <3> QED BY <2>1, <3>1, SubSeqProperties
  <2>3. n \in 0 .. Len(t) - 1 /\ n \in Nat
    BY <1>1, <1>4
  <2>4. \A x \in 1 .. n : t[x] \in Bytes
    BY <1>1, <2>3
  <2>5. /\ b \in Seq(Bytes)
        /\ Len(b) = IF 1 <= n THEN n - 1 + 1 ELSE 0
        /\ \A x \in 1 .. n - 1 + 1 : b[x] = t[1 + x - 1]
    <3>1. 1 \in Int /\ n \in Int
      BY <2>3
    <3> QED BY <2>4, <3>1, SubSeqProperties
  <2> HIDE DEF d, b
  <2>6. Len(d) = n /\ Len(b) = n
    BY <1>1, <2>2, <2>3, <2>5
  <2>7. ASSUME NEW x \in 1 .. n PROVE d[x] = b[x]
    <3>1. x \in 1 .. Len(s) - (k + 1) + 1 /\ k + 1 + x - 1 <= Len(s) /\ x \in 1 .. Len(t)
      BY <1>1, <2>3
    <3>2. x \in 1 .. n - 1 + 1 /\ 1 + x - 1 = x
      BY <2>3
    <3> QED BY <1>2, <2>2, <2>5, <3>1, <3>2
  <2>8. d = b
    BY <2>2, <2>5, <2>6, <2>7, SeqEqual
  <2>9. Beginning(d, t)
    BY <2>3, <2>8 DEF b, Beginning
  <2> QED BY <1>1, <1>4, <2>9 DEF d
<1> QED BY <1>1, <1>3, <1>4

(* The encoding of a number is a text, and not empty. *)
LEMMA VarintTyped ==
  ASSUME NEW n \in Nat
  PROVE  Varint(n) \in Texts /\ Len(Varint(n)) >= 1 /\ Len(Varint(n)) \in Nat
<1>1. PICK g : IsGroups(g) /\ Varint(n) = g[n % Modulus]
  BY VarintGroups
<1>2. n % Modulus \in Nat
  BY LimitsAre DEF Keys
<1>3. g[n % Modulus] \in Texts /\ Len(g[n % Modulus]) >= 1
  BY <1>1, <1>2, GroupsTyped
<1> QED BY <1>1, <1>3, TextIs

(* The encoding of a field is a text: key, number or length, data. *)
LEMMA EncodeFieldTyped ==
  ASSUME NEW f \in Writable
  PROVE  LET key == Varint(f.field * 8 + f.wire)
             len == Varint(f.number)
         IN  /\ EncodeField(f) \in Texts
             /\ Len(EncodeField(f)) = Len(key) + Len(len) + Len(f.data)
             /\ key \in Texts /\ len \in Texts /\ f.data \in Texts /\ key \o len \in Texts
             /\ Len(key \o len) = Len(key) + Len(len)
             /\ Len(key) \in Nat \ {0} /\ Len(len) \in Nat \ {0} /\ Len(f.data) \in Nat
<1>1. f.field * 8 + f.wire \in Nat /\ f.number \in Nat /\ f.data \in Texts
  BY DEF Writable
<1> DEFINE key == Varint(f.field * 8 + f.wire)
           len == Varint(f.number)
<1>2. key \in Texts /\ Len(key) \in Nat \ {0} /\ len \in Texts /\ Len(len) \in Nat \ {0}
  <2>1. key \in Texts /\ Len(key) >= 1 /\ Len(key) \in Nat
    BY <1>1, VarintTyped
  <2>2. len \in Texts /\ Len(len) >= 1 /\ Len(len) \in Nat
    BY <1>1, VarintTyped
  <2> HIDE DEF key, len
  <2> QED BY <2>1, <2>2
<1>3. Len(f.data) \in Nat
  BY <1>1, TextIs
<1>4. EncodeField(f) = (key \o len) \o f.data
  BY DEF EncodeField
<1> HIDE DEF key, len
<1>5. key \o len \in Texts /\ Len(key \o len) = Len(key) + Len(len)
  BY <1>2 DEF Texts
<1>6. EncodeField(f) \in Texts /\ Len(EncodeField(f)) = Len(key \o len) + Len(f.data)
  BY <1>1, <1>4, <1>5 DEF Texts
<1> QED BY <1>1, <1>2, <1>3, <1>5, <1>6 DEF key, len

(* What is read of a field is the field, and where the next one is is      *)
(* where it ends; of one that is cut short, at most a beginning is.        *)
LEMMA FieldRead ==
  ASSUME NEW s \in Texts, NEW i \in Nat \ {0}, NEW exact \in Nat, Keys < exact,
         NEW f, Readable(f, exact), NEW inHeader, inHeader => f.wire = 2,
         Agrees(s, i, EncodeField(f))
  PROVE  LET e == i + Len(EncodeField(f))
             r == FieldAt(s, i, exact, inHeader)
         IN  /\ e <= Len(s) + 1 => r = [field |-> Read(f, exact), next |-> e]
             /\ e > Len(s) + 1 => Cut(r.field, f) /\ r.next \in Nat /\ r.next > Len(s)
<1> DEFINE kn == f.field * 8 + f.wire
           k  == Varint(kn)
           l  == Varint(f.number)
           d  == f.data
           ld == Len(d)
           ls == Len(s)
           ek == i + Len(k) - 1
           el == ek + Len(l)
           e  == i + Len(EncodeField(f))
           r  == FieldAt(s, i, exact, inHeader)
<1>1. /\ f.field \in 1 .. 8 /\ f.wire \in {0, 2} /\ f.number \in 0 .. Modulus - 1
      /\ f.wire = 0 => f.data = <<>>
      /\ f.wire = 2 => f.number = Len(f.data) /\ f.number < exact
  BY DEF Readable
<1>2. /\ kn \in 0 .. Modulus - 1 /\ kn < exact /\ kn % 8 = f.wire /\ kn \div 8 = f.field
      /\ kn \in Nat /\ f.number \in Nat /\ exact \in Nat \ {0}
  <2>1. /\ Modulus \in Nat /\ 66 < Modulus /\ 66 < exact /\ f.number \in 0 .. Modulus - 1
    BY <1>1, LimitsAre DEF Keys
  <2>2. kn \in 0 .. 66 /\ kn % 8 = f.wire /\ kn \div 8 = f.field
    BY <1>1
  <2> HIDE DEF kn
  <2> QED BY <2>1, <2>2
<1> f \in Writable
  BY DEF Readable
<1>3. /\ Len(EncodeField(f)) = Len(k) + Len(l) + Len(d)
      /\ k \in Texts /\ l \in Texts /\ d \in Texts /\ k \o l \in Texts
      /\ Len(k \o l) = Len(k) + Len(l)
      /\ Len(k) \in Nat \ {0} /\ Len(l) \in Nat \ {0} /\ ld \in Nat /\ ls \in Nat
  BY EncodeFieldTyped, TextIs
<1>4. EncodeField(f) = (k \o l) \o d
  BY DEF EncodeField
<1>5. Rounded(kn, exact) = kn /\ (f.wire = 2 => Rounded(f.number, exact) = f.number)
  BY <1>1, <1>2, RoundedIs
<1> HIDE DEF k, l, kn, r
<1>6. Agrees(s, i, k \o l) /\ Agrees(s, i + Len(k \o l), d)
  BY <1>3, <1>4, AgreesConcat
<1>7. Agrees(s, i, k) /\ Agrees(s, i + Len(k), l)
  BY <1>3, <1>6, AgreesConcat
<1>8. /\ i + Len(k) \in Nat \ {0} /\ ek + 1 = i + Len(k) /\ i + Len(k \o l) = el + 1
      /\ ek \in Nat \ {0} /\ el \in Nat \ {0} /\ el > ek /\ el = (i + Len(k)) + Len(l) - 1
      /\ ek = i + Len(k) - 1 /\ e = el + ld + 1 /\ e \in Nat /\ ld \in Nat /\ ls \in Nat
  <2> DEFINE lk == Len(k)
             ll == Len(l)
  <2>1. lk \in Nat \ {0} /\ ll \in Nat \ {0} /\ ld \in Nat /\ ls \in Nat /\ i \in Nat \ {0}
    BY <1>3
  <2>2. Len(k \o l) = lk + ll /\ Len(EncodeField(f)) = lk + ll + ld
    BY <1>3
  <2> HIDE DEF lk, ll, ld, ls
  <2>3. i + lk \in Nat \ {0} /\ i + lk - 1 + 1 = i + lk /\ i + (lk + ll) = (i + lk - 1 + ll) + 1
    BY <2>1
  <2>4. /\ i + lk - 1 \in Nat \ {0} /\ i + lk - 1 + ll \in Nat \ {0}
        /\ i + lk - 1 + ll > i + lk - 1 /\ i + lk - 1 + ll = (i + lk) + ll - 1
    BY <2>1
  <2>5. i + (lk + ll + ld) = (i + lk - 1 + ll) + ld + 1 /\ i + (lk + ll + ld) \in Nat
    BY <2>1
  <2> QED BY <2>1, <2>2, <2>3, <2>4, <2>5 DEF lk, ll, ld, ls
<1>9. /\ ek > ls => End(s, i) = 0
      /\ ek <= ls => End(s, i) = ek /\ NumberAt(s, i, ek, exact) = kn
  BY <1>2, <1>5, <1>7, VarintRead DEF k
<1>10. /\ el > ls => End(s, i + Len(k)) = 0
       /\ el <= ls => /\ End(s, i + Len(k)) = el
                      /\ NumberAt(s, i + Len(k), el, exact) = Rounded(f.number, exact)
  BY <1>1, <1>7, <1>8, VarintRead DEF l
<1> HIDE DEF ek, el
<1>11. /\ el > ls => End(s, ek + 1) = 0
       /\ el <= ls => /\ End(s, ek + 1) = el
                      /\ NumberAt(s, ek + 1, el, exact) = Rounded(f.number, exact)
  BY <1>8, <1>10
<1>12. Agrees(s, el + 1, d)
  BY <1>6, <1>8
<1> HIDE DEF ld, ls, d, e
<1> DEFINE Good == /\ e <= ls + 1 => r = [field |-> Read(f, exact), next |-> e]
                   /\ e > ls + 1 => Cut(r.field, f) /\ r.next \in Nat /\ r.next > ls
<1> SUFFICES Good
  BY DEF e, r, ls
<1>13. CASE el > ls
  <2>1. r = [field |-> Raised, next |-> ls + 1]
    <3>1. CASE ek > ls
      BY <1>9, <3>1 DEF r, FieldAt, ls
    <3>2. CASE ek <= ls
      <4>1. End(s, i) = ek /\ End(s, End(s, i) + 1) = 0
        BY <1>9, <1>11, <1>13, <3>2
      <4> QED BY <4>1 DEF r, FieldAt, ls
    <3> QED BY <1>8, <3>1, <3>2
  <2>2. e > ls + 1 /\ ~(e <= ls + 1)
    BY <1>8, <1>13
  <2>3. ls + 1 \in Nat /\ ls + 1 > ls
    BY <1>8
  <2>4. Cut(r.field, f) /\ r.next \in Nat /\ r.next > ls
    BY <2>1, <2>3 DEF Cut
  <2> QED BY <2>2, <2>4
<1>14. CASE el <= ls
  <2> DEFINE key  == NumberAt(s, i, ek, exact)
             wire == IF inHeader THEN 2 ELSE key % 8
             n    == NumberAt(s, ek + 1, el, exact)
  <2>1. End(s, i) = ek /\ ek # 0 /\ End(s, ek + 1) = el /\ el # 0
    BY <1>8, <1>9, <1>11, <1>14
  <2>2. key = kn /\ n = Rounded(f.number, exact)
    BY <1>8, <1>9, <1>11, <1>14
  <2>3. wire = f.wire /\ wire \in {0, 2} /\ key \div 8 = f.field
    BY <1>1, <1>2, <2>2
  <2>4. r = [field |-> [field |-> key \div 8, wire |-> wire, number |-> n,
                        data |-> IF wire = 0 THEN <<>>
                                 ELSE SubSeq(s, el + 1, Min({el + n, ls}))],
             next |-> IF wire = 0 THEN el + 1 ELSE el + n + 1]
    BY <2>1, <2>3 DEF r, FieldAt, ls
  <2> HIDE DEF key, wire, n
  <2>5. CASE f.wire = 0
    <3>1. r = [field |-> [field |-> f.field, wire |-> 0, number |-> Rounded(f.number, exact),
                          data |-> <<>>], next |-> el + 1]
      BY <2>2, <2>3, <2>4, <2>5
    <3>2. d = <<>> /\ ld = 0
      BY <1>1, <2>5 DEF d, ld
    <3>3. e = el + 1 /\ e <= ls + 1 /\ ~(e > ls + 1)
      BY <1>8, <1>14, <3>2
    <3>4. r = [field |-> Read(f, exact), next |-> e]
      BY <2>5, <3>1, <3>2, <3>3 DEF Read, d
    <3> QED BY <3>3, <3>4
  <2>6. CASE f.wire = 2
    <3>1. n = ld /\ n = f.number /\ n = Rounded(f.number, exact)
      BY <1>1, <1>5, <2>2, <2>6 DEF ld, d
    <3>2. r = [field |-> [field |-> f.field, wire |-> 2, number |-> n,
                          data |-> SubSeq(s, el + 1, Min({el + ld, ls}))],
               next |-> el + ld + 1]
      <4>1. wire = 2 /\ n = ld
        BY <2>3, <2>6, <3>1
      <4>2. r = [field |-> [field |-> f.field, wire |-> wire, number |-> n,
                            data |-> IF wire = 0 THEN <<>>
                                     ELSE SubSeq(s, el + 1, Min({el + ld, ls}))],
                 next |-> IF wire = 0 THEN el + 1 ELSE el + ld + 1]
        BY <2>3, <2>4, <3>1
      <4> QED BY <4>1, <4>2
    <3>3. el \in 0 .. ls
      BY <1>8, <1>14
    <3>4. CASE el + ld <= ls
      <4>1. \A x \in {el + ld, ls} : el + ld <= x /\ x \in Nat
        BY <1>8, <3>4
      <4>2. Min({el + ld, ls}) = el + ld
        BY <4>1, MinIs
      <4>3. SubSeq(s, el + 1, el + ld) = d
        BY <1>3, <1>12, <3>3, <3>4, DataRead DEF ld, ls
      <4>4. e <= ls + 1 /\ ~(e > ls + 1) /\ el + ld + 1 = e
        BY <1>8, <3>4
      <4>5. r = [field |-> Read(f, exact), next |-> e]
        BY <2>6, <3>1, <3>2, <4>2, <4>3, <4>4 DEF Read, d
      <4> QED BY <4>4, <4>5
    <3>5. CASE el + ld > ls
      <4>1. \A x \in {el + ld, ls} : ls <= x /\ x \in Nat
        BY <1>8, <3>5
      <4>2. Min({el + ld, ls}) = ls
        BY <4>1, MinIs
      <4>3. Beginning(SubSeq(s, el + 1, ls), d)
        BY <1>3, <1>12, <3>3, <3>5, DataRead DEF ld, ls
      <4>4. Cut(r.field, f) /\ r.next = el + ld + 1
        BY <2>6, <3>2, <4>2, <4>3 DEF Cut, d
      <4>5. e > ls + 1 /\ ~(e <= ls + 1) /\ el + ld + 1 \in Nat /\ el + ld + 1 > ls
        BY <1>8, <3>5
      <4> QED BY <4>4, <4>5
    <3> QED BY <1>8, <3>4, <3>5
  <2> HIDE DEF Good
  <2> QED BY <1>1, <2>5, <2>6
<1>15. el > ls \/ el <= ls
  BY <1>8
<1> HIDE DEF Good
<1> QED BY <1>13, <1>14, <1>15

-----------------------------------------------------------------------------
(* Texts one after another: p[k] is the first k of them. *)
Flat(p, seqs) ==
  /\ p \in [0 .. Len(seqs) -> Texts] /\ p[0] = <<>>
  /\ \A k \in 1 .. Len(seqs) : p[k] = p[k - 1] \o seqs[k]

IsFlatten(g, seqs) ==
  g = [i \in 1 .. Len(seqs) |-> IF i = 1 THEN seqs[i] ELSE g[i - 1] \o seqs[i]]

(* The recursive function in FlattenSeq exists. *)
LEMMA FlattenExists ==
  ASSUME NEW seqs \in Seq(Texts)
  PROVE  \E g \in [1 .. Len(seqs) -> Texts] : IsFlatten(g, seqs)
<1> DEFINE A  == 1 .. Len(seqs)
           D  == [k \in A |-> [g \in [A -> Texts] |-> IF k = 1 THEN seqs[k] ELSE g[k - 1] \o seqs[k]]]
           mu == [k \in A |-> k]
<1>1. Len(seqs) \in Nat /\ \A k \in A : seqs[k] \in Texts
  OBVIOUS
<1>2. \A k \in A : k \in Nat /\ (k # 1 => k - 1 \in A /\ k - 1 < k)
  BY <1>1
<1>3. \A t, u \in Texts : t \o u \in Texts
  BY DEF Texts
<1>4. ASSUME NEW k \in A, NEW g \in [A -> Texts] PROVE D[k][g] \in Texts
  <2>1. k # 1 => g[k - 1] \in Texts
    BY <1>2
  <2> QED BY <1>1, <1>3, <2>1
<1>5. mu \in [A -> Nat] /\ D \in [A -> [[A -> Texts] -> Texts]] /\ Texts # {}
  <2>1. mu \in [A -> Nat]
    BY <1>2
  <2>2. D \in [A -> [[A -> Texts] -> Texts]]
    <3> HIDE DEF A
    <3> QED BY <1>4
  <2>3. <<>> \in Texts
    BY DEF Texts
  <2> QED BY <2>1, <2>2, <2>3
<1>6. DependsOnSmaller(A, Texts, mu, D)
  <2> SUFFICES ASSUME NEW k \in A, NEW g \in [A -> Texts], NEW h \in [A -> Texts],
                      \A y \in A : mu[y] < mu[k] => g[y] = h[y]
               PROVE  D[k][g] = D[k][h]
    BY DEF DependsOnSmaller
  <2>1. k # 1 => g[k - 1] = h[k - 1]
    BY <1>2
  <2> QED BY <2>1
<1>7. \E g \in [A -> Texts] : \A k \in A : g[k] = D[k][g]
  <2>1. Recursive(A, Texts, mu, D)
    <3> HIDE DEF A, D, mu
    <3> QED BY <1>5, <1>6 DEF Recursive
  <2> HIDE DEF A, D, mu
  <2> QED BY <2>1, Recursion
<1>8. PICK g \in [A -> Texts] : \A k \in A : g[k] = D[k][g]
  BY <1>7
<1>9. IsFlatten(g, seqs)
  BY <1>8 DEF IsFlatten
<1> QED BY <1>9

(* The texts are joined one after the other. *)
LEMMA FlattenIs ==
  ASSUME NEW seqs \in Seq(Texts)
  PROVE  \E p : Flat(p, seqs) /\ FlattenSeq(seqs) = p[Len(seqs)]
<1>1. Len(seqs) \in Nat /\ \A k \in 1 .. Len(seqs) : seqs[k] \in Texts
  OBVIOUS
<1>2. CASE Len(seqs) = 0
  <2> DEFINE p == [k \in 0 .. Len(seqs) |-> <<>>]
  <2>1. seqs = <<>>
    BY <1>2
  <2>2. <<>> \in Texts
    BY DEF Texts
  <2>3. Flat(p, seqs)
    BY <1>2, <2>2 DEF Flat
  <2>4. FlattenSeq(seqs) = p[Len(seqs)]
    BY <1>2, <2>1 DEF FlattenSeq
  <2> QED BY <2>3, <2>4
<1>3. CASE Len(seqs) # 0
  <2> DEFINE g == CHOOSE h : IsFlatten(h, seqs)
             p == [k \in 0 .. Len(seqs) |-> IF k = 0 THEN <<>> ELSE g[k]]
  <2>1. IsFlatten(g, seqs)
    BY FlattenExists
  <2>2. FlattenSeq(seqs) = g[Len(seqs)]
    BY <1>3 DEF FlattenSeq, IsFlatten
  <2> HIDE DEF g
  <2>3. \A t, u \in Texts : t \o u \in Texts
    BY DEF Texts
  <2> DEFINE Bad == {k \in Nat : k \in 1 .. Len(seqs) /\ g[k] \notin Texts}
  <2>4. Bad = {}
    <3> SUFFICES ASSUME Bad # {} PROVE FALSE
      OBVIOUS
    <3>1. PICK k \in Bad : \A y \in Bad : k <= y
      BY Least
    <3>2. k \in 1 .. Len(seqs) /\ k \in Nat /\ g[k] \notin Texts
      OBVIOUS
    <3>3. g[k] = IF k = 1 THEN seqs[k] ELSE g[k - 1] \o seqs[k]
      BY <2>1, <3>2 DEF IsFlatten
    <3>4. k # 1
      BY <1>1, <3>2, <3>3
    <3>5. k - 1 \in Nat /\ k - 1 \in 1 .. Len(seqs) /\ ~(k <= k - 1)
      BY <1>1, <3>2, <3>4
    <3>6. g[k - 1] \in Texts
      <4>1. k - 1 \notin Bad
        <5> HIDE DEF Bad
        <5> QED BY <3>1, <3>5
      <4> QED BY <3>5, <4>1
    <3> QED BY <1>1, <2>3, <3>2, <3>3, <3>4, <3>6
  <2>5. \A k \in 1 .. Len(seqs) : g[k] \in Texts
    BY <1>1, <2>4
  <2>6. p \in [0 .. Len(seqs) -> Texts] /\ p[0] = <<>>
    BY <1>1, <2>5 DEF Texts
  <2>7. ASSUME NEW k \in 1 .. Len(seqs) PROVE p[k] = p[k - 1] \o seqs[k]
    <3>1. g[k] = IF k = 1 THEN seqs[k] ELSE g[k - 1] \o seqs[k]
      BY <2>1 DEF IsFlatten
    <3>2. k - 1 \in 0 .. Len(seqs) /\ k \in 0 .. Len(seqs) /\ k # 0
      BY <1>1
    <3>3. CASE k = 1
      <4>1. p[k] = seqs[k] /\ p[k - 1] = <<>> /\ seqs[k] \in Seq(Bytes)
        BY <1>1, <3>1, <3>2, <3>3 DEF Texts
      <4>2. <<>> \o seqs[k] = seqs[k]
        BY <4>1, ConcatEmptySeq
      <4> QED BY <4>1, <4>2
    <3>4. CASE k # 1
      <4>1. k - 1 # 0
        BY <1>1, <3>4
      <4>2. p[k] = g[k] /\ p[k - 1] = g[k - 1]
        BY <3>2, <4>1
      <4> QED BY <3>1, <3>4, <4>2
    <3> QED BY <3>3, <3>4
  <2>8. Flat(p, seqs)
    BY <2>6, <2>7 DEF Flat
  <2>9. p[Len(seqs)] = g[Len(seqs)]
    BY <1>1, <1>3
  <2> QED BY <2>2, <2>8, <2>9
<1> QED BY <1>2, <1>3

(* Where each of them is. *)
LEMMA FlatPlaces ==
  ASSUME NEW seqs \in Seq(Texts), NEW p, Flat(p, seqs), NEW k \in 1 .. Len(seqs)
  PROVE  /\ Len(p[k - 1]) \in Nat /\ Len(p[k]) \in Nat /\ Len(seqs[k]) \in Nat
         /\ Len(p[k]) = Len(p[k - 1]) + Len(seqs[k])
         /\ Len(p[k]) <= Len(p[Len(seqs)])
         /\ \A s \in Texts : Agrees(s, 1, p[Len(seqs)]) => Agrees(s, Len(p[k - 1]) + 1, seqs[k])
<1> DEFINE N == Len(seqs)
<1>1. N \in Nat /\ \A x \in 1 .. N : seqs[x] \in Texts
  OBVIOUS
<1>2. \A x \in 0 .. N : p[x] \in Texts /\ Len(p[x]) \in Nat
  BY TextIs DEF Flat
<1>3. \A x \in 1 .. N : x \in 0 .. N /\ x - 1 \in 0 .. N
  BY <1>1
<1>4. ASSUME NEW x \in 1 .. N PROVE Len(p[x]) = Len(p[x - 1]) + Len(seqs[x])
  <2>1. p[x] = p[x - 1] \o seqs[x]
    BY DEF Flat
  <2>2. p[x - 1] \in Texts /\ seqs[x] \in Texts
    BY <1>1, <1>2, <1>3
  <2> QED BY <2>1, <2>2 DEF Texts
<1>5. \A x \in 1 .. N : Len(seqs[x]) \in Nat
  BY <1>1, TextIs
<1> DEFINE Fits(x) == /\ Len(p[x]) <= Len(p[N])
                      /\ \A s \in Texts : Agrees(s, 1, p[N]) => Agrees(s, 1, p[x])
           Bad == {y \in Nat : y <= N /\ ~Fits(N - y)}
<1>6. Bad = {}
  <2> SUFFICES ASSUME Bad # {} PROVE FALSE
    OBVIOUS
  <2>1. PICK y \in Bad : \A z \in Bad : y <= z
    BY Least
  <2>2. y \in Nat /\ y <= N /\ ~Fits(N - y)
    OBVIOUS
  <2> HIDE DEF Fits
  <2>3. y # 0
    <3>1. N \in 0 .. N
      BY <1>1
    <3>2. Fits(N)
      BY <1>2, <3>1 DEF Fits
    <3>3. N - 0 = N
      BY <1>1
    <3> QED BY <2>2, <3>2, <3>3
  <2>4. y - 1 \in Nat /\ y - 1 <= N /\ ~(y <= y - 1) /\ N - (y - 1) \in 1 .. N
        /\ N - (y - 1) - 1 = N - y
    BY <1>1, <2>2, <2>3
  <2> DEFINE x == N - (y - 1)
  <2>5. Fits(x)
    <3>1. y - 1 \notin Bad
      <4> HIDE DEF Bad
      <4> QED BY <2>1, <2>4
    <3> QED BY <2>4, <3>1
  <2>6. x \in 1 .. N /\ x - 1 = N - y
    BY <2>4
  <2> HIDE DEF x
  <2>7. /\ p[x] = p[x - 1] \o seqs[x] /\ p[x - 1] \in Texts /\ p[x] \in Texts
        /\ seqs[x] \in Texts
    BY <1>1, <1>2, <1>3, <2>6 DEF Flat
  <2>8. ASSUME NEW s \in Texts, Agrees(s, 1, p[N]) PROVE Agrees(s, 1, p[x - 1])
    <3>1. Agrees(s, 1, p[x])
      BY <2>5, <2>8 DEF Fits
    <3>2. 1 \in Nat \ {0}
      OBVIOUS
    <3>3. Agrees(s, 1, p[x - 1] \o seqs[x])
      BY <2>7, <3>1
    <3> QED BY <2>7, <3>2, <3>3, AgreesConcat
  <2>9. Len(p[x - 1]) <= Len(p[N])
    <3> DEFINE a == Len(p[x - 1])
               b == Len(p[x])
               c == Len(seqs[x])
               m == Len(p[N])
    <3>1. N \in 0 .. N /\ x \in 0 .. N /\ x - 1 \in 0 .. N
      BY <1>1, <1>3, <2>6
    <3>2. a \in Nat /\ b \in Nat /\ m \in Nat
      BY <1>2, <3>1
    <3>3. c \in Nat /\ b = a + c
      BY <1>4, <1>5, <2>6
    <3>4. b <= m
      BY <2>5 DEF Fits
    <3> HIDE DEF a, b, c, m
    <3>5. a <= m
      BY <3>2, <3>3, <3>4
    <3> QED BY <3>5 DEF a, m
  <2>10. Fits(x - 1)
    BY <2>8, <2>9 DEF Fits
  <2> QED BY <2>2, <2>6, <2>10
<1>7. ASSUME NEW x \in 1 .. N PROVE Fits(x)
  <2>1. N - x \in Nat /\ N - x <= N /\ N - (N - x) = x
    BY <1>1
  <2> HIDE DEF Fits
  <2>2. Fits(N - (N - x))
    BY <1>6, <2>1
  <2> QED BY <2>1, <2>2
<1>8. ASSUME NEW s \in Texts, Agrees(s, 1, p[N])
      PROVE  Agrees(s, Len(p[k - 1]) + 1, seqs[k])
  <2>1. p[k] = p[k - 1] \o seqs[k] /\ p[k - 1] \in Texts /\ seqs[k] \in Texts
    BY <1>1, <1>2, <1>3 DEF Flat
  <2>2. Agrees(s, 1, p[k - 1] \o seqs[k])
    BY <1>7, <1>8, <2>1
  <2>3. 1 \in Nat \ {0}
    OBVIOUS
  <2>4. Agrees(s, 1 + Len(p[k - 1]), seqs[k])
    BY <2>1, <2>2, <2>3, AgreesConcat
  <2>5. 1 + Len(p[k - 1]) = Len(p[k - 1]) + 1
    BY <1>2, <1>3
  <2> QED BY <2>4, <2>5
<1> QED BY <1>2, <1>3, <1>4, <1>5, <1>7, <1>8

-----------------------------------------------------------------------------
(* A message of fields that can be read back, and where each of them is.   *)
ReadableSeq(fs, exact) ==
  fs \in Seq(Writable) /\ \A k \in 1 .. Len(fs) : Readable(fs[k], exact)

Offsets(off, fs) ==
  /\ off \in [1 .. Len(fs) + 1 -> Nat \ {0}]
  /\ off[1] = 1 /\ off[Len(fs) + 1] = Len(Encode(fs)) + 1
  /\ \A k \in 1 .. Len(fs) :
       /\ off[k + 1] = off[k] + Len(EncodeField(fs[k])) /\ off[k] < off[k + 1]
       /\ off[k + 1] <= Len(Encode(fs)) + 1
       /\ Len(EncodeField(fs[k])) <= Len(Encode(fs))
  /\ \A s \in Texts : Agrees(s, 1, Encode(fs)) =>
       \A k \in 1 .. Len(fs) : Agrees(s, off[k], EncodeField(fs[k]))

(* The fields of a message are one after the other. *)
LEMMA EncodeIs ==
  ASSUME NEW fs \in Seq(Writable)
  PROVE  Encode(fs) \in Texts /\ \E off : Offsets(off, fs)
<1> DEFINE N == Len(fs)
           seqs == [k \in DOMAIN fs |-> EncodeField(fs[k])]
<1>1. N \in Nat /\ DOMAIN fs = 1 .. N
  OBVIOUS
<1>2. ASSUME NEW k \in 1 .. N
      PROVE  EncodeField(fs[k]) \in Texts /\ Len(EncodeField(fs[k])) \in Nat \ {0}
  <2>1. fs[k] \in Writable
    OBVIOUS
  <2> DEFINE f == fs[k]
             a == Len(Varint(f.field * 8 + f.wire))
             b == Len(Varint(f.number))
             c == Len(f.data)
  <2>2. EncodeField(f) \in Texts /\ Len(EncodeField(f)) = a + b + c
    BY <2>1, EncodeFieldTyped
  <2>3. a \in Nat \ {0} /\ b \in Nat \ {0} /\ c \in Nat
    BY <2>1, EncodeFieldTyped
  <2> HIDE DEF a, b, c
  <2>4. a + b + c \in Nat \ {0}
    BY <2>3
  <2> QED BY <2>2, <2>4
<1>3. seqs \in Seq(Texts) /\ Len(seqs) = N /\ \A k \in 1 .. N : seqs[k] = EncodeField(fs[k])
  BY <1>1, <1>2
<1>4. Encode(fs) = FlattenSeq(seqs)
  BY DEF Encode
<1> HIDE DEF seqs, N
<1>5. PICK p : Flat(p, seqs) /\ FlattenSeq(seqs) = p[N]
  BY <1>3, FlattenIs
<1>6. p \in [0 .. N -> Texts] /\ p[0] = <<>>
  BY <1>3, <1>5 DEF Flat
<1>7. \A k \in 0 .. N : Len(p[k]) \in Nat
  BY <1>6, TextIs
<1> DEFINE off == [k \in 1 .. N + 1 |-> Len(p[k - 1]) + 1]
<1>8. \A k \in 1 .. N + 1 : k - 1 \in 0 .. N
  BY <1>1
<1>9. off \in [1 .. N + 1 -> Nat \ {0}]
  <2>1. \A k \in 1 .. N + 1 : Len(p[k - 1]) + 1 \in Nat \ {0}
    BY <1>7, <1>8
  <2> QED BY <2>1
<1>10. off[1] = 1
  <2>1. 1 \in 1 .. N + 1 /\ 1 - 1 = 0 /\ Len(p[0]) = 0
    BY <1>1, <1>6
  <2>2. off[1] = Len(p[0]) + 1
    BY <2>1
  <2> QED BY <2>1, <2>2
<1>11. off[N + 1] = Len(Encode(fs)) + 1
  <2>1. N + 1 \in 1 .. N + 1 /\ N + 1 - 1 = N
    BY <1>1
  <2>2. \A k \in 1 .. N + 1 : k - 1 = N => off[k] = Len(p[N]) + 1
    OBVIOUS
  <2>3. off[N + 1] = Len(p[N]) + 1
    <3> HIDE DEF off
    <3> DEFINE m == N + 1
    <3>1. m \in 1 .. N + 1 /\ m - 1 = N
      BY <1>1, <2>1
    <3> HIDE DEF m
    <3>2. off[m] = Len(p[N]) + 1
      BY <2>2, <3>1
    <3> QED BY <3>2 DEF m
  <2> HIDE DEF off
  <2> QED BY <1>4, <1>5, <2>3
<1>12. ASSUME NEW k \in 1 .. N
       PROVE  /\ off[k + 1] = off[k] + Len(EncodeField(fs[k])) /\ off[k] < off[k + 1]
              /\ off[k + 1] <= Len(Encode(fs)) + 1
              /\ Len(EncodeField(fs[k])) <= Len(Encode(fs))
              /\ \A s \in Texts : Agrees(s, 1, Encode(fs)) => Agrees(s, off[k], EncodeField(fs[k]))
  <2>1. k \in 1 .. N + 1 /\ k + 1 \in 1 .. N + 1 /\ k + 1 - 1 = k
    BY <1>1
  <2>2. off[k] = Len(p[k - 1]) + 1 /\ off[k + 1] = Len(p[k]) + 1
    BY <2>1
  <2> HIDE DEF off
  <2> DEFINE a == Len(p[k - 1])
             b == Len(p[k])
             c == Len(EncodeField(fs[k]))
             m == Len(Encode(fs))
  <2>3. a \in Nat /\ b = a + c /\ b <= m
    BY <1>3, <1>4, <1>5, FlatPlaces
  <2>4. c \in Nat \ {0} /\ m \in Nat
    <3>1. N \in 0 .. N
      BY <1>1
    <3> QED BY <1>2, <1>4, <1>5, <1>7, <3>1
  <2>5. \A s \in Texts : Agrees(s, 1, Encode(fs)) => Agrees(s, a + 1, EncodeField(fs[k]))
    BY <1>3, <1>4, <1>5, FlatPlaces
  <2>6. off[k] = a + 1 /\ off[k + 1] = b + 1
    BY <2>2
  <2> HIDE DEF a, b, c, m
  <2>7. b + 1 = (a + 1) + c /\ a + 1 < b + 1 /\ b + 1 <= m + 1 /\ c <= m
    BY <2>3, <2>4
  <2> QED BY <2>5, <2>6, <2>7 DEF c, m
<1>13. Offsets(off, fs)
  <2> HIDE DEF off
  <2> QED BY <1>9, <1>10, <1>11, <1>12 DEF Offsets, N
<1>14. Encode(fs) \in Texts
  BY <1>1, <1>4, <1>5, <1>6
<1> QED BY <1>13, <1>14

-----------------------------------------------------------------------------
(* The fields of a text. *)
IsFields(g, s, exact, inHeader) ==
  g = [i \in Nat |-> IF i > Len(s) THEN <<>>
                     ELSE <<FieldAt(s, i, exact, inHeader).field>>
                          \o g[FieldAt(s, i, exact, inHeader).next]]

(* A number ends after its beginning. *)
LEMMA EndIs ==
  ASSUME NEW s \in Texts, NEW i \in Nat
  PROVE  End(s, i) = 0 \/ End(s, i) \in i .. Len(s)
<1> DEFINE last == {j \in i .. Len(s) : s[j] < Base}
<1> SUFFICES ASSUME last # {} PROVE Min(last) \in i .. Len(s)
  BY DEF End
<1>1. last \in SUBSET Nat
  BY TextIs
<1>2. PICK e \in last : \A x \in last : e <= x
  <2> HIDE DEF last
  <2> QED BY <1>1, Least
<1>3. Min(last) = e
  <2> HIDE DEF last
  <2>1. \A x \in last : e <= x /\ x \in Nat
    BY <1>1, <1>2
  <2> QED BY <2>1, MinIs
<1> HIDE DEF last
<1>4. Min(last) \in last
  BY <1>3
<1> QED BY <1>4 DEF last

(* A field begins after the one before. *)
LEMMA NextIs ==
  ASSUME NEW s \in Texts, NEW exact \in Nat \ {0}, NEW inHeader, NEW i \in Nat, i <= Len(s)
  PROVE  LET next == FieldAt(s, i, exact, inHeader).next IN next \in Nat /\ i < next
<1> DEFINE j == End(s, i)
           k == End(s, j + 1)
           n == NumberAt(s, j + 1, k, exact)
           next == FieldAt(s, i, exact, inHeader).next
<1>1. next = Len(s) + 1 \/ (j # 0 /\ k # 0 /\ (next = k + 1 \/ next = k + n + 1))
  BY DEF FieldAt
<1>2. Len(s) \in Nat
  BY TextIs
<1>3. CASE next = Len(s) + 1
  <2> HIDE DEF next
  <2>1. next \in Nat /\ i < next
    BY <1>2, <1>3
  <2> QED BY <2>1 DEF next
<1>4. CASE j # 0 /\ k # 0 /\ (next = k + 1 \/ next = k + n + 1)
  <2>1. j \in i .. Len(s)
    BY <1>4, EndIs
  <2> HIDE DEF j
  <2>2. j + 1 \in Nat \ {0}
    BY <1>2, <2>1
  <2>3. k \in j + 1 .. Len(s)
    BY <1>4, <2>2, EndIs
  <2> HIDE DEF k
  <2>4. n \in Nat
    <3>1. PICK g : g[j + 1] \in Nat /\ n = Rounded(g[j + 1], exact)
      BY <2>2, <2>3, NumberAtIs
    <3> QED BY <3>1, RoundedIs
  <2> HIDE DEF n, next
  <2>5. next \in Nat /\ i < next
    BY <1>2, <1>4, <2>1, <2>2, <2>3, <2>4
  <2> QED BY <2>5 DEF next
<1> QED BY <1>1, <1>3, <1>4

(* So the recursive function in Fields exists. *)
LEMMA FieldsExist ==
  ASSUME NEW s \in Texts, NEW exact \in Nat \ {0}, NEW inHeader
  PROVE  \E g : IsFields(g, s, exact, inHeader)
<1> DEFINE At(i) == FieldAt(s, i, exact, inHeader)
           A  == Nat
           X  == Seq({At(i).field : i \in Nat})
           D  == [i \in A |-> [g \in [A -> X] |->
                                IF i > Len(s) THEN <<>> ELSE <<At(i).field>> \o g[At(i).next]]]
           mu == [i \in A |-> IF i > Len(s) THEN 0 ELSE Len(s) + 1 - i]
<1>1. Len(s) \in Nat
  BY TextIs
<1>2. \A i \in A : ~(i > Len(s)) => At(i).next \in A /\ i < At(i).next
  <2> SUFFICES ASSUME NEW i \in Nat, ~(i > Len(s)) PROVE At(i).next \in Nat /\ i < At(i).next
    OBVIOUS
  <2>1. i <= Len(s)
    BY <1>1
  <2> QED BY <2>1, NextIs
<1>3. \A i \in A : At(i).field \in {At(x).field : x \in Nat}
  OBVIOUS
<1> HIDE DEF At
<1>4. mu \in [A -> Nat]
  BY <1>1
<1>5. X # {}
  <2>1. <<>> \in X
    OBVIOUS
  <2> QED BY <2>1
<1>6. ASSUME NEW i \in A, NEW g \in [A -> X] PROVE D[i][g] \in X
  <2>1. CASE i > Len(s)
    BY <2>1
  <2>2. CASE ~(i > Len(s))
    <3>1. g[At(i).next] \in X
      <4>1. At(i).next \in A
        BY <1>2, <2>2
      <4> HIDE DEF A, X
      <4> QED BY <4>1
    <3>2. <<At(i).field>> \in X
      BY <1>3
    <3>3. \A t, u \in X : t \o u \in X
      OBVIOUS
    <3>4. <<At(i).field>> \o g[At(i).next] \in X
      <4> HIDE DEF X
      <4> QED BY <3>1, <3>2, <3>3
    <3> QED BY <2>2, <3>4
  <2> QED BY <2>1, <2>2
<1>7. D \in [A -> [[A -> X] -> X]]
  <2> HIDE DEF A, X
  <2> QED BY <1>6
<1>8. DependsOnSmaller(A, X, mu, D)
  <2> SUFFICES ASSUME NEW i \in A, NEW g \in [A -> X], NEW h \in [A -> X],
                      \A y \in A : mu[y] < mu[i] => g[y] = h[y]
               PROVE  D[i][g] = D[i][h]
    BY DEF DependsOnSmaller
  <2>1. ~(i > Len(s)) => g[At(i).next] = h[At(i).next]
    <3> SUFFICES ASSUME ~(i > Len(s)) PROVE g[At(i).next] = h[At(i).next]
      OBVIOUS
    <3> DEFINE y == At(i).next
    <3>1. y \in Nat /\ i < y /\ i \in Nat
      BY <1>2
    <3> HIDE DEF y
    <3>2. mu[y] < mu[i]
      BY <1>1, <3>1
    <3>3. g[y] = h[y]
      BY <3>1, <3>2
    <3> QED BY <3>3 DEF y
  <2> QED BY <2>1
<1>9. \E g \in [A -> X] : \A i \in A : g[i] = D[i][g]
  <2>1. Recursive(A, X, mu, D)
    <3> HIDE DEF A, X, mu, D
    <3> QED BY <1>4, <1>5, <1>7, <1>8 DEF Recursive
  <2> HIDE DEF A, X, mu, D
  <2> QED BY <2>1, Recursion
<1>10. PICK g \in [A -> X] : \A i \in A : g[i] = D[i][g]
  BY <1>9
<1>11. g = [i \in Nat |-> IF i > Len(s) THEN <<>> ELSE <<At(i).field>> \o g[At(i).next]]
  BY <1>10
<1> QED BY <1>11 DEF IsFields, At

(* Fields is given by it. *)
LEMMA FieldsIs ==
  ASSUME NEW s \in Texts, NEW exact \in Nat \ {0}, NEW inHeader
  PROVE  \E g : IsFields(g, s, exact, inHeader) /\ Fields(s, exact, inHeader) = g[1]
<1> DEFINE g == CHOOSE h : IsFields(h, s, exact, inHeader)
<1>1. IsFields(g, s, exact, inHeader)
  BY FieldsExist
<1>2. Fields(s, exact, inHeader) = g[1]
  BY DEF Fields, IsFields
<1> QED BY <1>1, <1>2

(* What is read of a message is its fields; of one that is cut short, the  *)
(* fields before that, and of the one that is cut, at most a beginning.    *)
RightAt(fs, exact, s, k, x) ==
  IF Len(s) = Len(Encode(fs)) THEN x = Read(fs[k], exact)
  ELSE (k < Len(fs) /\ x = Read(fs[k], exact)) \/ Cut(x, fs[k])

MessageOf(s, fs, exact, inHeader) ==
  /\ exact \in Nat /\ Keys < exact /\ ReadableSeq(fs, exact)
  /\ s \in Texts /\ Agrees(s, 1, Encode(fs)) /\ Len(s) <= Len(Encode(fs))
  /\ inHeader => \A k \in 1 .. Len(fs) : fs[k].wire = 2

(* Of a message all fields are read as they were written; of one that is   *)
(* cut short those that come whole, and of the one that is cut at most a   *)
(* beginning.                                                              *)
LEMMA MessageRead ==
  ASSUME NEW s, NEW fs, NEW exact, NEW inHeader, MessageOf(s, fs, exact, inHeader)
  PROVE  LET r     == Fields(s, exact, inHeader)
             whole == Len(s) = Len(Encode(fs))
         IN  /\ Len(r) \in Nat /\ DOMAIN r = 1 .. Len(r) /\ Len(r) <= Len(fs)
             /\ whole => Len(r) = Len(fs)
             /\ \A k \in 1 .. Len(r) : RightAt(fs, exact, s, k, r[k])
<1> DEFINE N == Len(fs)
           ls == Len(s)
           le == Len(Encode(fs))
           whole == ls = le
           At(i) == FieldAt(s, i, exact, inHeader)
           X == {At(i).field : i \in Nat}
<1> /\ exact \in Nat /\ Keys < exact /\ ReadableSeq(fs, exact)
    /\ s \in Texts /\ Agrees(s, 1, Encode(fs)) /\ Len(s) <= Len(Encode(fs))
    /\ inHeader => \A k \in 1 .. Len(fs) : fs[k].wire = 2
  BY DEF MessageOf
<1>1. exact \in Nat \ {0}
  BY DEF Keys
<1>2. PICK g : IsFields(g, s, exact, inHeader) /\ Fields(s, exact, inHeader) = g[1]
  BY <1>1, FieldsIs
<1>3. PICK off : Offsets(off, fs)
  BY EncodeIs DEF ReadableSeq
<1>4. N \in Nat /\ ls \in Nat /\ le \in Nat /\ ls <= le
  <2>1. Encode(fs) \in Texts
    BY EncodeIs DEF ReadableSeq
  <2>2. N \in Nat
    BY DEF ReadableSeq
  <2> QED BY <2>1, <2>2, TextIs
<1>5. /\ \A k \in 1 .. N + 1 : off[k] \in Nat \ {0}
      /\ off[1] = 1 /\ off[N + 1] = le + 1
      /\ \A k \in 1 .. N : off[k] < off[k + 1] /\ off[k + 1] <= le + 1
  BY <1>3 DEF Offsets
<1>6. \A i \in Nat : g[i] = IF i > ls THEN <<>> ELSE <<At(i).field>> \o g[At(i).next]
  BY <1>2 DEF IsFields
<1>7. ASSUME NEW k \in 1 .. N
      PROVE  /\ off[k + 1] <= ls + 1 =>
                  At(off[k]).field = Read(fs[k], exact) /\ At(off[k]).next = off[k + 1]
             /\ off[k + 1] > ls + 1 =>
                  Cut(At(off[k]).field, fs[k]) /\ At(off[k]).next \in Nat /\ At(off[k]).next > ls
  <2>1. Readable(fs[k], exact) /\ (inHeader => fs[k].wire = 2)
    BY DEF ReadableSeq
  <2>2. off[k + 1] = off[k] + Len(EncodeField(fs[k])) /\ Agrees(s, off[k], EncodeField(fs[k]))
    BY <1>3 DEF Offsets
  <2>3. off[k] \in Nat \ {0}
    BY <1>4, <1>5
  <2> DEFINE i == off[k]
             f == fs[k]
             e == i + Len(EncodeField(f))
             r == FieldAt(s, i, exact, inHeader)
  <2>4. /\ e <= Len(s) + 1 => r = [field |-> Read(f, exact), next |-> e]
        /\ e > Len(s) + 1 => Cut(r.field, f) /\ r.next \in Nat /\ r.next > Len(s)
    BY <2>1, <2>2, <2>3, FieldRead
  <2>5. e = off[k + 1]
    BY <2>2
  <2> HIDE DEF e, r
  <2>6. e <= ls + 1 => r.field = Read(f, exact) /\ r.next = e
    BY <2>4
  <2> QED BY <2>4, <2>5, <2>6 DEF r
<1>8. \A i \in Nat : At(i).field \in X
  OBVIOUS
<1> HIDE DEF At, X, N, ls, le
<1> DEFINE Claim(k) ==
             LET t == g[off[k]] IN
               off[k] <= ls + 1 =>
                 /\ t \in Seq(X) /\ Len(t) \in Nat /\ Len(t) <= N + 1 - k
                 /\ whole => Len(t) = N + 1 - k
                 /\ \A m \in 1 .. Len(t) : RightAt(fs, exact, s, k + m - 1, t[m])
           Bad == {y \in Nat : y <= N /\ ~Claim(N + 1 - y)}
<1>9. Claim(N + 1)
  <2> SUFFICES ASSUME off[N + 1] <= ls + 1
               PROVE  LET t == g[off[N + 1]] IN
                      /\ t \in Seq(X) /\ Len(t) \in Nat /\ Len(t) <= N + 1 - (N + 1)
                      /\ whole => Len(t) = N + 1 - (N + 1)
                      /\ \A m \in 1 .. Len(t) : RightAt(fs, exact, s, N + 1 + m - 1, t[m])
    OBVIOUS
  <2>1. off[N + 1] > ls /\ off[N + 1] \in Nat
    BY <1>4, <1>5
  <2>2. g[off[N + 1]] = <<>>
    BY <1>6, <2>1
  <2>3. N + 1 - (N + 1) = 0
    BY <1>4
  <2>4. <<>> \in Seq(X) /\ Len(<<>>) = 0
    OBVIOUS
  <2>5. \A m \in 1 .. Len(g[off[N + 1]]) : FALSE
    BY <2>2, <2>4
  <2> QED BY <2>2, <2>3, <2>4, <2>5
<1>10. ASSUME NEW k \in 1 .. N, Claim(k + 1) PROVE Claim(k)
  <2> DEFINE t == g[off[k]]
             a == At(off[k]).field
             next == At(off[k]).next
             u == g[next]
  <2> SUFFICES ASSUME off[k] <= ls + 1
               PROVE  /\ t \in Seq(X) /\ Len(t) \in Nat /\ Len(t) <= N + 1 - k
                      /\ whole => Len(t) = N + 1 - k
                      /\ \A m \in 1 .. Len(t) : RightAt(fs, exact, s, k + m - 1, t[m])
    OBVIOUS
  <2> DEFINE o == off[k]
             p == off[k + 1]
  <2>1. o \in Nat \ {0} /\ p \in Nat /\ o < p /\ p <= le + 1 /\ k \in Nat /\ k <= N
    <3>1. k \in 1 .. N + 1 /\ k + 1 \in 1 .. N + 1
      BY <1>4
    <3> QED BY <1>4, <1>5, <3>1
  <2>2. CASE o > ls
    <3>1. t = <<>>
      BY <1>6, <2>1, <2>2
    <3>2. <<>> \in Seq(X) /\ Len(<<>>) = 0
      OBVIOUS
    <3>3. ~whole
      BY <1>4, <2>1, <2>2
    <3>4. 0 <= N + 1 - k
      BY <1>4, <2>1
    <3>5. \A m \in 1 .. Len(t) : FALSE
      BY <3>1, <3>2
    <3> QED BY <3>1, <3>2, <3>3, <3>4, <3>5
  <2>3. CASE ~(o > ls)
    <3>1. t = <<a>> \o u /\ a \in X
      BY <1>6, <1>8, <2>1, <2>3
    <3>2. /\ u \in Seq(X) /\ Len(u) \in Nat /\ Len(u) <= N - k
          /\ whole => Len(u) = N - k
          /\ RightAt(fs, exact, s, k, a)
          /\ \A m \in 1 .. Len(u) : RightAt(fs, exact, s, k + m, u[m])
      <4>1. CASE p <= ls + 1
        <5>1. a = Read(fs[k], exact) /\ next = p
          BY <1>7, <4>1
        <5>2. /\ u \in Seq(X) /\ Len(u) \in Nat /\ Len(u) <= N + 1 - (k + 1)
              /\ whole => Len(u) = N + 1 - (k + 1)
              /\ \A m \in 1 .. Len(u) : RightAt(fs, exact, s, k + 1 + m - 1, u[m])
          BY <1>10, <4>1, <5>1
        <5>3. N + 1 - (k + 1) = N - k
          BY <1>4, <2>1
        <5>4. \A m \in 1 .. Len(u) : k + 1 + m - 1 = k + m
          BY <2>1
        <5>5. ~whole => k < N
          <6> SUFFICES ASSUME ~whole, ~(k < N) PROVE FALSE
            OBVIOUS
          <6>1. k = N
            BY <1>4, <2>1
          <6>2. p = le + 1
            BY <1>5, <6>1
          <6> QED BY <1>4, <4>1, <6>2
        <5>6. RightAt(fs, exact, s, k, a)
          BY <5>1, <5>5 DEF RightAt, N, ls, le
        <5> HIDE DEF u, a, next, whole
        <5> QED BY <5>2, <5>3, <5>4, <5>6
      <4>2. CASE p > ls + 1
        <5>1. Cut(a, fs[k]) /\ next \in Nat /\ next > ls
          BY <1>7, <4>2
        <5>2. u = <<>>
          BY <1>6, <5>1
        <5>3. ~whole
          BY <1>4, <2>1, <4>2
        <5>4. <<>> \in Seq(X) /\ Len(<<>>) = 0
          OBVIOUS
        <5>5. \A m \in 1 .. Len(u) : FALSE
          BY <5>2, <5>4
        <5>6. RightAt(fs, exact, s, k, a)
          BY <5>1, <5>3 DEF RightAt, ls, le
        <5>7. 0 <= N - k
          BY <1>4, <2>1
        <5> HIDE DEF a, u, whole
        <5> QED BY <5>2, <5>3, <5>4, <5>5, <5>6, <5>7
      <4> QED BY <1>4, <2>1, <4>1, <4>2
    <3> HIDE DEF t, a, u, whole
    <3>3. /\ t \in Seq(X) /\ Len(t) = Len(u) + 1 /\ t[1] = a
          /\ \A m \in 1 .. Len(u) : t[m + 1] = u[m]
      BY <3>1, <3>2
    <3>4. Len(t) \in Nat /\ Len(t) <= N + 1 - k /\ (whole => Len(t) = N + 1 - k)
      <4> DEFINE lu == Len(u)
      <4>1. lu \in Nat /\ lu <= N - k /\ (whole => lu = N - k) /\ Len(t) = lu + 1
        BY <3>2, <3>3
      <4> HIDE DEF lu
      <4>2. lu + 1 \in Nat /\ lu + 1 <= N + 1 - k /\ (lu = N - k => lu + 1 = N + 1 - k)
        BY <1>4, <2>1, <4>1
      <4> QED BY <4>1, <4>2
    <3>5. ASSUME NEW m \in 1 .. Len(t) PROVE RightAt(fs, exact, s, k + m - 1, t[m])
      <4>1. CASE m = 1
        <5>1. k + m - 1 = k /\ t[m] = a
          BY <2>1, <3>3, <4>1
        <5> QED BY <3>2, <5>1
      <4>2. CASE m # 1
        <5> DEFINE x == m - 1
        <5>1. x \in 1 .. Len(u) /\ x + 1 = m /\ k + x = k + m - 1
          BY <2>1, <3>2, <3>3, <4>2
        <5> HIDE DEF x
        <5>2. t[m] = u[x] /\ RightAt(fs, exact, s, k + x, u[x])
          BY <3>2, <3>3, <5>1
        <5> QED BY <5>1, <5>2
      <4> QED BY <4>1, <4>2
    <3> QED BY <3>3, <3>4, <3>5
  <2> QED BY <2>2, <2>3
<1> HIDE DEF Claim
<1>11. Bad = {}
  <2> SUFFICES ASSUME Bad # {} PROVE FALSE
    OBVIOUS
  <2>1. PICK y \in Bad : \A z \in Bad : y <= z
    BY Least
  <2>2. y \in Nat /\ y <= N /\ ~Claim(N + 1 - y)
    OBVIOUS
  <2>3. y # 0
    <3>1. N + 1 - 0 = N + 1
      BY <1>4
    <3> QED BY <1>9, <2>2, <3>1
  <2> DEFINE k == N + 1 - y
  <2>4. y - 1 \in Nat /\ y - 1 <= N /\ ~(y <= y - 1) /\ k \in 1 .. N /\ N + 1 - (y - 1) = k + 1
    BY <1>4, <2>2, <2>3
  <2>5. y - 1 \notin Bad
    <3> HIDE DEF Bad
    <3> QED BY <2>1, <2>4
  <2>6. Claim(k + 1)
    BY <2>4, <2>5
  <2>7. ~Claim(k)
    BY <2>2
  <2> HIDE DEF k
  <2> QED BY <1>10, <2>4, <2>6, <2>7
<1>12. Claim(1)
  <2>1. N \in Nat /\ N <= N /\ N + 1 - N = 1
    BY <1>4
  <2>2. Claim(N + 1 - N)
    BY <1>11, <2>1
  <2> QED BY <2>1, <2>2
<1> DEFINE r == Fields(s, exact, inHeader)
<1>13. r = g[off[1]] /\ off[1] <= ls + 1
  BY <1>2, <1>4, <1>5
<1> HIDE DEF r, whole
<1>14. /\ r \in Seq(X) /\ Len(r) \in Nat /\ Len(r) <= N + 1 - 1
       /\ whole => Len(r) = N + 1 - 1
       /\ \A m \in 1 .. Len(r) : RightAt(fs, exact, s, 1 + m - 1, r[m])
  BY <1>12, <1>13 DEF Claim
<1>15. N + 1 - 1 = N /\ \A m \in 1 .. Len(r) : 1 + m - 1 = m
  BY <1>4
<1>16. DOMAIN r = 1 .. Len(r)
  BY <1>14
<1>17. \A m \in 1 .. Len(r) : RightAt(fs, exact, s, m, r[m])
  BY <1>14, <1>15
<1>18. Len(r) <= N /\ (whole => Len(r) = N)
  BY <1>14, <1>15
<1> QED BY <1>14, <1>16, <1>17, <1>18 DEF N, ls, le, whole, r

-----------------------------------------------------------------------------
(* Of the fields of a kind, the only one, and all of them. *)
NoneIn(r, wire, id) == \A k \in DOMAIN r : ~(r[k].wire = wire /\ r[k].field = id)

OnlyAt(r, wire, id, k) ==
  /\ k \in DOMAIN r /\ k \in Nat /\ r[k].wire = wire /\ r[k].field = id
  /\ \A m \in DOMAIN r : r[m].wire = wire /\ r[m].field = id => m = k

(* The last field of a kind when there is none, or one. *)
LEMMA NoneOf ==
  ASSUME NEW r, NEW wire, NEW id, NoneIn(r, wire, id)
  PROVE  LastOf(r, wire, id) = Number(id, 0)
<1>1. Places(r, wire, id) = {}
  BY DEF Places, NoneIn
<1> QED BY <1>1 DEF LastOf

LEMMA OnlyOf ==
  ASSUME NEW r, NEW wire, NEW id, NEW k, OnlyAt(r, wire, id, k)
  PROVE  LastOf(r, wire, id) = r[k]
<1>1. Places(r, wire, id) = {k} /\ k \in Nat
  BY DEF Places, OnlyAt
<1>2. \A x \in {k} : x <= k /\ x \in Nat
  BY <1>1
<1>3. Max({k}) = k
  BY <1>2, MaxIs
<1> QED BY <1>1, <1>3 DEF LastOf

(* All fields of a kind that are in a row. *)
LEMMA AllOfIs ==
  ASSUME NEW r, NEW wire, NEW id, NEW b \in Nat, NEW h \in Nat,
         Places(r, wire, id) = b + 1 .. b + h
  PROVE  AllOf(r, wire, id) = [n \in 1 .. h |-> r[b + n]]
<1> DEFINE places == Places(r, wire, id)
           At(n) == CHOOSE i \in places : Cardinality({j \in places : j <= i}) = n
<1>1. Cardinality(places) = h
  <2>1. b + 1 \in Int /\ b + h \in Int
    OBVIOUS
  <2>2. Cardinality(b + 1 .. b + h) = IF b + 1 > b + h THEN 0 ELSE b + h - (b + 1) + 1
    BY <2>1, FS_Interval
  <2>3. (IF b + 1 > b + h THEN 0 ELSE b + h - (b + 1) + 1) = h
    OBVIOUS
  <2> QED BY <2>2, <2>3
<1>2. ASSUME NEW i \in places PROVE Cardinality({j \in places : j <= i}) = i - b
  <2>1. i \in b + 1 .. b + h
    OBVIOUS
  <2>2. {j \in places : j <= i} = b + 1 .. i
    BY <2>1
  <2>3. b + 1 \in Int /\ i \in Int
    BY <2>1
  <2>4. Cardinality(b + 1 .. i) = IF b + 1 > i THEN 0 ELSE i - (b + 1) + 1
    BY <2>3, FS_Interval
  <2>5. (IF b + 1 > i THEN 0 ELSE i - (b + 1) + 1) = i - b
    BY <2>1
  <2> QED BY <2>2, <2>4, <2>5
<1>3. ASSUME NEW n \in 1 .. h PROVE At(n) = b + n
  <2>1. b + n \in places /\ (b + n) - b = n
    OBVIOUS
  <2>2. Cardinality({j \in places : j <= b + n}) = n
    BY <1>2, <2>1
  <2>3. \E i \in places : Cardinality({j \in places : j <= i}) = n
    BY <2>1, <2>2
  <2>4. At(n) \in places /\ Cardinality({j \in places : j <= At(n)}) = n
    BY <2>3
  <2> DEFINE i == At(n)
  <2>5. i \in b + 1 .. b + h /\ i - b = n
    <3>1. i \in places /\ Cardinality({j \in places : j <= i}) = n
      BY <2>4
    <3> HIDE DEF i
    <3>2. i - b = n
      BY <1>2, <3>1
    <3> QED BY <3>1, <3>2
  <2> HIDE DEF i
  <2>6. i = b + n
    BY <2>5
  <2> QED BY <2>6 DEF i
<1>4. AllOf(r, wire, id) = [n \in 1 .. h |-> r[At(n)]]
  BY <1>1 DEF AllOf
<1> HIDE DEF At
<1> QED BY <1>3, <1>4

(* A short chunk can be written and read back. *)
LEMMA ChunkIs ==
  ASSUME NEW id \in 1 .. 8, NEW d \in Texts, NEW exact \in Nat \ {0}
  PROVE  /\ Chunk(id, d) \in Writable
         /\ Len(d) < exact /\ Len(d) < Modulus =>
              Readable(Chunk(id, d), exact) /\ Read(Chunk(id, d), exact) = Chunk(id, d)
<1>1. Len(d) \in Nat /\ Modulus \in Nat
  BY TextIs, LimitsAre
<1>2. Chunk(id, d) \in Writable
  BY <1>1 DEF Chunk, Writable
<1>3. ASSUME Len(d) < exact, Len(d) < Modulus PROVE Readable(Chunk(id, d), exact)
  <2>1. Len(d) \in 0 .. Modulus - 1
    BY <1>1, <1>3
  <2> QED BY <1>2, <1>3, <2>1 DEF Readable, Chunk
<1>4. ASSUME Len(d) < exact PROVE Read(Chunk(id, d), exact) = Chunk(id, d)
  <2>1. Rounded(Len(d), exact) = Len(d)
    BY <1>1, <1>4, RoundedIs
  <2> QED BY <2>1 DEF Read, Chunk
<1> QED BY <1>2, <1>3, <1>4

(* So is a number, which may be rounded. *)
LEMMA NumberIs ==
  ASSUME NEW id \in 1 .. 8, NEW n \in 0 .. Modulus - 1, NEW exact
  PROVE  /\ Number(id, n) \in Writable /\ Readable(Number(id, n), exact)
         /\ Read(Number(id, n), exact) = Number(id, Rounded(n, exact))
<1>1. Modulus \in Nat /\ <<>> \in Texts
  BY LimitsAre DEF Texts
<1> QED BY <1>1 DEF Number, Writable, Readable, Read

(* A text agrees with itself. *)
LEMMA AgreesItself == ASSUME NEW t \in Texts PROVE Agrees(t, 1, t)
<1>1. \A k \in 1 .. Len(t) : 1 + k - 1 = k
  BY TextIs
<1> QED BY <1>1 DEF Agrees

(* A header is read back. *)
LEMMA HeaderRead ==
  ASSUME NEW exact \in Nat, Keys < exact, NEW h \in [key : Texts, value : Texts]
  PROVE  /\ EncodeHeader(h) \in Texts
         /\ Len(EncodeHeader(h)) < exact /\ Len(EncodeHeader(h)) < Modulus =>
              /\ ~Broken(Fields(EncodeHeader(h), exact, TRUE))
              /\ DecodeHeader(EncodeHeader(h), exact) = h
<1> DEFINE a == Chunk(1, h.key)
           b == Chunk(2, h.value)
           fs == <<a, b>>
           t == EncodeHeader(h)
<1>1. exact \in Nat \ {0} /\ 1 \in 1 .. 8 /\ 2 \in 1 .. 8 /\ h.key \in Texts /\ h.value \in Texts
  BY DEF Keys
<1>2. a \in Writable /\ b \in Writable
  BY <1>1, ChunkIs
<1>3. fs \in Seq(Writable) /\ Len(fs) = 2 /\ fs[1] = a /\ fs[2] = b
  <2> HIDE DEF a, b
  <2> QED BY <1>2
<1>4. t = Encode(fs)
  BY DEF EncodeHeader
<1> HIDE DEF fs, t
<1>5. t \in Texts /\ \E off : Offsets(off, fs)
  BY <1>3, <1>4, EncodeIs
<1>6. ASSUME Len(t) < exact, Len(t) < Modulus
      PROVE  ~Broken(Fields(t, exact, TRUE)) /\ DecodeHeader(t, exact) = h
  <2>1. ASSUME NEW k \in 1 .. 2 PROVE Len(fs[k].data) <= Len(t)
    <3>1. Len(EncodeField(fs[k])) <= Len(t)
      BY <1>3, <1>4, <1>5 DEF Offsets
    <3> DEFINE f == fs[k]
               x == Len(Varint(f.field * 8 + f.wire))
               y == Len(Varint(f.number))
               z == Len(f.data)
    <3>2. f \in Writable
      <4>1. k = 1 \/ k = 2
        OBVIOUS
      <4> HIDE DEF a, b
      <4> QED BY <1>2, <1>3, <4>1
    <3> HIDE DEF f
    <3>3. Len(EncodeField(f)) = x + y + z /\ x \in Nat /\ y \in Nat /\ z \in Nat
      BY <3>2, EncodeFieldTyped
    <3>4. Len(t) \in Nat
      BY <1>5, TextIs
    <3> DEFINE l == Len(t)
    <3>5. x + y + z <= l
      BY <3>1, <3>3 DEF f
    <3> HIDE DEF x, y, z, l
    <3>6. z <= l
      BY <3>3, <3>4, <3>5 DEF l
    <3> QED BY <3>6 DEF f, z, l
  <2>2. Len(h.key) <= Len(t) /\ Len(h.value) <= Len(t)
    <3>1. fs[1].data = h.key /\ fs[2].data = h.value /\ 1 \in 1 .. 2 /\ 2 \in 1 .. 2
      BY <1>3 DEF Chunk
    <3> QED BY <2>1, <3>1
  <2>3. Len(h.key) < exact /\ Len(h.key) < Modulus /\ Len(h.value) < exact /\ Len(h.value) < Modulus
    <3> DEFINE x == Len(h.key)
               y == Len(h.value)
               l == Len(t)
    <3>1. x \in Nat /\ y \in Nat /\ l \in Nat /\ Modulus \in Nat
      BY <1>1, <1>5, TextIs, LimitsAre
    <3>2. x <= l /\ y <= l /\ l < exact /\ l < Modulus
      BY <1>6, <2>2
    <3> HIDE DEF x, y, l
    <3>3. x < exact /\ x < Modulus /\ y < exact /\ y < Modulus
      BY <3>1, <3>2
    <3> QED BY <3>3 DEF x, y
  <2>4. /\ Readable(a, exact) /\ Read(a, exact) = a /\ Readable(b, exact) /\ Read(b, exact) = b
    BY <1>1, <2>3, ChunkIs
  <2>5. a.wire = 2 /\ b.wire = 2 /\ a.field = 1 /\ b.field = 2 /\ a.data = h.key /\ b.data = h.value
    BY DEF Chunk
  <2> HIDE DEF a, b
  <2>6. ReadableSeq(fs, exact) /\ \A k \in 1 .. Len(fs) : fs[k].wire = 2
    BY <1>3, <2>4, <2>5 DEF ReadableSeq
  <2>7. Agrees(t, 1, Encode(fs)) /\ Len(t) <= Len(Encode(fs)) /\ Len(t) = Len(Encode(fs))
    BY <1>4, <1>5, AgreesItself, TextIs
  <2> DEFINE r == Fields(t, exact, TRUE)
  <2>8. /\ DOMAIN r = 1 .. 2
        /\ \A k \in 1 .. 2 : r[k] = Read(fs[k], exact)
    <3>1. /\ DOMAIN r = 1 .. Len(r) /\ Len(r) = Len(fs)
          /\ \A k \in 1 .. Len(r) : RightAt(fs, exact, t, k, r[k])
      <4> DEFINE inHeader == TRUE
                 q == Fields(t, exact, inHeader)
      <4>1. MessageOf(t, fs, exact, inHeader)
        BY <1>5, <2>6, <2>7 DEF MessageOf
      <4>2. q = r
        OBVIOUS
      <4> HIDE DEF inHeader, r
      <4>3. /\ DOMAIN q = 1 .. Len(q) /\ Len(q) = Len(fs)
            /\ \A k \in 1 .. Len(q) : RightAt(fs, exact, t, k, q[k])
        BY <2>7, <4>1, MessageRead
      <4> HIDE DEF q
      <4> QED BY <4>2, <4>3
    <3>2. \A k \in 1 .. Len(r) : r[k] = Read(fs[k], exact)
      <4> HIDE DEF r
      <4> QED BY <2>7, <3>1 DEF RightAt
    <3> QED BY <1>3, <3>1, <3>2
  <2> HIDE DEF r
  <2>9. r[1] = a /\ r[2] = b
    BY <1>3, <2>4, <2>8
  <2>10. ~Broken(r)
    <3>1. a # Raised /\ b # Raised
      BY <2>5 DEF Raised
    <3>2. \A k \in 1 .. 2 : k = 1 \/ k = 2
      OBVIOUS
    <3> QED BY <2>8, <2>9, <3>1, <3>2 DEF Broken
  <2>11. LastOf(r, 2, 1) = a /\ LastOf(r, 2, 2) = b
    <3>1. \A k \in 1 .. 2 : k = 1 \/ k = 2
      OBVIOUS
    <3>2. \A k \in 1 .. 2 : r[k].field = 1 => k = 1
      BY <2>5, <2>9, <3>1
    <3>3. \A k \in 1 .. 2 : r[k].field = 2 => k = 2
      BY <2>5, <2>9, <3>1
    <3>4. 1 \in 1 .. 2 /\ 2 \in 1 .. 2 /\ 2 \in Nat
      OBVIOUS
    <3>5. r[1].wire = 2 /\ r[1].field = 1 /\ r[2].wire = 2 /\ r[2].field = 2
      BY <2>5, <2>9
    <3>6. OnlyAt(r, 2, 1, 1)
      BY <2>8, <3>2, <3>4, <3>5 DEF OnlyAt
    <3>7. OnlyAt(r, 2, 2, 2)
      BY <2>8, <3>3, <3>4, <3>5 DEF OnlyAt
    <3>8. LastOf(r, 2, 1) = r[1] /\ LastOf(r, 2, 2) = r[2]
      BY <3>6, <3>7, OnlyOf
    <3> QED BY <2>9, <3>8
  <2>12. DecodeHeader(t, exact) = [key |-> h.key, value |-> h.value]
    BY <2>5, <2>11 DEF DecodeHeader, r
  <2>13. h = [key |-> h.key, value |-> h.value]
    OBVIOUS
  <2> QED BY <2>10, <2>12, <2>13 DEF r
<1> QED BY <1>5, <1>6 DEF t

-----------------------------------------------------------------------------
(* The fields of a frame, and where each of them is. *)
SeqAt(f)  == IF f.seq # 0 THEN 1 ELSE 0
LogAt(f)  == SeqAt(f) + IF f.log # 0 THEN 1 ELSE 0
LastAt(f) == LogAt(f) + 2 + Len(f.headers) + IF f.payload # <<>> THEN 1 ELSE 0

FieldsAre(fs, f) ==
  /\ Len(fs) = LastAt(f)
  /\ f.seq # 0 => fs[1] = Number(1, f.seq)
  /\ f.log # 0 => fs[LogAt(f)] = Number(2, f.log)
  /\ fs[LogAt(f) + 1] = Number(3, f.service) /\ fs[LogAt(f) + 2] = Number(4, f.method)
  /\ \A n \in 1 .. Len(f.headers) :
       fs[LogAt(f) + 2 + n] = Chunk(5, EncodeHeader(f.headers[n]))
  /\ f.payload # <<>> => fs[LogAt(f) + 2 + Len(f.headers) + 1] = Chunk(8, f.payload)

(* What a frame consists of. *)
LEMMA FrameIs ==
  ASSUME NEW f \in FrameType
  PROVE  /\ f.seq \in 0 .. Modulus - 1 /\ f.log \in 0 .. Modulus - 1
         /\ f.service \in 0 .. Modulus - 1 /\ f.method \in 0 .. Modulus - 1
         /\ f.headers \in Seq([key : Texts, value : Texts]) /\ f.payload \in Texts
         /\ Len(f.headers) \in Nat /\ DOMAIN f.headers = 1 .. Len(f.headers)
         /\ SeqAt(f) \in {0, 1} /\ LogAt(f) \in SeqAt(f) .. SeqAt(f) + 1 /\ LastAt(f) \in Nat
         /\ LastAt(f) = LogAt(f) + 2 + Len(f.headers) + IF f.payload # <<>> THEN 1 ELSE 0
<1>1. f.headers \in Seq([key : Texts, value : Texts])
  BY DEF FrameType
<1>2. Len(f.headers) \in Nat /\ DOMAIN f.headers = 1 .. Len(f.headers)
  BY <1>1
<1>3. SeqAt(f) \in {0, 1}
  BY DEF SeqAt
<1>4. LogAt(f) \in SeqAt(f) .. SeqAt(f) + 1
  BY <1>3 DEF LogAt
<1>5. LastAt(f) \in Nat
  BY <1>2, <1>3, <1>4 DEF LastAt
<1>6. /\ f.seq \in 0 .. Modulus - 1 /\ f.log \in 0 .. Modulus - 1
      /\ f.service \in 0 .. Modulus - 1 /\ f.method \in 0 .. Modulus - 1 /\ f.payload \in Texts
  BY DEF FrameType
<1> QED BY <1>1, <1>2, <1>3, <1>4, <1>5, <1>6 DEF LastAt

(* The fields of a frame are where FieldsAre says. *)
LEMMA FieldsOfIs ==
  ASSUME NEW f \in FrameType
  PROVE  FieldsOf(f) \in Seq(Writable) /\ FieldsAre(FieldsOf(f), f)
<1> DEFINE W == Writable
           h == Len(f.headers)
           a == IF f.seq # 0 THEN <<Number(1, f.seq)>> ELSE <<>>
           b == IF f.log # 0 THEN <<Number(2, f.log)>> ELSE <<>>
           c == <<Number(3, f.service), Number(4, f.method)>>
           d == [i \in DOMAIN f.headers |-> Chunk(5, EncodeHeader(f.headers[i]))]
           e == IF f.payload # <<>> THEN <<Chunk(8, f.payload)>> ELSE <<>>
           fs == (((a \o b) \o c) \o d) \o e
<1>1. FieldsOf(f) = fs
  BY DEF FieldsOf
<1>2. \A id \in 1 .. 8 : \A n \in 0 .. Modulus - 1 : Number(id, n) \in W
  BY NumberIs
<1>3. \A id \in 1 .. 8 : \A t \in Texts : Chunk(id, t) \in W
  <2>1. 1 \in Nat \ {0}
    OBVIOUS
  <2> QED BY <2>1, ChunkIs
<1>4. \A x \in [key : Texts, value : Texts] : EncodeHeader(x) \in Texts
  <2>1. Keys + 1 \in Nat /\ Keys < Keys + 1
    BY DEF Keys
  <2> DEFINE k == Keys + 1
  <2> HIDE DEF k
  <2>2. k \in Nat /\ Keys < k
    BY <2>1 DEF k
  <2> QED BY <2>2, HeaderRead
<1> HIDE DEF W
<1>5. h \in Nat /\ DOMAIN f.headers = 1 .. h
  BY FrameIs
<1>6. a \in Seq(W) /\ Len(a) = SeqAt(f) /\ (f.seq # 0 => a[1] = Number(1, f.seq))
  <2>1. Number(1, f.seq) \in W
    BY <1>2, FrameIs
  <2> QED BY <2>1 DEF SeqAt
<1>7. b \in Seq(W) /\ Len(b) = (IF f.log # 0 THEN 1 ELSE 0) /\ (f.log # 0 => b[1] = Number(2, f.log))
  <2>1. Number(2, f.log) \in W
    BY <1>2, FrameIs
  <2> QED BY <2>1
<1>8. c \in Seq(W) /\ Len(c) = 2 /\ c[1] = Number(3, f.service) /\ c[2] = Number(4, f.method)
  <2>1. Number(3, f.service) \in W /\ Number(4, f.method) \in W
    BY <1>2, FrameIs
  <2> QED BY <2>1
<1>9. d \in Seq(W) /\ Len(d) = h /\ \A n \in 1 .. h : d[n] = Chunk(5, EncodeHeader(f.headers[n]))
  <2>1. \A n \in 1 .. h : f.headers[n] \in [key : Texts, value : Texts]
    <3> DEFINE S == [key : Texts, value : Texts]
    <3>1. f.headers \in Seq(S)
      BY FrameIs
    <3> HIDE DEF S
    <3>2. \A n \in 1 .. Len(f.headers) : f.headers[n] \in S
      BY <3>1
    <3> QED BY <3>2 DEF h, S
  <2>2. \A n \in 1 .. h : Chunk(5, EncodeHeader(f.headers[n])) \in W
    BY <1>3, <1>4, <2>1
  <2> QED BY <1>5, <2>2
<1>10. e \in Seq(W) /\ Len(e) = (IF f.payload # <<>> THEN 1 ELSE 0)
       /\ (f.payload # <<>> => e[1] = Chunk(8, f.payload))
  <2>1. Chunk(8, f.payload) \in W
    BY <1>3, FrameIs
  <2> QED BY <2>1
<1> HIDE DEF a, b, c, d, e, h
<1> DEFINE ab == a \o b
           abc == ab \o c
           abcd == abc \o d
<1>11. ab \in Seq(W) /\ Len(ab) = LogAt(f)
       /\ (f.seq # 0 => ab[1] = Number(1, f.seq)) /\ (f.log # 0 => ab[LogAt(f)] = Number(2, f.log))
  <2>1. /\ ab \in Seq(W) /\ Len(ab) = Len(a) + Len(b)
        /\ \A i \in 1 .. Len(a) + Len(b) : ab[i] = IF i <= Len(a) THEN a[i] ELSE b[i - Len(a)]
    BY <1>6, <1>7, ConcatProperties
  <2> HIDE DEF ab
  <2>2. Len(ab) = LogAt(f)
    BY <1>6, <1>7, <2>1 DEF LogAt
  <2>3. f.seq # 0 => ab[1] = Number(1, f.seq)
    BY <1>6, <1>7, <2>1 DEF SeqAt
  <2>4. f.log # 0 => ab[LogAt(f)] = Number(2, f.log)
    <3> SUFFICES ASSUME f.log # 0 PROVE ab[LogAt(f)] = b[1]
      BY <1>7
    <3>1. Len(b) = 1 /\ Len(a) \in Nat /\ LogAt(f) = Len(a) + 1
      BY <1>6, <1>7 DEF LogAt, SeqAt
    <3>2. \A i \in 1 .. Len(a) + 1 : i = Len(a) + 1 => ab[i] = b[1]
      BY <2>1, <3>1
    <3> QED BY <3>1, <3>2
  <2> QED BY <2>1, <2>2, <2>3, <2>4
<1>12. LogAt(f) \in Nat /\ (f.seq # 0 => 1 <= LogAt(f)) /\ (f.log # 0 => 1 <= LogAt(f))
  BY DEF LogAt, SeqAt
<1> DEFINE g == LogAt(f)
<1> HIDE DEF ab
<1>13. /\ abc \in Seq(W) /\ Len(abc) = g + 2
       /\ \A i \in 1 .. g : abc[i] = ab[i]
       /\ abc[g + 1] = Number(3, f.service) /\ abc[g + 2] = Number(4, f.method)
  <2>1. /\ abc \in Seq(W) /\ Len(abc) = g + 2
        /\ \A i \in 1 .. g + 2 : abc[i] = IF i <= g THEN ab[i] ELSE c[i - g]
    <3>1. /\ abc \in Seq(W) /\ Len(abc) = Len(ab) + Len(c)
          /\ \A i \in 1 .. Len(ab) + Len(c) :
               abc[i] = IF i <= Len(ab) THEN ab[i] ELSE c[i - Len(ab)]
      BY <1>8, <1>11, ConcatProperties
    <3>2. Len(ab) = g /\ Len(c) = 2
      BY <1>8, <1>11
    <3> HIDE DEF abc, g
    <3> QED BY <3>1, <3>2
  <2> HIDE DEF abc, g
  <2>2. g \in Nat
    BY <1>12 DEF g
  <2>3. \A i \in 1 .. g + 2 : i = g + 1 => abc[i] = c[1]
    BY <2>1, <2>2
  <2>4. \A i \in 1 .. g + 2 : i = g + 2 => abc[i] = c[2]
    BY <2>1, <2>2
  <2>5. g + 1 \in 1 .. g + 2 /\ g + 2 \in 1 .. g + 2
    BY <2>2
  <2> QED BY <1>8, <2>1, <2>2, <2>3, <2>4, <2>5
<1> HIDE DEF abc
<1>14. /\ abcd \in Seq(W) /\ Len(abcd) = g + 2 + h
       /\ \A i \in 1 .. g + 2 : abcd[i] = abc[i]
       /\ \A n \in 1 .. h : abcd[g + 2 + n] = d[n]
  <2>1. /\ abcd \in Seq(W) /\ Len(abcd) = g + 2 + h
        /\ \A i \in 1 .. g + 2 + h : abcd[i] = IF i <= g + 2 THEN abc[i] ELSE d[i - (g + 2)]
    <3>1. /\ abcd \in Seq(W) /\ Len(abcd) = Len(abc) + Len(d)
          /\ \A i \in 1 .. Len(abc) + Len(d) :
               abcd[i] = IF i <= Len(abc) THEN abc[i] ELSE d[i - Len(abc)]
      BY <1>9, <1>13, ConcatProperties
    <3>2. Len(abc) = g + 2 /\ Len(d) = h
      BY <1>9, <1>13
    <3> HIDE DEF abcd, g
    <3> QED BY <3>1, <3>2
  <2> HIDE DEF abcd, g
  <2>2. g \in Nat
    BY <1>12 DEF g
  <2>3. ASSUME NEW n \in 1 .. h PROVE abcd[g + 2 + n] = d[n]
    <3> DEFINE i == g + 2 + n
    <3>1. i \in 1 .. g + 2 + h /\ ~(i <= g + 2) /\ i - (g + 2) = n
      BY <1>5, <2>2
    <3> HIDE DEF i
    <3>2. abcd[i] = d[n]
      BY <2>1, <3>1
    <3> QED BY <3>2 DEF i
  <2> QED BY <1>5, <2>1, <2>2, <2>3
<1> HIDE DEF abcd
<1> DEFINE l == IF f.payload # <<>> THEN 1 ELSE 0
<1>15. /\ fs \in Seq(W) /\ Len(fs) = g + 2 + h + l
       /\ \A i \in 1 .. g + 2 + h : fs[i] = abcd[i]
       /\ f.payload # <<>> => fs[g + 2 + h + 1] = e[1]
  <2>1. /\ abcd \o e \in Seq(W) /\ Len(abcd \o e) = g + 2 + h + l
        /\ \A i \in 1 .. g + 2 + h + l :
             (abcd \o e)[i] = IF i <= g + 2 + h THEN abcd[i] ELSE e[i - (g + 2 + h)]
    <3> DEFINE x == abcd \o e
    <3>1. /\ x \in Seq(W) /\ Len(x) = Len(abcd) + Len(e)
          /\ \A i \in 1 .. Len(abcd) + Len(e) :
               x[i] = IF i <= Len(abcd) THEN abcd[i] ELSE e[i - Len(abcd)]
      BY <1>10, <1>14, ConcatProperties
    <3>2. Len(abcd) = g + 2 + h /\ Len(e) = l
      BY <1>10, <1>14
    <3> HIDE DEF x, g, l
    <3>3. /\ x \in Seq(W) /\ Len(x) = g + 2 + h + l
          /\ \A i \in 1 .. g + 2 + h + l :
               x[i] = IF i <= g + 2 + h THEN abcd[i] ELSE e[i - (g + 2 + h)]
      BY <3>1, <3>2
    <3> QED BY <3>3 DEF x
  <2>2. fs = abcd \o e
    BY DEF abcd, abc, ab
  <2> HIDE DEF g, fs
  <2>3. g \in Nat /\ l \in Nat /\ g + 2 + h \in Nat
    BY <1>5, <1>12 DEF g
  <2> DEFINE m == g + 2 + h
  <2>4. f.payload # <<>> => m + 1 \in 1 .. m + l /\ ~(m + 1 <= m) /\ m + 1 - m = 1
    BY <2>3
  <2>5. f.payload # <<>> => fs[m + 1] = e[1]
    <3> HIDE DEF m
    <3> SUFFICES ASSUME f.payload # <<>> PROVE fs[m + 1] = e[1]
      OBVIOUS
    <3> DEFINE i == m + 1
    <3>1. i \in 1 .. m + l /\ ~(i <= m) /\ i - m = 1
      <4>1. m \in Nat
        BY <2>3 DEF m
      <4> QED BY <2>4, <4>1
    <3> HIDE DEF i, l
    <3>2. fs[i] = e[1]
      BY <2>1, <2>2, <3>1 DEF m
    <3> QED BY <3>2 DEF i
  <2>6. \A i \in 1 .. g + 2 + h : fs[i] = abcd[i]
    BY <2>1, <2>2, <2>3
  <2> QED BY <2>1, <2>2, <2>5, <2>6
<1> HIDE DEF fs
<1>16. Len(fs) = LastAt(f)
  BY <1>15 DEF LastAt, h
<1>17. g \in Nat /\ h \in Nat
  BY <1>5, <1>12
<1>18. \A i \in 1 .. g : fs[i] = ab[i]
  <2> HIDE DEF g
  <2>1. \A i \in 1 .. g : i \in 1 .. g + 2 + h /\ i \in 1 .. g + 2
    BY <1>17
  <2> QED BY <1>13, <1>14, <1>15, <2>1
<1>19. f.seq # 0 => fs[1] = Number(1, f.seq)
  BY <1>11, <1>12, <1>18
<1>20. f.log # 0 => fs[g] = Number(2, f.log)
  <2> SUFFICES ASSUME f.log # 0 PROVE fs[g] = Number(2, f.log)
    OBVIOUS
  <2>1. g \in 1 .. g /\ ab[g] = Number(2, f.log)
    BY <1>11, <1>12
  <2> HIDE DEF g
  <2> QED BY <1>18, <2>1
<1>21. fs[g + 1] = Number(3, f.service) /\ fs[g + 2] = Number(4, f.method)
  <2> HIDE DEF g
  <2>1. /\ g + 1 \in 1 .. g + 2 + h /\ g + 1 \in 1 .. g + 2
        /\ g + 2 \in 1 .. g + 2 + h /\ g + 2 \in 1 .. g + 2
    BY <1>17
  <2>2. fs[g + 1] = abc[g + 1] /\ fs[g + 2] = abc[g + 2]
    BY <1>14, <1>15, <2>1
  <2> QED BY <1>13, <2>2
<1>22. ASSUME NEW n \in 1 .. h PROVE fs[g + 2 + n] = Chunk(5, EncodeHeader(f.headers[n]))
  <2> HIDE DEF g
  <2>1. g + 2 + n \in 1 .. g + 2 + h
    BY <1>17
  <2> QED BY <1>9, <1>14, <1>15, <2>1
<1>23. f.payload # <<>> => fs[g + 2 + h + 1] = Chunk(8, f.payload)
  BY <1>10, <1>15
<1> QED BY <1>1, <1>15, <1>16, <1>19, <1>20, <1>21, <1>22, <1>23 DEF FieldsAre, W, h, fs

(* Every one of them is of one of six kinds. *)
LEMMA KindOf ==
  ASSUME NEW f \in FrameType, NEW fs, FieldsAre(fs, f), NEW k \in 1 .. Len(fs)
  PROVE  \/ f.seq # 0 /\ k = 1 /\ fs[k] = Number(1, f.seq)
         \/ f.log # 0 /\ k = LogAt(f) /\ fs[k] = Number(2, f.log)
         \/ k = LogAt(f) + 1 /\ fs[k] = Number(3, f.service)
         \/ k = LogAt(f) + 2 /\ fs[k] = Number(4, f.method)
         \/ \E n \in 1 .. Len(f.headers) :
              k = LogAt(f) + 2 + n /\ fs[k] = Chunk(5, EncodeHeader(f.headers[n]))
         \/ f.payload # <<>> /\ k = Len(fs) /\ fs[k] = Chunk(8, f.payload)
<1> DEFINE g == LogAt(f)
           h == Len(f.headers)
           l == IF f.payload # <<>> THEN 1 ELSE 0
<1>1. g \in Nat /\ h \in Nat /\ Len(fs) = g + 2 + h + l /\ k \in 1 .. g + 2 + h + l
  BY FrameIs DEF FieldsAre
<1>2. k \in 1 .. g => (f.seq # 0 /\ k = 1) \/ (f.log # 0 /\ k = g)
  BY DEF LogAt, SeqAt
<1> HIDE DEF g, h
<1>3. \/ k \in 1 .. g \/ k = g + 1 \/ k = g + 2
      \/ k \in g + 2 + 1 .. g + 2 + h
      \/ f.payload # <<>> /\ k = g + 2 + h + 1 /\ k = Len(fs)
  BY <1>1
<1>4. CASE k \in 1 .. g
  BY <1>2, <1>4 DEF FieldsAre, g
<1>5. CASE k = g + 1
  BY <1>5 DEF FieldsAre, g
<1>6. CASE k = g + 2
  BY <1>6 DEF FieldsAre, g
<1>7. CASE k \in g + 2 + 1 .. g + 2 + h
  <2> DEFINE n == k - (g + 2)
  <2>1. n \in 1 .. h /\ k = g + 2 + n
    BY <1>1, <1>7
  <2> HIDE DEF n
  <2>2. fs[g + 2 + n] = Chunk(5, EncodeHeader(f.headers[n]))
    BY <2>1 DEF FieldsAre, g, h
  <2>3. n \in 1 .. Len(f.headers) /\ k = LogAt(f) + 2 + n
        /\ fs[k] = Chunk(5, EncodeHeader(f.headers[n]))
    BY <2>1, <2>2 DEF g, h
  <2> QED BY <2>3
<1>8. CASE f.payload # <<>> /\ k = g + 2 + h + 1 /\ k = Len(fs)
  BY <1>8 DEF FieldsAre, g, h
<1> QED BY <1>3, <1>4, <1>5, <1>6, <1>7, <1>8

(* A frame whose chunks are shorter than what can be kept. *)
Sendable(f, exact) ==
  /\ f \in FrameType /\ exact \in Nat /\ Keys < exact
  /\ Len(f.payload) < exact /\ Len(f.payload) < Modulus
  /\ \A n \in 1 .. Len(f.headers) :
       Len(EncodeHeader(f.headers[n])) < exact /\ Len(EncodeHeader(f.headers[n])) < Modulus

(* The headers of a frame are keys and values. *)
LEMMA HeaderTyped ==
  ASSUME NEW f \in FrameType, NEW n \in 1 .. Len(f.headers)
  PROVE  f.headers[n] \in [key : Texts, value : Texts]
<1> DEFINE S == [key : Texts, value : Texts]
<1>1. f.headers \in Seq(S)
  BY FrameIs
<1> HIDE DEF S
<1>2. f.headers[n] \in S
  BY <1>1
<1> QED BY <1>2 DEF S

(* The fields of a frame can be read back. *)
LEMMA FrameReadable ==
  ASSUME NEW f, NEW exact, Sendable(f, exact)
  PROVE  ReadableSeq(FieldsOf(f), exact)
<1> DEFINE fs == FieldsOf(f)
<1>1. f \in FrameType /\ exact \in Nat \ {0} /\ Keys < exact /\ exact \in Nat
  BY DEF Sendable, Keys
<1>2. fs \in Seq(Writable) /\ FieldsAre(fs, f)
  BY <1>1, FieldsOfIs
<1>3. /\ f.seq \in 0 .. Modulus - 1 /\ f.log \in 0 .. Modulus - 1
      /\ f.service \in 0 .. Modulus - 1 /\ f.method \in 0 .. Modulus - 1 /\ f.payload \in Texts
      /\ 1 \in 1 .. 8 /\ 2 \in 1 .. 8 /\ 3 \in 1 .. 8 /\ 4 \in 1 .. 8 /\ 5 \in 1 .. 8 /\ 8 \in 1 .. 8
  BY <1>1, FrameIs
<1>4. /\ Readable(Number(1, f.seq), exact) /\ Readable(Number(2, f.log), exact)
      /\ Readable(Number(3, f.service), exact) /\ Readable(Number(4, f.method), exact)
  BY <1>3, NumberIs
<1>5. Readable(Chunk(8, f.payload), exact)
  BY <1>1, <1>3, ChunkIs DEF Sendable
<1>6. ASSUME NEW n \in 1 .. Len(f.headers)
      PROVE  Readable(Chunk(5, EncodeHeader(f.headers[n])), exact)
  <2>1. f.headers[n] \in [key : Texts, value : Texts]
    BY <1>1, HeaderTyped
  <2> DEFINE t == EncodeHeader(f.headers[n])
  <2>2. t \in Texts /\ Len(t) < exact /\ Len(t) < Modulus
    BY <1>1, <2>1, HeaderRead DEF Sendable
  <2> HIDE DEF t
  <2>3. Readable(Chunk(5, t), exact)
    BY <1>1, <1>3, <2>2, ChunkIs
  <2> QED BY <2>3 DEF t
<1> HIDE DEF fs
<1>7. ASSUME NEW k \in 1 .. Len(fs) PROVE Readable(fs[k], exact)
  BY <1>1, <1>2, <1>4, <1>5, <1>6, KindOf
<1> QED BY <1>2, <1>7 DEF ReadableSeq, fs

-----------------------------------------------------------------------------
(* What is read of a frame is the frame, but for the numbers that cannot   *)
(* be kept.                                                                *)
ReadFrame(f, exact) ==
  [seq |-> Rounded(f.seq, exact), log |-> Rounded(f.log, exact),
   service |-> Rounded(f.service, exact), method |-> Rounded(f.method, exact),
   headers |-> f.headers, payload |-> f.payload]

(* What is read of each of them. *)
LEMMA ReadsAre ==
  ASSUME NEW f, NEW exact, Sendable(f, exact)
  PROVE  /\ Read(Number(1, f.seq), exact) = Number(1, Rounded(f.seq, exact))
         /\ Read(Number(2, f.log), exact) = Number(2, Rounded(f.log, exact))
         /\ Read(Number(3, f.service), exact) = Number(3, Rounded(f.service, exact))
         /\ Read(Number(4, f.method), exact) = Number(4, Rounded(f.method, exact))
         /\ \A n \in 1 .. Len(f.headers) :
              Read(Chunk(5, EncodeHeader(f.headers[n])), exact) = Chunk(5, EncodeHeader(f.headers[n]))
         /\ Read(Chunk(8, f.payload), exact) = Chunk(8, f.payload)
<1>1. f \in FrameType /\ exact \in Nat \ {0} /\ Keys < exact /\ exact \in Nat
  BY DEF Sendable, Keys
<1>2. /\ f.seq \in 0 .. Modulus - 1 /\ f.log \in 0 .. Modulus - 1
      /\ f.service \in 0 .. Modulus - 1 /\ f.method \in 0 .. Modulus - 1 /\ f.payload \in Texts
      /\ 1 \in 1 .. 8 /\ 2 \in 1 .. 8 /\ 3 \in 1 .. 8 /\ 4 \in 1 .. 8 /\ 5 \in 1 .. 8 /\ 8 \in 1 .. 8
  BY <1>1, FrameIs
<1>3. /\ Read(Number(1, f.seq), exact) = Number(1, Rounded(f.seq, exact))
      /\ Read(Number(2, f.log), exact) = Number(2, Rounded(f.log, exact))
      /\ Read(Number(3, f.service), exact) = Number(3, Rounded(f.service, exact))
      /\ Read(Number(4, f.method), exact) = Number(4, Rounded(f.method, exact))
  BY <1>2, NumberIs
<1>4. Read(Chunk(8, f.payload), exact) = Chunk(8, f.payload)
  BY <1>1, <1>2, ChunkIs DEF Sendable
<1>5. ASSUME NEW n \in 1 .. Len(f.headers)
      PROVE  Read(Chunk(5, EncodeHeader(f.headers[n])), exact) = Chunk(5, EncodeHeader(f.headers[n]))
  <2> DEFINE t == EncodeHeader(f.headers[n])
  <2>1. f.headers[n] \in [key : Texts, value : Texts]
    BY <1>1, HeaderTyped
  <2>2. t \in Texts /\ Len(t) < exact /\ Len(t) < Modulus
    BY <1>1, <2>1, HeaderRead DEF Sendable
  <2> HIDE DEF t
  <2>3. Read(Chunk(5, t), exact) = Chunk(5, t)
    BY <1>1, <1>2, <2>2, ChunkIs
  <2> QED BY <2>3 DEF t
<1> QED BY <1>3, <1>4, <1>5

(* The fields that are read are those that were written, in their order.   *)
AsRead(r, fs, exact) == DOMAIN r = 1 .. Len(fs) /\ \A k \in 1 .. Len(fs) : r[k] = Read(fs[k], exact)

(* What is where in the fields that are read, and that nothing else is.    *)
LEMMA FieldsRead ==
  ASSUME NEW f, NEW exact, Sendable(f, exact), NEW fs, FieldsAre(fs, f), NEW r, AsRead(r, fs, exact)
  PROVE  /\ DOMAIN r = 1 .. Len(fs) /\ Len(fs) \in Nat
         /\ f.seq # 0 => 1 \in DOMAIN r /\ r[1] = Number(1, Rounded(f.seq, exact))
         /\ f.log # 0 => LogAt(f) \in DOMAIN r /\ r[LogAt(f)] = Number(2, Rounded(f.log, exact))
         /\ LogAt(f) + 1 \in DOMAIN r /\ r[LogAt(f) + 1] = Number(3, Rounded(f.service, exact))
         /\ LogAt(f) + 2 \in DOMAIN r /\ r[LogAt(f) + 2] = Number(4, Rounded(f.method, exact))
         /\ \A n \in 1 .. Len(f.headers) :
              /\ LogAt(f) + 2 + n \in DOMAIN r
              /\ r[LogAt(f) + 2 + n] = Chunk(5, EncodeHeader(f.headers[n]))
         /\ f.payload # <<>> => Len(fs) \in DOMAIN r /\ r[Len(fs)] = Chunk(8, f.payload)
         /\ \A k \in DOMAIN r :
              /\ r[k].wire \in {0, 2}
              /\ r[k].wire = 0 /\ r[k].field = 1 => f.seq # 0 /\ k = 1
              /\ r[k].wire = 0 /\ r[k].field = 2 => f.log # 0 /\ k = LogAt(f)
              /\ r[k].wire = 0 /\ r[k].field = 3 => k = LogAt(f) + 1
              /\ r[k].wire = 0 /\ r[k].field = 4 => k = LogAt(f) + 2
              /\ r[k].wire = 2 /\ r[k].field = 5 =>
                   \E n \in 1 .. Len(f.headers) : k = LogAt(f) + 2 + n
              /\ r[k].wire = 2 /\ r[k].field = 8 => f.payload # <<>> /\ k = Len(fs)
<1> DEFINE g == LogAt(f)
           h == Len(f.headers)
           N == Len(fs)
<1>1. f \in FrameType
  BY DEF Sendable
<1>2. /\ g \in Nat /\ h \in Nat /\ N \in Nat /\ N = g + 2 + h + IF f.payload # <<>> THEN 1 ELSE 0
      /\ f.seq # 0 => 1 <= g
      /\ f.log # 0 => 1 <= g
  <2>1. g \in Nat /\ h \in Nat /\ LastAt(f) \in Nat
        /\ LastAt(f) = g + 2 + h + IF f.payload # <<>> THEN 1 ELSE 0
    BY <1>1, FrameIs
  <2>2. N = LastAt(f)
    BY DEF FieldsAre
  <2>3. (f.seq # 0 => 1 <= g) /\ (f.log # 0 => 1 <= g)
    BY DEF LogAt, SeqAt
  <2> HIDE DEF g, h, N
  <2> QED BY <2>1, <2>2, <2>3
<1>3. DOMAIN r = 1 .. N /\ \A k \in 1 .. N : r[k] = Read(fs[k], exact)
  BY DEF AsRead
<1>4. /\ f.seq # 0 => fs[1] = Number(1, f.seq)
      /\ f.log # 0 => fs[g] = Number(2, f.log)
      /\ fs[g + 1] = Number(3, f.service) /\ fs[g + 2] = Number(4, f.method)
      /\ \A n \in 1 .. h : fs[g + 2 + n] = Chunk(5, EncodeHeader(f.headers[n]))
      /\ f.payload # <<>> => fs[g + 2 + h + 1] = Chunk(8, f.payload)
  BY DEF FieldsAre
<1>5. ASSUME NEW k \in DOMAIN r
      PROVE  /\ r[k].wire \in {0, 2}
             /\ r[k].wire = 0 /\ r[k].field = 1 => f.seq # 0 /\ k = 1
             /\ r[k].wire = 0 /\ r[k].field = 2 => f.log # 0 /\ k = g
             /\ r[k].wire = 0 /\ r[k].field = 3 => k = g + 1
             /\ r[k].wire = 0 /\ r[k].field = 4 => k = g + 2
             /\ r[k].wire = 2 /\ r[k].field = 5 => \E n \in 1 .. h : k = g + 2 + n
             /\ r[k].wire = 2 /\ r[k].field = 8 => f.payload # <<>> /\ k = N
  <2>1. k \in 1 .. N
    BY <1>3
  <2>2. r[k].wire = fs[k].wire /\ r[k].field = fs[k].field
    BY <1>3, <2>1 DEF Read
  <2>3. \/ f.seq # 0 /\ k = 1 /\ fs[k].wire = 0 /\ fs[k].field = 1
        \/ f.log # 0 /\ k = g /\ fs[k].wire = 0 /\ fs[k].field = 2
        \/ k = g + 1 /\ fs[k].wire = 0 /\ fs[k].field = 3
        \/ k = g + 2 /\ fs[k].wire = 0 /\ fs[k].field = 4
        \/ (\E n \in 1 .. h : k = g + 2 + n) /\ fs[k].wire = 2 /\ fs[k].field = 5
        \/ f.payload # <<>> /\ k = N /\ fs[k].wire = 2 /\ fs[k].field = 8
    <3>1. \/ f.seq # 0 /\ k = 1 /\ fs[k] = Number(1, f.seq)
          \/ f.log # 0 /\ k = g /\ fs[k] = Number(2, f.log)
          \/ k = g + 1 /\ fs[k] = Number(3, f.service)
          \/ k = g + 2 /\ fs[k] = Number(4, f.method)
          \/ \E n \in 1 .. h : k = g + 2 + n /\ fs[k] = Chunk(5, EncodeHeader(f.headers[n]))
          \/ f.payload # <<>> /\ k = N /\ fs[k] = Chunk(8, f.payload)
      BY <1>1, <2>1, KindOf
    <3> HIDE DEF g, h, N
    <3>2. \A id, x : Number(id, x).wire = 0 /\ Number(id, x).field = id
      BY DEF Number
    <3>3. \A id, x : Chunk(id, x).wire = 2 /\ Chunk(id, x).field = id
      BY DEF Chunk
    <3> QED BY <3>1, <3>2, <3>3
  <2> HIDE DEF g, h, N
  <2> QED BY <2>2, <2>3
<1> HIDE DEF g, h
<1>6. /\ f.seq # 0 => 1 \in 1 .. N
      /\ f.log # 0 => g \in 1 .. N
      /\ g + 1 \in 1 .. N /\ g + 2 \in 1 .. N
      /\ \A n \in 1 .. h : g + 2 + n \in 1 .. N
      /\ f.payload # <<>> => N = g + 2 + h + 1 /\ N \in 1 .. N
  <2> HIDE DEF N
  <2> QED BY <1>2
<1>7. /\ f.seq # 0 => r[1] = Number(1, Rounded(f.seq, exact))
      /\ f.log # 0 => r[g] = Number(2, Rounded(f.log, exact))
      /\ r[g + 1] = Number(3, Rounded(f.service, exact))
      /\ r[g + 2] = Number(4, Rounded(f.method, exact))
  <2> HIDE DEF N
  <2> QED BY <1>3, <1>4, <1>6, ReadsAre
<1>8. \A n \in 1 .. h : r[g + 2 + n] = Chunk(5, EncodeHeader(f.headers[n]))
  <2> SUFFICES ASSUME NEW n \in 1 .. h PROVE r[g + 2 + n] = Chunk(5, EncodeHeader(f.headers[n]))
    OBVIOUS
  <2>1. fs[g + 2 + n] = Chunk(5, EncodeHeader(f.headers[n])) /\ g + 2 + n \in 1 .. N
    BY <1>4, <1>6
  <2>2. n \in 1 .. Len(f.headers)
    BY DEF h
  <2>3. Read(Chunk(5, EncodeHeader(f.headers[n])), exact) = Chunk(5, EncodeHeader(f.headers[n]))
    BY <2>2, ReadsAre
  <2> DEFINE k == g + 2 + n
  <2>4. k \in 1 .. N /\ fs[k] = Chunk(5, EncodeHeader(f.headers[n]))
    BY <2>1
  <2> HIDE DEF k, N
  <2>5. r[k] = Chunk(5, EncodeHeader(f.headers[n]))
    BY <1>3, <2>3, <2>4
  <2> QED BY <2>5 DEF k
<1>9. f.payload # <<>> => r[N] = Chunk(8, f.payload)
  <2> HIDE DEF N
  <2> QED BY <1>3, <1>4, <1>6, ReadsAre
<1> QED BY <1>2, <1>3, <1>5, <1>6, <1>7, <1>8, <1>9 DEF g, h

(* decode_frame in terms of the fields it reads. *)
LEMMA DecodeIs ==
  ASSUME NEW s, NEW exact
  PROVE  LET r == Fields(s, exact, FALSE)
             headers == AllOf(r, 2, 5)
         IN  DecodeFrame(s, exact) =
               IF Broken(r) \/ \E i \in DOMAIN headers : Broken(Fields(headers[i].data, exact, TRUE))
               THEN {}
               ELSE {[seq |-> LastOf(r, 0, 1).number, log |-> LastOf(r, 0, 2).number,
                      service |-> LastOf(r, 0, 3).number, method |-> LastOf(r, 0, 4).number,
                      headers |-> [i \in DOMAIN headers |-> DecodeHeader(headers[i].data, exact)],
                      payload |-> LastOf(r, 2, 8).data]}
  BY DEF DecodeFrame

(* decode_frame reads of what encode_frame has written the frame itself,   *)
(* but for numbers that the client rounds.                                 *)
THEOREM WholeFrameRead ==
  ASSUME NEW f, NEW exact, Sendable(f, exact)
  PROVE  DecodeFrame(EncodeFrame(f), exact) = {ReadFrame(f, exact)}
<1> DEFINE fs == FieldsOf(f)
           s  == EncodeFrame(f)
           r  == Fields(s, exact, FALSE)
           g  == LogAt(f)
           h  == Len(f.headers)
           headers == AllOf(r, 2, 5)
<1>1. f \in FrameType /\ exact \in Nat \ {0} /\ Keys < exact /\ exact \in Nat
  BY DEF Sendable, Keys
<1>2. fs \in Seq(Writable) /\ FieldsAre(fs, f) /\ ReadableSeq(fs, exact)
  BY <1>1, FieldsOfIs, FrameReadable
<1>3. s = Encode(fs)
  BY DEF EncodeFrame
<1>4. DecodeFrame(s, exact) =
        IF Broken(r) \/ \E i \in DOMAIN headers : Broken(Fields(headers[i].data, exact, TRUE))
        THEN {}
        ELSE {[seq |-> LastOf(r, 0, 1).number, log |-> LastOf(r, 0, 2).number,
               service |-> LastOf(r, 0, 3).number, method |-> LastOf(r, 0, 4).number,
               headers |-> [i \in DOMAIN headers |-> DecodeHeader(headers[i].data, exact)],
               payload |-> LastOf(r, 2, 8).data]}
  BY DecodeIs
<1> HIDE DEF fs, s
<1>5. AsRead(r, fs, exact)
  <2>1. s \in Texts /\ Agrees(s, 1, Encode(fs)) /\ Len(s) <= Len(Encode(fs)) /\ Len(s) = Len(Encode(fs))
    BY <1>2, <1>3, EncodeIs, AgreesItself, TextIs
  <2> DEFINE inHeader == FALSE
             q == Fields(s, exact, inHeader)
  <2>2. MessageOf(s, fs, exact, inHeader)
    BY <1>1, <1>2, <2>1 DEF MessageOf
  <2>3. q = r
    OBVIOUS
  <2> HIDE DEF inHeader, r
  <2>4. /\ DOMAIN q = 1 .. Len(q) /\ Len(q) = Len(fs)
        /\ \A k \in 1 .. Len(q) : RightAt(fs, exact, s, k, q[k])
    BY <2>1, <2>2, MessageRead
  <2> HIDE DEF q
  <2> QED BY <2>1, <2>3, <2>4 DEF RightAt, AsRead
<1> HIDE DEF r
<1>6. /\ DOMAIN r = 1 .. Len(fs) /\ Len(fs) \in Nat
      /\ f.seq # 0 => 1 \in DOMAIN r /\ r[1] = Number(1, Rounded(f.seq, exact))
      /\ f.log # 0 => g \in DOMAIN r /\ r[g] = Number(2, Rounded(f.log, exact))
      /\ g + 1 \in DOMAIN r /\ r[g + 1] = Number(3, Rounded(f.service, exact))
      /\ g + 2 \in DOMAIN r /\ r[g + 2] = Number(4, Rounded(f.method, exact))
      /\ \A n \in 1 .. h : /\ g + 2 + n \in DOMAIN r
                          /\ r[g + 2 + n] = Chunk(5, EncodeHeader(f.headers[n]))
      /\ f.payload # <<>> => Len(fs) \in DOMAIN r /\ r[Len(fs)] = Chunk(8, f.payload)
  BY <1>2, <1>5, FieldsRead
<1>7. \A k \in DOMAIN r :
        /\ r[k].wire \in {0, 2}
        /\ r[k].wire = 0 /\ r[k].field = 1 => f.seq # 0 /\ k = 1
        /\ r[k].wire = 0 /\ r[k].field = 2 => f.log # 0 /\ k = g
        /\ r[k].wire = 0 /\ r[k].field = 3 => k = g + 1
        /\ r[k].wire = 0 /\ r[k].field = 4 => k = g + 2
        /\ r[k].wire = 2 /\ r[k].field = 5 => \E n \in 1 .. h : k = g + 2 + n
        /\ r[k].wire = 2 /\ r[k].field = 8 => f.payload # <<>> /\ k = Len(fs)
  BY <1>2, <1>5, FieldsRead
<1>8. g \in Nat /\ h \in Nat /\ DOMAIN f.headers = 1 .. h
  BY <1>1, FrameIs
<1>9. ~Broken(r)
  BY <1>7 DEF Broken, Raised
<1>10. /\ \A id, x : Number(id, x).wire = 0 /\ Number(id, x).field = id /\ Number(id, x).number = x
       /\ \A id, x : Chunk(id, x).wire = 2 /\ Chunk(id, x).field = id /\ Chunk(id, x).data = x
       /\ \A id, x : Number(id, x).data = <<>>
  BY DEF Number, Chunk
<1> HIDE DEF g, h
<1>11. Rounded(0, exact) = 0
  BY <1>1, RoundedIs
<1>12. \A k \in DOMAIN r : k \in Nat
  BY <1>6
<1>13. LastOf(r, 0, 1).number = Rounded(f.seq, exact)
  <2>1. CASE f.seq # 0
    <3>1. OnlyAt(r, 0, 1, 1)
      BY <1>6, <1>7, <1>10, <1>12, <2>1 DEF OnlyAt
    <3> QED BY <1>6, <1>10, <2>1, <3>1, OnlyOf
  <2>2. CASE f.seq = 0
    <3>1. NoneIn(r, 0, 1)
      BY <1>7, <2>2 DEF NoneIn
    <3> QED BY <1>10, <1>11, <2>2, <3>1, NoneOf
  <2> QED BY <2>1, <2>2
<1>14. LastOf(r, 0, 2).number = Rounded(f.log, exact)
  <2>1. CASE f.log # 0
    <3>1. OnlyAt(r, 0, 2, g)
      BY <1>6, <1>7, <1>10, <1>12, <2>1 DEF OnlyAt
    <3> QED BY <1>6, <1>10, <2>1, <3>1, OnlyOf
  <2>2. CASE f.log = 0
    <3>1. NoneIn(r, 0, 2)
      BY <1>7, <2>2 DEF NoneIn
    <3> QED BY <1>10, <1>11, <2>2, <3>1, NoneOf
  <2> QED BY <2>1, <2>2
<1>15. LastOf(r, 0, 3).number = Rounded(f.service, exact)
  <2>1. OnlyAt(r, 0, 3, g + 1)
    BY <1>6, <1>7, <1>10, <1>12 DEF OnlyAt
  <2> QED BY <1>6, <1>10, <2>1, OnlyOf
<1>16. LastOf(r, 0, 4).number = Rounded(f.method, exact)
  <2>1. OnlyAt(r, 0, 4, g + 2)
    BY <1>6, <1>7, <1>10, <1>12 DEF OnlyAt
  <2> QED BY <1>6, <1>10, <2>1, OnlyOf
<1>17. LastOf(r, 2, 8).data = f.payload
  <2>1. CASE f.payload # <<>>
    <3>1. OnlyAt(r, 2, 8, Len(fs))
      BY <1>6, <1>7, <1>10, <1>12, <2>1 DEF OnlyAt
    <3> QED BY <1>6, <1>10, <2>1, <3>1, OnlyOf
  <2>2. CASE f.payload = <<>>
    <3>1. NoneIn(r, 2, 8)
      BY <1>7, <2>2 DEF NoneIn
    <3> QED BY <1>10, <2>2, <3>1, NoneOf
  <2> QED BY <2>1, <2>2
<1>18. headers = [n \in 1 .. h |-> r[g + 2 + n]]
  <2>1. Places(r, 2, 5) = {k \in DOMAIN r : r[k].wire = 2 /\ r[k].field = 5}
    BY DEF Places
  <2>2. ASSUME NEW k \in g + 2 + 1 .. g + 2 + h PROVE k \in Places(r, 2, 5)
    <3> DEFINE n == k - (g + 2)
    <3>1. n \in 1 .. h /\ g + 2 + n = k
      BY <1>8
    <3> HIDE DEF n
    <3>2. k \in DOMAIN r /\ r[k] = Chunk(5, EncodeHeader(f.headers[n]))
      BY <1>6, <3>1
    <3> QED BY <1>10, <2>1, <3>2
  <2>3. ASSUME NEW k \in Places(r, 2, 5) PROVE k \in g + 2 + 1 .. g + 2 + h
    <3>1. PICK n \in 1 .. h : k = g + 2 + n
      BY <1>7, <2>1
    <3> QED BY <1>8, <3>1
  <2> DEFINE b == g + 2
             P == Places(r, 2, 5)
             Q == b + 1 .. b + h
  <2>6. b \in Nat
    BY <1>8
  <2>7. (\A k \in Q : k \in P) /\ (\A k \in P : k \in Q)
    BY <2>2, <2>3
  <2>8. P = Q
    <3> HIDE DEF P, Q
    <3> QED BY <2>7
  <2>4. Places(r, 2, 5) = b + 1 .. b + h /\ b \in Nat
    BY <2>6, <2>8
  <2> HIDE DEF b, P, Q
  <2>5. AllOf(r, 2, 5) = [n \in 1 .. h |-> r[b + n]]
    BY <1>8, <2>4, AllOfIs
  <2> QED BY <2>5 DEF b
<1> HIDE DEF headers
<1>19. DOMAIN headers = 1 .. h /\ \A n \in 1 .. h : headers[n].data = EncodeHeader(f.headers[n])
  BY <1>6, <1>10, <1>18
<1>20. ASSUME NEW n \in 1 .. h
       PROVE  /\ ~Broken(Fields(headers[n].data, exact, TRUE))
              /\ DecodeHeader(headers[n].data, exact) = f.headers[n]
  <2>1. n \in 1 .. Len(f.headers)
    BY DEF h
  <2>2. /\ f.headers[n] \in [key : Texts, value : Texts]
        /\ Len(EncodeHeader(f.headers[n])) < exact /\ Len(EncodeHeader(f.headers[n])) < Modulus
    BY <1>1, <2>1, HeaderTyped DEF Sendable
  <2>3. /\ ~Broken(Fields(EncodeHeader(f.headers[n]), exact, TRUE))
        /\ DecodeHeader(EncodeHeader(f.headers[n]), exact) = f.headers[n]
    BY <1>1, <2>2, HeaderRead
  <2> QED BY <1>19, <2>3
<1>21. [n \in DOMAIN headers |-> DecodeHeader(headers[n].data, exact)] = f.headers
  <2>1. [n \in DOMAIN headers |-> DecodeHeader(headers[n].data, exact)] = [n \in 1 .. h |-> f.headers[n]]
    BY <1>19, <1>20
  <2>2. f.headers = [n \in 1 .. h |-> f.headers[n]]
    <3> DEFINE S == [key : Texts, value : Texts]
    <3>1. f.headers \in Seq(S)
      BY <1>1, FrameIs
    <3> HIDE DEF S
    <3>2. f.headers \in [1 .. Len(f.headers) -> S]
      BY <3>1, LenProperties
    <3> QED BY <3>2 DEF h
  <2> QED BY <2>1, <2>2
<1>22. ~(Broken(r) \/ \E i \in DOMAIN headers : Broken(Fields(headers[i].data, exact, TRUE)))
  BY <1>9, <1>19, <1>20
<1> QED BY <1>4, <1>13, <1>14, <1>15, <1>16, <1>17, <1>21, <1>22 DEF ReadFrame, s

(* decode_frame reads of a frame that is cut short no payload, or only a   *)
(* beginning of it, if it reads a frame at all.                            *)
THEOREM CutFrameRead ==
  ASSUME NEW f, NEW exact, Sendable(f, exact), NEW s \in Texts, Agrees(s, 1, EncodeFrame(f)),
         Len(s) < Len(EncodeFrame(f)), NEW d \in DecodeFrame(s, exact)
  PROVE  d.payload = <<>> \/ Beginning(d.payload, f.payload)
<1> DEFINE fs == FieldsOf(f)
           r  == Fields(s, exact, FALSE)
<1>1. f \in FrameType /\ exact \in Nat \ {0} /\ Keys < exact /\ exact \in Nat
  BY DEF Sendable, Keys
<1>2. fs \in Seq(Writable) /\ FieldsAre(fs, f) /\ ReadableSeq(fs, exact)
  BY <1>1, FieldsOfIs, FrameReadable
<1>3. EncodeFrame(f) = Encode(fs)
  BY DEF EncodeFrame
<1>4. ~Broken(r) /\ d.payload = LastOf(r, 2, 8).data
  <2> DEFINE headers == AllOf(r, 2, 5)
             decoded == [seq |-> LastOf(r, 0, 1).number, log |-> LastOf(r, 0, 2).number,
                         service |-> LastOf(r, 0, 3).number, method |-> LastOf(r, 0, 4).number,
                         headers |-> [i \in DOMAIN headers |-> DecodeHeader(headers[i].data, exact)],
                         payload |-> LastOf(r, 2, 8).data]
             broken == \E i \in DOMAIN headers : Broken(Fields(headers[i].data, exact, TRUE))
  <2>1. DecodeFrame(s, exact) = IF Broken(r) \/ broken THEN {} ELSE {decoded}
    BY DecodeIs
  <2>2. decoded.payload = LastOf(r, 2, 8).data
    OBVIOUS
  <2> HIDE DEF r, headers, decoded, broken
  <2> QED BY <2>1, <2>2
<1> HIDE DEF fs
<1>5. /\ DOMAIN r = 1 .. Len(r) /\ Len(r) \in Nat /\ Len(r) <= Len(fs)
      /\ \A k \in 1 .. Len(r) : RightAt(fs, exact, s, k, r[k])
  <2> DEFINE inHeader == FALSE
             q == Fields(s, exact, inHeader)
  <2>1. Len(s) <= Len(Encode(fs))
    <3>1. Len(s) \in Nat /\ Len(Encode(fs)) \in Nat
      BY <1>2, EncodeIs, TextIs
    <3>2. Len(s) < Len(Encode(fs))
      BY <1>3
    <3> QED BY <3>1, <3>2
  <2>2. MessageOf(s, fs, exact, inHeader)
    BY <1>1, <1>2, <1>3, <2>1 DEF MessageOf
  <2>3. q = r
    OBVIOUS
  <2> HIDE DEF inHeader, r
  <2>4. /\ DOMAIN q = 1 .. Len(q) /\ Len(q) \in Nat /\ Len(q) <= Len(fs)
        /\ \A k \in 1 .. Len(q) : RightAt(fs, exact, s, k, q[k])
    BY <2>2, MessageRead
  <2> HIDE DEF q
  <2> QED BY <2>3, <2>4
<1>6. Len(s) # Len(Encode(fs))
  <2>1. Len(s) \in Nat /\ Len(Encode(fs)) \in Nat /\ Len(s) < Len(Encode(fs))
    BY <1>2, <1>3, EncodeIs, TextIs
  <2> QED BY <2>1
<1> HIDE DEF r
<1>7. Len(fs) \in Nat
  BY <1>2
<1>8. ASSUME NEW k \in DOMAIN r, r[k].wire = 2, r[k].field = 8
      PROVE  k = Len(fs) /\ Beginning(r[k].data, f.payload)
  <2>1. k \in 1 .. Len(r) /\ k \in 1 .. Len(fs) /\ k \in Nat
    BY <1>5, <1>7
  <2>2. (k < Len(fs) /\ r[k] = Read(fs[k], exact)) \/ Cut(r[k], fs[k])
    BY <1>5, <1>6, <2>1 DEF RightAt
  <2>3. r[k] # Raised
    BY <1>4 DEF Broken
  <2>4. fs[k].wire = 2 /\ fs[k].field = 8
    <3>1. CASE k < Len(fs) /\ r[k] = Read(fs[k], exact)
      BY <1>8, <3>1 DEF Read
    <3>2. CASE Cut(r[k], fs[k])
      BY <1>8, <2>3, <3>2 DEF Cut
    <3> QED BY <2>2, <3>1, <3>2
  <2>5. \A id, x : Number(id, x).wire = 0
    BY DEF Number
  <2>6. \A id, x : Chunk(id, x).field = id /\ Chunk(id, x).data = x
    BY DEF Chunk
  <2>7. k = Len(fs) /\ fs[k] = Chunk(8, f.payload)
    BY <1>1, <1>2, <2>1, <2>4, <2>5, <2>6, KindOf
  <2>8. Cut(r[k], fs[k])
    BY <1>7, <2>2, <2>7
  <2> QED BY <2>3, <2>6, <2>7, <2>8 DEF Cut
<1>9. CASE NoneIn(r, 2, 8)
  <2>1. LastOf(r, 2, 8) = Number(8, 0)
    BY <1>9, NoneOf
  <2> QED BY <1>4, <2>1 DEF Number
<1>10. CASE ~NoneIn(r, 2, 8)
  <2>1. PICK k \in DOMAIN r : r[k].wire = 2 /\ r[k].field = 8
    BY <1>10 DEF NoneIn
  <2>2. k = Len(fs) /\ Beginning(r[k].data, f.payload)
    BY <1>8, <2>1
  <2>3. OnlyAt(r, 2, 8, k)
    BY <1>7, <1>8, <2>1, <2>2 DEF OnlyAt
  <2>4. LastOf(r, 2, 8) = r[k]
    BY <2>3, OnlyOf
  <2> QED BY <1>4, <2>2, <2>4
<1> QED BY <1>9, <1>10

-----------------------------------------------------------------------------
(* The data of a field is no longer than its message. *)
LEMMA FieldFits ==
  ASSUME NEW fs \in Seq(Writable), NEW k \in 1 .. Len(fs)
  PROVE  /\ Len(fs[k].data) \in Nat /\ Len(Encode(fs)) \in Nat
         /\ Len(fs[k].data) <= Len(Encode(fs))
<1> DEFINE f == fs[k]
           e == Len(Encode(fs))
           w == Len(EncodeField(f))
           x == Len(Varint(f.field * 8 + f.wire))
           y == Len(Varint(f.number))
           z == Len(f.data)
<1>1. f \in Writable
  OBVIOUS
<1>2. e \in Nat /\ w <= e
  BY EncodeIs, TextIs DEF Offsets
<1> HIDE DEF f, e
<1>3. w = x + y + z /\ x \in Nat /\ y \in Nat /\ z \in Nat
  BY <1>1, EncodeFieldTyped
<1> HIDE DEF w, x, y, z
<1>4. z <= e
  BY <1>2, <1>3
<1> QED BY <1>2, <1>3, <1>4 DEF e, f, z

(* A frame that is short enough has short chunks. *)
LEMMA ShortIsSendable ==
  ASSUME NEW f \in FrameType, NEW exact \in Nat, Keys < exact,
         Len(EncodeFrame(f)) < exact, Len(EncodeFrame(f)) < Modulus
  PROVE  Sendable(f, exact)
<1> DEFINE fs == FieldsOf(f)
           e  == Len(EncodeFrame(f))
<1>1. fs \in Seq(Writable) /\ FieldsAre(fs, f)
  BY FieldsOfIs
<1>2. e = Len(Encode(fs))
  BY DEF EncodeFrame
<1>3. \A id, x : Chunk(id, x).data = x
  BY DEF Chunk
<1>4. Modulus \in Nat
  BY LimitsAre
<1> HIDE DEF fs
<1>5. ASSUME NEW k \in 1 .. Len(fs) PROVE Len(fs[k].data) < exact /\ Len(fs[k].data) < Modulus
  <2> DEFINE z == Len(fs[k].data)
  <2>1. z \in Nat /\ e \in Nat /\ z <= e
    BY <1>1, <1>2, FieldFits
  <2>2. e < exact /\ e < Modulus
    OBVIOUS
  <2> HIDE DEF e, z
  <2>3. z < exact /\ z < Modulus
    BY <1>4, <2>1, <2>2
  <2> QED BY <2>3 DEF z
<1> DEFINE g == LogAt(f)
           h == Len(f.headers)
<1>6. g \in Nat /\ h \in Nat /\ Len(fs) = g + 2 + h + IF f.payload # <<>> THEN 1 ELSE 0
  <2>1. Len(fs) = LastAt(f)
    BY <1>1 DEF FieldsAre
  <2>2. /\ SeqAt(f) \in {0, 1} /\ g \in SeqAt(f) .. SeqAt(f) + 1 /\ h \in Nat
        /\ LastAt(f) = g + 2 + h + IF f.payload # <<>> THEN 1 ELSE 0
    BY FrameIs
  <2> HIDE DEF g, h
  <2> QED BY <2>1, <2>2
<1>7. /\ \A n \in 1 .. h : fs[g + 2 + n] = Chunk(5, EncodeHeader(f.headers[n]))
      /\ f.payload # <<>> => fs[g + 2 + h + 1] = Chunk(8, f.payload)
  BY <1>1 DEF FieldsAre
<1> HIDE DEF g, h
<1>8. ASSUME NEW n \in 1 .. h
      PROVE  Len(EncodeHeader(f.headers[n])) < exact /\ Len(EncodeHeader(f.headers[n])) < Modulus
  <2> DEFINE k == g + 2 + n
  <2>1. k \in 1 .. Len(fs)
    BY <1>6
  <2>2. fs[k].data = EncodeHeader(f.headers[n])
    BY <1>3, <1>7
  <2> HIDE DEF k
  <2> QED BY <1>5, <2>1, <2>2
<1>9. Len(f.payload) < exact /\ Len(f.payload) < Modulus
  <2>1. CASE f.payload = <<>>
    <3>1. Len(f.payload) = 0 /\ 0 < exact /\ 0 < Modulus
      BY <1>4, <2>1, LimitsAre DEF Keys
    <3> QED BY <3>1
  <2>2. CASE f.payload # <<>>
    <3> DEFINE k == g + 2 + h + 1
    <3>1. k \in 1 .. Len(fs)
      BY <1>6, <2>2
    <3>2. fs[k].data = f.payload
      BY <1>3, <1>7, <2>2
    <3> HIDE DEF k
    <3> QED BY <1>5, <3>1, <3>2
  <2> QED BY <2>1, <2>2
<1> QED BY <1>8, <1>9 DEF Sendable, h

(* The frames of the service can be read, and so can their acknowledgement *)
(* by the service: neither is longer than what is kept.                    *)
LEMMA FramesAreSendable ==
  ASSUME NEW f \in Frames
  PROVE  /\ f \in FrameType /\ EncodeFrame(f) \in Texts
         /\ \A c \in DOMAIN Exact : Sendable(f, Exact[c])
         /\ Sendable([f EXCEPT !.payload = Ok], Modulus)
<1>1. f \in FrameType /\ Ok \in Texts
  BY FrameAssumption
<1>2. EncodeFrame(f) \in Texts
  BY <1>1, FieldsOfIs, EncodeIs DEF EncodeFrame
<1>3. \A n \in {Modulus} \cup {Exact[c] : c \in DOMAIN Exact} :
        Len(EncodeFrame(f)) < n /\ Len(Ok) < n
  BY LengthAssumption
<1>4. Len(EncodeFrame(f)) < Modulus /\ Len(Ok) < Modulus
  BY <1>3
<1>5. ASSUME NEW c \in DOMAIN Exact PROVE Sendable(f, Exact[c])
  <2>1. Len(EncodeFrame(f)) < Exact[c] /\ Exact[c] \in Nat /\ Keys < Exact[c]
    BY <1>3, LimitsAre
  <2> QED BY <1>1, <1>4, <2>1, ShortIsSendable
<1>6. Sendable(f, Modulus)
  BY <1>1, <1>4, LimitsAre, ShortIsSendable
<1>7. Sendable([f EXCEPT !.payload = Ok], Modulus)
  <2> DEFINE a == [f EXCEPT !.payload = Ok]
  <2>1. a.headers = f.headers /\ a.payload = Ok
    BY <1>1 DEF FrameType
  <2>2. a \in FrameType
    BY <1>1 DEF FrameType
  <2> HIDE DEF a
  <2>3. Sendable(a, Modulus)
    BY <1>4, <1>6, <2>1, <2>2 DEF Sendable
  <2> QED BY <2>3 DEF a
<1> QED BY <1>1, <1>2, <1>5, <1>7

(* What arrives of a text is a beginning of it, that agrees with it.       *)
LEMMA ArrivedIs ==
  ASSUME NEW t \in Texts, NEW n \in 1 .. Len(t)
  PROVE  LET s == SubSeq(t, 1, n)
         IN  /\ s \in Texts /\ Agrees(s, 1, t)
             /\ s = t \/ (s # t /\ Len(s) < Len(t))
<1> DEFINE s == SubSeq(t, 1, n)
           l == Len(t)
<1>1. l \in Nat /\ t \in Seq(Bytes)
  BY TextIs DEF Texts
<1>2. s \in Seq(Bytes) /\ Len(s) = n /\ \A k \in 1 .. n : s[k] = t[k]
  BY <1>1
<1>3. \A k \in 1 .. l : 1 + k - 1 = k /\ (k <= n => k \in 1 .. n)
  BY <1>1
<1>4. n = l => s = t
  BY <1>1
<1>5. n = l \/ n < l
  BY <1>1
<1> HIDE DEF s
<1>6. Agrees(s, 1, t)
  BY <1>2, <1>3 DEF Agrees
<1>7. n < l => s # t /\ Len(s) < Len(t)
  BY <1>1, <1>2
<1> QED BY <1>2, <1>4, <1>5, <1>6, <1>7 DEF s, Texts

-----------------------------------------------------------------------------
(* The frames _handle_ws_frame acknowledges, of those it reads.            *)
Events == {f \in DecodeFrame(bytes, Exact[client]) :
             f.method = 1 /\ IsEvent(f) /\ f.payload \in Json}

(* What arrives is a beginning of what was sent, and what is done with it  *)
(* follows from what is read of it.                                        *)
FrameInv ==
  /\ client \in DOMAIN Exact /\ frame \in Frames
  /\ \E n \in 1 .. Len(EncodeFrame(frame)) : bytes = SubSeq(EncodeFrame(frame), 1, n)
  /\ handled = "acknowledged" => \E f \in Events : ack = EncodeFrame([f EXCEPT !.payload = Ok])
  /\ handled = "ignored" => Events = {}

(* Either client keeps FrameInv.                                           *)
THEOREM FrameInvariant == FrameSpec => []FrameInv
<1>1. FrameInit => FrameInv
  <2> SUFFICES ASSUME FrameInit PROVE FrameInv
    OBVIOUS
  <2>1. handled = "waiting" /\ client \in DOMAIN Exact /\ frame \in Frames
    BY DEF FrameInit
  <2>2. \E n \in 1 .. Len(EncodeFrame(frame)) : bytes = SubSeq(EncodeFrame(frame), 1, n)
    BY DEF FrameInit
  <2> QED BY <2>1, <2>2 DEF FrameInv
<1>2. FrameInv /\ [HandleFrame]_frameVars => FrameInv'
  <2> SUFFICES ASSUME FrameInv, [HandleFrame]_frameVars PROVE FrameInv'
    OBVIOUS
  <2>1. CASE HandleFrame
    <3>1. client' = client /\ frame' = frame /\ bytes' = bytes
      BY <2>1 DEF HandleFrame
    <3>2. Events' = Events
      BY <3>1 DEF Events
    <3>3. /\ handled' = IF Events = {} THEN "ignored" ELSE "acknowledged"
          /\ ack' \in IF Events = {} THEN {<<>>}
                      ELSE {EncodeFrame([f EXCEPT !.payload = Ok]) : f \in Events}
      BY <2>1 DEF HandleFrame, Events
    <3> QED BY <3>1, <3>2, <3>3 DEF FrameInv
  <2>2. CASE UNCHANGED frameVars
    BY <2>2 DEF FrameInv, Events, frameVars
  <2> QED BY <2>1, <2>2
<1> QED BY <1>1, <1>2, PTL DEF FrameSpec

(* An event is acknowledged by the same frame with another payload: of the *)
(* bytes that go back the service reads the numbers and headers it has     *)
(* sent, when the client keeps the numbers; a frame that was cut short is  *)
(* not acknowledged, and a whole event is not ignored.                     *)
THEOREM AcknowledgedWithTheSameFrame == FrameSpec => []AckIsTheSameFrame
<1>1. FrameInv => AckIsTheSameFrame
  <2> SUFFICES ASSUME FrameInv PROVE AckIsTheSameFrame
    OBVIOUS
  <2> DEFINE exact == Exact[client]
             e     == EncodeFrame(frame)
             whole == ReadFrame(frame, exact)
  <2>1. /\ frame \in Frames /\ frame \in FrameType /\ e \in Texts /\ Sendable(frame, exact)
        /\ Sendable([frame EXCEPT !.payload = Ok], Modulus)
    BY FramesAreSendable DEF FrameInv
  <2>2. exact \in Nat \ {0} /\ exact > 1 /\ Modulus \in Nat \ {0}
    BY LimitsAre DEF FrameInv, Keys
  <2>3. /\ frame.seq \in Nat /\ frame.log \in Nat /\ frame.service \in Nat /\ frame.method \in Nat
        /\ frame.seq < Modulus /\ frame.log < Modulus /\ frame.service < Modulus
        /\ frame.method < Modulus
    BY <2>1, <2>2, FrameIs
  <2>4. bytes \in Texts /\ Agrees(bytes, 1, e) /\ (Whole \/ (~Whole /\ Len(bytes) < Len(e)))
    <3>1. PICK n \in 1 .. Len(e) : bytes = SubSeq(e, 1, n)
      BY DEF FrameInv
    <3> HIDE DEF e
    <3> QED BY <2>1, <3>1, ArrivedIs DEF Whole, e
  <2>5. ASSUME ~Whole PROVE Events = {}
    <3> SUFFICES ASSUME NEW d \in Events PROVE FALSE
      OBVIOUS
    <3>1. d \in DecodeFrame(bytes, exact) /\ d.payload \in Json
      BY DEF Events
    <3>2. Len(bytes) < Len(e)
      BY <2>4, <2>5
    <3>3. d.payload = <<>> \/ Beginning(d.payload, frame.payload)
      BY <2>1, <2>4, <3>1, <3>2, CutFrameRead
    <3> QED BY <2>1, <3>1, <3>3, FrameAssumption DEF Beginning
  <2>6. Whole => DecodeFrame(bytes, exact) = {whole}
    BY <2>1, WholeFrameRead DEF Whole
  <2>7. /\ whole.headers = frame.headers /\ whole.payload = frame.payload
        /\ whole.method = Rounded(frame.method, exact)
        /\ whole = [seq |-> Rounded(frame.seq, exact), log |-> Rounded(frame.log, exact),
                    service |-> Rounded(frame.service, exact),
                    method |-> Rounded(frame.method, exact),
                    headers |-> frame.headers, payload |-> frame.payload]
    BY DEF ReadFrame
  <2> HIDE DEF whole
  <2>8. (whole.method = 1 <=> frame.method = 1) /\ (IsEvent(whole) <=> IsEvent(frame))
    BY <2>2, <2>3, <2>7, RoundedIs DEF IsEvent
  <2>9. ASSUME handled = "acknowledged", Keeps
        PROVE  DecodeFrame(ack, Modulus) = {[frame EXCEPT !.payload = Ok]}
    <3>1. PICK f \in Events : ack = EncodeFrame([f EXCEPT !.payload = Ok])
      BY <2>9 DEF FrameInv
    <3>2. f = whole /\ f.method = 1
      BY <2>5, <2>6, <3>1 DEF Events
    <3>3. /\ Rounded(frame.seq, exact) = frame.seq /\ Rounded(frame.log, exact) = frame.log
          /\ Rounded(frame.service, exact) = frame.service
      BY <2>2, <2>3, <2>9, RoundedIs DEF Keeps
    <3>4. Rounded(frame.method, exact) = frame.method
      BY <2>7, <2>8, <3>2
    <3>5. whole = frame
      BY <2>1, <2>7, <3>3, <3>4 DEF FrameType
    <3> DEFINE a == [frame EXCEPT !.payload = Ok]
    <3>6. /\ a.seq = frame.seq /\ a.log = frame.log /\ a.service = frame.service
          /\ a.method = frame.method
          /\ a = [seq |-> a.seq, log |-> a.log, service |-> a.service, method |-> a.method,
                  headers |-> a.headers, payload |-> a.payload]
      BY <2>1 DEF FrameType
    <3>7. ack = EncodeFrame(a)
      BY <3>1, <3>2, <3>5
    <3> HIDE DEF a
    <3>8. Sendable(a, Modulus)
      BY <2>1 DEF a
    <3>9. DecodeFrame(ack, Modulus) = {ReadFrame(a, Modulus)}
      BY <3>7, <3>8, WholeFrameRead
    <3>10. /\ Rounded(a.seq, Modulus) = a.seq /\ Rounded(a.log, Modulus) = a.log
           /\ Rounded(a.service, Modulus) = a.service /\ Rounded(a.method, Modulus) = a.method
      BY <2>2, <2>3, <3>6, RoundedIs
    <3>11. ReadFrame(a, Modulus) = a
      BY <3>6, <3>10 DEF ReadFrame
    <3> QED BY <3>9, <3>11 DEF a
  <2>10. ASSUME handled = "ignored", Whole
         PROVE  frame.method # 1 \/ ~IsEvent(frame) \/ frame.payload \notin Json
    <3>1. Events = {}
      BY <2>10 DEF FrameInv
    <3>2. ~(whole.method = 1 /\ IsEvent(whole) /\ whole.payload \in Json)
      BY <2>6, <2>10, <3>1 DEF Events
    <3> QED BY <2>7, <2>8, <3>2
  <2>11. handled = "acknowledged" => Whole
    BY <2>5 DEF FrameInv
  <2> QED BY <2>9, <2>10, <2>11 DEF AckIsTheSameFrame
<1> QED BY <1>1, FrameInvariant, PTL

=============================================================================
