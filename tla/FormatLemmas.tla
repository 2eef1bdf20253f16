---------------------------- MODULE FormatLemmas ----------------------------
(***************************************************************************)
(* What the operators that format is built from compute.  Whatever records *)
(* a MessageFormatter is given, however many: a block stands under the     *)
(* header of its speaker (HeaderInv), and every part of a message is in    *)
(* one place of what is printed or held back, in order, or is a result     *)
(* that is accounted for otherwise (PartsInv).  Push and End keep both, so *)
(* PushAll does.  Whatever entries a tree is drawn of, if their ids are    *)
(* distinct and none is above itself (Forest): flattenAll takes each once, *)
(* an entry before those below it (Flattened), and the rows are a drawing  *)
(* (TreeDrawn) in which an eye finds the parent of every row (ParentFound) *)
(* and the lines between them join (LinesJoin).                            *)
(***************************************************************************)
EXTENDS TreeLayout, SequenceTheorems, FiniteSetTheorems, WellFoundedInduction, TLAPS

-----------------------------------------------------------------------------
(* Sequences of anything.                                                   *)

LEMMA IsSeqOf ==
  ASSUME NEW S, NEW s \in Seq(S)
  PROVE  /\ IsSeq(s) /\ Len(s) \in Nat /\ DOMAIN s = 1 .. Len(s)
         /\ \A i \in 1 .. Len(s) : s[i] \in S
<1>1. Len(s) \in Nat /\ s \in [1 .. Len(s) -> S] /\ DOMAIN s = 1 .. Len(s)
  BY LenProperties
<1> DEFINE T == {s[i] : i \in DOMAIN s}
<1>2. s \in [1 .. Len(s) -> T]
  BY <1>1
<1>3. s \in Seq(T)
  BY <1>1, <1>2, SeqDef
<1>4. QED
  BY <1>1, <1>3 DEF IsSeq

LEMMA AppendAny ==
  ASSUME NEW s, IsSeq(s), NEW x
  PROVE  /\ IsSeq(Append(s, x)) /\ Len(s) \in Nat
         /\ Len(Append(s, x)) = Len(s) + 1
         /\ \A i \in 1 .. Len(s) : Append(s, x)[i] = s[i]
         /\ Append(s, x)[Len(s) + 1] = x
         /\ Append(s, x) # <<>>
<1> DEFINE S == {s[i] : i \in DOMAIN s} \cup {x}
<1>1. s \in Seq(S) /\ x \in S
  BY SeqMonotonic DEF IsSeq
<1> HIDE DEF S
<1>2. /\ Append(s, x) \in Seq(S) /\ Append(s, x) # <<>>
      /\ Len(Append(s, x)) = Len(s) + 1
      /\ \A i \in 1 .. Len(s) : Append(s, x)[i] = s[i]
      /\ Append(s, x)[Len(s) + 1] = x
  BY <1>1
<1>3. IsSeq(Append(s, x)) /\ Len(s) \in Nat
  BY <1>1, <1>2, IsSeqOf, Zenon
<1>4. QED
  BY <1>2, <1>3, Zenon

LEMMA ConcatAny ==
  ASSUME NEW s, IsSeq(s), NEW t, IsSeq(t)
  PROVE  /\ IsSeq(s \o t) /\ Len(s) \in Nat /\ Len(t) \in Nat
         /\ Len(s \o t) = Len(s) + Len(t)
         /\ \A i \in 1 .. Len(s) : (s \o t)[i] = s[i]
         /\ \A i \in Len(s) + 1 .. Len(s) + Len(t) : (s \o t)[i] = t[i - Len(s)]
<1> DEFINE S == {s[i] : i \in DOMAIN s} \cup {t[i] : i \in DOMAIN t}
<1>1. s \in Seq(S) /\ t \in Seq(S)
  BY SeqMonotonic DEF IsSeq
<1> HIDE DEF S
<1>2. Len(s) \in Nat /\ Len(t) \in Nat
  BY <1>1, IsSeqOf
<1>3. /\ s \o t \in Seq(S)
      /\ Len(s \o t) = Len(s) + Len(t)
      /\ \A i \in 1 .. Len(s) + Len(t) :
           (s \o t)[i] = IF i <= Len(s) THEN s[i] ELSE t[i - Len(s)]
  BY <1>1, ConcatProperties, Zenon
<1>4. IsSeq(s \o t)
  BY <1>3, IsSeqOf, Zenon
<1>5. QED
  BY <1>2, <1>3, <1>4

LEMMA SameSeq ==
  ASSUME NEW s, IsSeq(s), NEW t, IsSeq(t), Len(s) = Len(t),
         \A i \in 1 .. Len(s) : s[i] = t[i]
  PROVE  s = t
<1> DEFINE S == {s[i] : i \in DOMAIN s}
<1>1. S = {t[i] : i \in DOMAIN t}
  OBVIOUS
<1>2. s \in Seq(S) /\ t \in Seq(S)
  BY <1>1 DEF IsSeq
<1> HIDE DEF S
<1>3. QED
  BY <1>2, SeqEqual

LEMMA ShortSeqs ==
  ASSUME NEW x, NEW y
  PROVE  /\ IsSeq(<<>>) /\ Len(<<>>) = 0
         /\ IsSeq(<<x>>) /\ Len(<<x>>) = 1 /\ <<x>>[1] = x
         /\ IsSeq(<<x, y>>) /\ Len(<<x, y>>) = 2 /\ <<x, y>>[1] = x /\ <<x, y>>[2] = y
<1>1. <<>> \in Seq({x})
  BY EmptySeq
<1>2. <<x>> \in Seq({x}) /\ <<x, y>> \in Seq({x, y})
  OBVIOUS
<1>3. QED
  BY <1>1, <1>2, IsSeqOf

\* A function on 1 .. n is a sequence.
LEMMA FunctionIsSeq ==
  ASSUME NEW n \in Nat, NEW S, NEW s \in [1 .. n -> S]
  PROVE  IsSeq(s) /\ Len(s) = n
<1>1. s \in Seq(S)
  BY SeqDef
<1>2. DOMAIN s = 1 .. n /\ DOMAIN s = 1 .. Len(s) /\ Len(s) \in Nat
  BY <1>1, IsSeqOf
<1>3. n = Len(s)
  BY <1>2
<1>4. QED
  BY <1>1, <1>3, IsSeqOf

LEMMA LeastOf ==
  ASSUME NEW S, S \subseteq Nat, S # {}
  PROVE  \E m \in S : \A n \in S : m <= n
<1> DEFINE R == {p \in Nat \X Nat : p[1] < p[2]}
<1>1. IsWellFoundedOn(R, Nat)
  BY NatLessThanWellFounded, Zenon DEF OpToRel
<1>2. PICK m \in S : \A n \in S : <<n, m>> \notin R
  <2> HIDE DEF R
  <2> QED BY <1>1, WFMin
<1>3. \A n \in S : ~(n < m)
  BY <1>2
<1>4. QED
  BY <1>3

-----------------------------------------------------------------------------
(* Subsequence obeys its equation.                                          *)

Taking(s, I, k, before) == IF k \in I THEN Append(before, s[k]) ELSE before
SubsequenceTable(s, I, n, upto) ==
  upto = [k \in 0 .. n |-> IF k = 0 THEN <<>> ELSE Taking(s, I, k, upto[k - 1])]

LEMMA SubsequenceTableExists ==
  ASSUME NEW s, NEW I, NEW n \in Nat
  PROVE  \E upto : SubsequenceTable(s, I, n, upto)
<1> DEFINE Bad == {k \in Nat : ~ \E upto : SubsequenceTable(s, I, k, upto)}
<1>1. \E upto : SubsequenceTable(s, I, 0, upto)
  <2>1. SubsequenceTable(s, I, 0, [k \in 0 .. 0 |-> <<>>])
    BY DEF SubsequenceTable
  <2> QED BY <2>1
<1>2. ASSUME NEW k \in Nat, k # 0, NEW upto, SubsequenceTable(s, I, k - 1, upto)
      PROVE  \E more : SubsequenceTable(s, I, k, more)
  <2> DEFINE more == [j \in 0 .. k |->
                        IF j = k THEN Taking(s, I, k, upto[k - 1]) ELSE upto[j]]
  <2>1. \A j \in 0 .. k - 1 : upto[j] =
            IF j = 0 THEN <<>> ELSE Taking(s, I, j, upto[j - 1])
    BY <1>2 DEF SubsequenceTable
  <2>2. more[0] = <<>> /\ \A j \in 1 .. k : more[j] = Taking(s, I, j, more[j - 1])
    <3>1. more[0] = <<>> /\ more[k] = Taking(s, I, k, more[k - 1])
      BY <1>2, <2>1
    <3>2. \A j \in 1 .. k - 1 : more[j] = upto[j] /\ more[j - 1] = upto[j - 1]
      BY <1>2
    <3>3. \A j \in 1 .. k - 1 : upto[j] = Taking(s, I, j, upto[j - 1])
      BY <1>2, <2>1
    <3>4. \A j \in 1 .. k : j = k \/ j \in 1 .. k - 1
      BY <1>2
    <3> HIDE DEF more
    <3>5. QED
      BY <3>1, <3>2, <3>3, <3>4
  <2>3. more = [j \in 0 .. k |-> IF j = 0 THEN <<>> ELSE Taking(s, I, j, more[j - 1])]
    <3> HIDE DEF more
    <3>1. \A j \in 0 .. k : more[j] = IF j = 0 THEN <<>> ELSE Taking(s, I, j, more[j - 1])
      BY <2>2
    <3>2. more = [j \in 0 .. k |-> more[j]]
      BY DEF more
    <3> QED BY <3>1, <3>2, Zenon
  <2>4. SubsequenceTable(s, I, k, more)
    BY <2>3, Zenon DEF SubsequenceTable
  <2> QED BY <2>4
<1>3. CASE Bad = {}
  BY <1>3
<1>4. CASE Bad # {}
  <2>1. PICK k \in Bad : \A j \in Bad : k <= j
    <3> HIDE DEF Bad
    <3>1. Bad \subseteq Nat
      BY DEF Bad
    <3> QED BY <1>4, <3>1, LeastOf
  <2>2. k \in Nat /\ k # 0
    BY <1>1, <2>1
  <2>3. k - 1 \in Nat /\ k - 1 \notin Bad
    BY <2>1, <2>2
  <2>4. QED
    BY <1>2, <2>1, <2>2, <2>3
<1>5. QED
  BY <1>3, <1>4

SubsequenceBy(s, I, n, upto) ==
  /\ upto[0] = <<>>
  /\ \A k \in 1 .. n : upto[k] = Taking(s, I, k, upto[k - 1])

LEMMA SubsequenceSteps ==
  ASSUME NEW s, IsSeq(s), NEW I
  PROVE  \E upto : SubsequenceBy(s, I, Len(s), upto) /\ Subsequence(s, I) = upto[Len(s)]
<1>1. Len(s) \in Nat
  BY IsSeqOf DEF IsSeq
<1> DEFINE upto == CHOOSE upto : SubsequenceTable(s, I, Len(s), upto)
<1>2. SubsequenceTable(s, I, Len(s), upto)
  BY <1>1, SubsequenceTableExists
<1>3. Subsequence(s, I) = upto[Len(s)]
  BY DEF Subsequence, SubsequenceTable, Taking
<1> HIDE DEF upto
<1>4. upto[0] = <<>> /\ \A k \in 1 .. Len(s) : upto[k] = Taking(s, I, k, upto[k - 1])
  BY <1>1, <1>2 DEF SubsequenceTable
<1>5. QED
  BY <1>3, <1>4 DEF SubsequenceBy

\* What it returns depends on the elements and on the positions among them.
LEMMA SubsequenceAgrees ==
  ASSUME NEW s, NEW I, NEW n \in Nat, NEW u, SubsequenceBy(s, I, n, u),
         NEW t, NEW J, NEW m \in Nat, NEW v, SubsequenceBy(t, J, m, v),
         n <= m, \A k \in 1 .. n : s[k] = t[k] /\ (k \in I <=> k \in J)
  PROVE  u[n] = v[n]
<1> DEFINE Bad == {k \in 0 .. n : u[k] # v[k]}
<1>2. ASSUME NEW k \in Bad, \A j \in Bad : k <= j
      PROVE  FALSE
  <2>1. k # 0 /\ k \in 1 .. n /\ k \in 1 .. m /\ k - 1 \in 0 .. n /\ k - 1 \notin Bad
    BY <1>2 DEF SubsequenceBy
  <2>2. u[k - 1] = v[k - 1]
    BY <2>1
  <2>3. /\ u[k] = IF k \in I THEN Append(u[k - 1], s[k]) ELSE u[k - 1]
        /\ v[k] = IF k \in J THEN Append(v[k - 1], t[k]) ELSE v[k - 1]
    BY <2>1, Zenon DEF SubsequenceBy, Taking
  <2>4. s[k] = t[k] /\ (k \in I <=> k \in J)
    BY <2>1
  <2>5. u[k] = v[k]
    BY <2>2, <2>3, <2>4, Zenon
  <2>6. QED
    BY <1>2, <2>5
<1>3. Bad \subseteq Nat
  OBVIOUS
<1>4. Bad = {}
  <2> HIDE DEF Bad
  <2> QED BY <1>2, <1>3, LeastOf
<1>5. QED
  BY <1>4

\* pos are the positions in the order in which they are taken.
Embeds(s, I, t, pos) ==
  /\ pos \in [1 .. Len(t) -> I]
  /\ \A k \in 1 .. Len(t) : t[k] = s[pos[k]]
  /\ \A k, l \in 1 .. Len(t) : k < l => pos[k] < pos[l]
  /\ \A i \in I : \E k \in 1 .. Len(t) : pos[k] = i

LEMMA SubsequenceEmbeds ==
  ASSUME NEW s, IsSeq(s), NEW I, I \subseteq 1 .. Len(s)
  PROVE  /\ IsSeq(Subsequence(s, I))
         /\ \E pos : Embeds(s, I, Subsequence(s, I), pos)
<1>1. Len(s) \in Nat
  BY IsSeqOf DEF IsSeq
<1>2. PICK u : SubsequenceBy(s, I, Len(s), u) /\ Subsequence(s, I) = u[Len(s)]
  BY SubsequenceSteps
<1>3. /\ u[0] = <<>>
      /\ \A k \in 1 .. Len(s) : u[k] = IF k \in I THEN Append(u[k - 1], s[k]) ELSE u[k - 1]
  BY <1>2, Zenon DEF SubsequenceBy, Taking
<1> DEFINE Upto(k) == {i \in I : i <= k}
<1>11. \A i \in I : i \in Int /\ 1 <= i /\ i <= Len(s)
  BY <1>1
<1> DEFINE Good(k) == IsSeq(u[k]) /\ \E pos : Embeds(s, Upto(k), u[k], pos)
           Bad == {k \in 0 .. Len(s) : ~Good(k)}
<1>4. Good(0)
  <2>1. IsSeq(<<>>) /\ Len(<<>>) = 0 /\ Upto(0) = {}
    <3>1. \A i \in I : ~(i <= 0)
      BY <1>11
    <3>2. QED
      BY <3>1, ShortSeqs
  <2>2. Embeds(s, {}, <<>>, <<>>)
    BY <2>1 DEF Embeds
  <2>3. QED
    BY <1>3, <2>1, <2>2
<1>5. ASSUME NEW k \in 1 .. Len(s), Good(k - 1)
      PROVE  Good(k)
  <2>1. CASE k \notin I
    <3>1. Upto(k) = Upto(k - 1)
      <4>1. \A i \in I : i <= k <=> i <= k - 1
        BY <1>1, <1>11, <2>1
      <4>2. QED
        BY <4>1
    <3>2. u[k] = u[k - 1]
      BY <1>3, <2>1
    <3> HIDE DEF Upto
    <3>3. QED
      BY <1>5, <3>1, <3>2
  <2>2. CASE k \in I
    <3>1. PICK pos : Embeds(s, Upto(k - 1), u[k - 1], pos)
      BY <1>5
    <3> DEFINE n == Len(u[k - 1])
               more == [j \in 1 .. n + 1 |-> IF j = n + 1 THEN k ELSE pos[j]]
    <3>2. /\ n \in Nat /\ IsSeq(u[k]) /\ Len(u[k]) = n + 1
          /\ \A i \in 1 .. n : u[k][i] = u[k - 1][i]
          /\ u[k][n + 1] = s[k]
      <4>1. u[k] = Append(u[k - 1], s[k]) /\ IsSeq(u[k - 1])
        BY <1>3, <1>5, <2>2
      <4>2. QED
        BY <4>1, AppendAny
    <3>3. Upto(k) = Upto(k - 1) \cup {k} /\ \A i \in Upto(k - 1) : i \in Int /\ i < k
      <4>1. \A i \in I : i <= k <=> i <= k - 1 \/ i = k
        BY <1>1, <1>11
      <4>2. \A i \in I : i \in Int /\ (i <= k - 1 => i < k)
        BY <1>1, <1>11
      <4>3. k <= k
        BY <1>1
      <4>4. QED
        BY <2>2, <4>1, <4>2, <4>3
    <3> HIDE DEF Upto, n
    <3>4. \A j \in 1 .. n : more[j] = pos[j] /\ pos[j] \in Upto(k - 1)
      <4>1. pos \in [1 .. n -> Upto(k - 1)]
        BY <3>1, Zenon DEF Embeds, n
      <4>2. \A j \in 1 .. n : j \in 1 .. n + 1 /\ j # n + 1
        BY <3>2
      <4>3. QED
        BY <4>1, <4>2
    <3>5. more[n + 1] = k
      BY <3>2
    <3>6. more \in [1 .. n + 1 -> Upto(k)]
      <4>1. \A j \in 1 .. n + 1 : j = n + 1 \/ j \in 1 .. n
        BY <3>2
      <4>2. \A j \in 1 .. n + 1 : more[j] \in Upto(k)
        <5> HIDE DEF more
        <5> QED BY <3>3, <3>4, <3>5, <4>1
      <4>3. more = [j \in 1 .. n + 1 |-> more[j]]
        OBVIOUS
      <4> HIDE DEF more
      <4>4. QED
        BY <4>2, <4>3, Zenon
    <3> HIDE DEF more
    <3>7. \A j \in 1 .. n + 1 : u[k][j] = s[more[j]]
      BY <3>1, <3>2, <3>4, <3>5 DEF Embeds, n
    <3>8. \A j, l \in 1 .. n + 1 : j < l => more[j] < more[l]
      <4> SUFFICES ASSUME NEW j \in 1 .. n + 1, NEW l \in 1 .. n + 1, j < l
                   PROVE  more[j] < more[l]
        OBVIOUS
      <4>1. j \in 1 .. n
        BY <3>2
      <4>2. CASE l = n + 1
        BY <3>3, <3>4, <3>5, <4>1, <4>2
      <4>3. CASE l # n + 1
        <5>1. l \in 1 .. n
          BY <3>2, <4>3
        <5>2. QED
          BY <3>1, <3>4, <4>1, <5>1 DEF Embeds, n
      <4>4. QED
        BY <4>2, <4>3
    <3>9. \A i \in Upto(k) : \E j \in 1 .. n + 1 : more[j] = i
      <4>1. \A i \in Upto(k - 1) : \E j \in 1 .. n : pos[j] = i
        BY <3>1 DEF Embeds, n
      <4>2. n + 1 \in 1 .. n + 1 /\ \A j \in 1 .. n : j \in 1 .. n + 1
        BY <3>2
      <4>3. QED
        BY <3>3, <3>4, <3>5, <4>1, <4>2
    <3>10. Embeds(s, Upto(k), u[k], more)
      BY <3>2, <3>6, <3>7, <3>8, <3>9 DEF Embeds
    <3>11. QED
      BY <3>2, <3>10
  <2>3. QED
    BY <2>1, <2>2
<1> HIDE DEF Good
<1>6. ASSUME NEW k \in Bad, \A j \in Bad : k <= j
      PROVE  FALSE
  <2>1. k # 0 /\ k \in 1 .. Len(s) /\ k - 1 \in 0 .. Len(s) /\ k - 1 \notin Bad
    BY <1>1, <1>4, <1>6
  <2>2. QED
    BY <1>5, <1>6, <2>1
<1>7. Bad = {}
  <2>1. Bad \subseteq Nat
    BY <1>1
  <2> HIDE DEF Bad
  <2> QED BY <1>6, <2>1, LeastOf
<1>8. Good(Len(s))
  BY <1>1, <1>7
<1>9. Upto(Len(s)) = I
  BY <1>11
<1>10. QED
  <2> HIDE DEF Upto
  <2> QED BY <1>2, <1>8, <1>9 DEF Good

LEMMA SubsequenceStops ==
  ASSUME NEW s, NEW I, NEW n \in Nat, NEW u, SubsequenceBy(s, I, n, u)
  PROVE  \A h \in 0 .. n : (\A k \in 1 .. n : k \in I => k <= h) => u[n] = u[h]
<1> SUFFICES ASSUME NEW h \in 0 .. n, \A k \in 1 .. n : k \in I => k <= h
             PROVE  u[n] = u[h]
  OBVIOUS
<1> DEFINE Bad == {k \in h .. n : u[k] # u[h]}
<1>1. ASSUME NEW k \in Bad, \A j \in Bad : k <= j
      PROVE  FALSE
  <2>1. k \notin I /\ k \in 1 .. n /\ k - 1 \in h .. n /\ k - 1 \notin Bad
    BY <1>1
  <2>2. u[k - 1] = u[h]
    BY <2>1
  <2>3. u[k] = u[k - 1]
    BY <2>1, Zenon DEF SubsequenceBy, Taking
  <2>4. QED
    BY <1>1, <2>2, <2>3
<1>2. Bad \subseteq Nat
  OBVIOUS
<1>3. Bad = {}
  <2> HIDE DEF Bad
  <2> QED BY <1>1, <1>2, LeastOf
<1>4. QED
  BY <1>3

\* Of a longer sequence it returns the same.
LEMMA SubsequencePrefix ==
  ASSUME NEW s, IsSeq(s), NEW t, IsSeq(t), Len(s) <= Len(t),
         \A i \in 1 .. Len(s) : s[i] = t[i], NEW I, I \subseteq 1 .. Len(s)
  PROVE  Subsequence(s, I) = Subsequence(t, I)
<1>1. Len(s) \in Nat /\ Len(t) \in Nat
  BY IsSeqOf DEF IsSeq
<1>2. PICK u : SubsequenceBy(s, I, Len(s), u) /\ Subsequence(s, I) = u[Len(s)]
  BY SubsequenceSteps
<1>3. PICK v : SubsequenceBy(t, I, Len(t), v) /\ Subsequence(t, I) = v[Len(t)]
  BY SubsequenceSteps
<1>4. u[Len(s)] = v[Len(s)]
  BY <1>1, <1>2, <1>3, SubsequenceAgrees
<1>5. v[Len(t)] = v[Len(s)]
  <2>1. Len(s) \in 0 .. Len(t)
    BY <1>1
  <2>2. \A k \in 1 .. Len(t) : k \in I => k <= Len(s)
    BY <1>1
  <2>3. \A h \in 0 .. Len(t) :
          (\A k \in 1 .. Len(t) : k \in I => k <= h) => v[Len(t)] = v[h]
    BY <1>1, <1>3, SubsequenceStops
  <2>4. QED
    BY <2>1, <2>2, <2>3, Zenon
<1>6. QED
  BY <1>2, <1>3, <1>4, <1>5

\* A position after all the others.
LEMMA SubsequenceNext ==
  ASSUME NEW s, IsSeq(s), NEW I, NEW h \in 1 .. Len(s), I \subseteq 1 .. h - 1
  PROVE  Subsequence(s, I \cup {h}) = Append(Subsequence(s, I), s[h])
<1> DEFINE n == Len(s)
           J == I \cup {h}
<1>1. n \in Nat /\ h \in Nat /\ h - 1 \in Nat /\ 1 <= h /\ h <= n
  BY IsSeqOf DEF IsSeq
<1>2. PICK u : SubsequenceBy(s, I, n, u) /\ Subsequence(s, I) = u[n]
  BY SubsequenceSteps
<1>3. PICK v : SubsequenceBy(s, J, n, v) /\ Subsequence(s, J) = v[n]
  BY SubsequenceSteps
<1>4. u[h - 1] = v[h - 1]
  <2>1. SubsequenceBy(s, I, h - 1, u)
    <3>1. \A k \in 1 .. h - 1 : k \in 1 .. n
      BY <1>1
    <3>2. QED
      BY <1>2, <3>1, Zenon DEF SubsequenceBy
  <2>2. h - 1 <= n /\ \A k \in 1 .. h - 1 : k \in I <=> k \in J
    BY <1>1
  <2> HIDE DEF J, n
  <2>3. QED
    BY <1>1, <1>3, <2>1, <2>2, SubsequenceAgrees
<1>5. u[n] = u[h - 1]
  <2>1. h - 1 \in 0 .. n
    BY <1>1
  <2>2. \A k \in 1 .. n : k \in I => k <= h - 1
    BY <1>1
  <2>3. \A j \in 0 .. n : (\A k \in 1 .. n : k \in I => k <= j) => u[n] = u[j]
    BY <1>1, <1>2, SubsequenceStops
  <2>4. QED
    BY <2>1, <2>2, <2>3, Zenon
<1>6. v[n] = v[h]
  <2>1. h \in 0 .. n
    BY <1>1
  <2>2. \A k \in 1 .. n : k \in J => k <= h
    BY <1>1
  <2> HIDE DEF J
  <2>3. \A j \in 0 .. n : (\A k \in 1 .. n : k \in J => k <= j) => v[n] = v[j]
    BY <1>1, <1>3, SubsequenceStops
  <2>4. QED
    BY <2>1, <2>2, <2>3, Zenon
<1>7. v[h] = Append(v[h - 1], s[h])
  <2>1. h \in J /\ h \in 1 .. n
    OBVIOUS
  <2> HIDE DEF J, n
  <2>2. v[h] = Taking(s, J, h, v[h - 1])
    BY <1>3, <2>1, Zenon DEF SubsequenceBy
  <2>3. QED
    BY <2>1, <2>2, Zenon DEF Taking
<1> HIDE DEF J, n
<1>8. QED
  BY <1>2, <1>3, <1>4, <1>5, <1>6, <1>7, Zenon DEF J

\* The least position comes first.
LEMMA SubsequenceFirst ==
  ASSUME NEW s, IsSeq(s), NEW I, I \subseteq 1 .. Len(s),
         NEW m \in I, \A i \in I : m <= i
  PROVE  /\ Subsequence(s, I) # <<>> /\ Subsequence(s, I)[1] = s[m]
         /\ Len(Subsequence(s, I)) \in Nat \ {0}
<1> DEFINE t == Subsequence(s, I)
<1>1. IsSeq(t)
  BY SubsequenceEmbeds
<1>2. PICK pos : Embeds(s, I, t, pos)
  BY SubsequenceEmbeds
<1> HIDE DEF t
<1>3. Len(t) \in Nat
  BY <1>1, IsSeqOf DEF IsSeq
<1>4. PICK k \in 1 .. Len(t) : pos[k] = m
  BY <1>2 DEF Embeds
<1>5. 1 \in 1 .. Len(t) /\ Len(t) # 0
  BY <1>3, <1>4
<1>6. pos[1] \in I
  BY <1>2, <1>5 DEF Embeds
<1>7. k = 1
  <2>1. CASE 1 < k
    <3>1. pos[1] < m
      BY <1>2, <1>4, <1>5, <2>1 DEF Embeds
    <3>2. m <= pos[1] /\ m \in Int /\ pos[1] \in Int
      <4>1. \A i \in I : i \in Int
        OBVIOUS
      <4>2. QED
        BY <1>6, <4>1
    <3>3. QED
      BY <3>1, <3>2
  <2>2. QED
    BY <1>3, <1>4, <2>1
<1>8. t[1] = s[m]
  BY <1>2, <1>4, <1>5, <1>7 DEF Embeds
<1>9. t # <<>>
  BY <1>5, ShortSeqs
<1>10. QED
  BY <1>3, <1>5, <1>8, <1>9 DEF t

LEMMA SubsequenceEmpty ==
  ASSUME NEW s, IsSeq(s)
  PROVE  Subsequence(s, {}) = <<>>
<1>1. Len(s) \in Nat
  BY IsSeqOf DEF IsSeq
<1>2. PICK u : SubsequenceBy(s, {}, Len(s), u) /\ Subsequence(s, {}) = u[Len(s)]
  BY SubsequenceSteps
<1>3. u[Len(s)] = u[0]
  <2>1. \A j \in 0 .. Len(s) :
          (\A k \in 1 .. Len(s) : k \in {} => k <= j) => u[Len(s)] = u[j]
    BY <1>1, <1>2, SubsequenceStops
  <2>2. QED
    BY <1>1, <2>1
<1>4. QED
  BY <1>2, <1>3, Zenon DEF SubsequenceBy

-----------------------------------------------------------------------------
(* So does PushAll.                                                         *)

PushBy(f, records, n, after) ==
  after[0] = f /\ \A k \in 1 .. n : after[k] = Push(after[k - 1], records[k])
PushTable(f, records, n, after) ==
  after = [k \in 0 .. n |-> IF k = 0 THEN f ELSE Push(after[k - 1], records[k])]

LEMMA PushTableExists ==
  ASSUME NEW f, NEW records, NEW n \in Nat
  PROVE  \E after : PushTable(f, records, n, after)
<1> DEFINE Bad == {k \in Nat : ~ \E after : PushTable(f, records, k, after)}
<1>1. \E after : PushTable(f, records, 0, after)
  <2>1. PushTable(f, records, 0, [k \in 0 .. 0 |-> f])
    BY DEF PushTable
  <2> QED BY <2>1
<1>2. ASSUME NEW k \in Nat, k # 0, NEW after, PushTable(f, records, k - 1, after)
      PROVE  \E more : PushTable(f, records, k, more)
  <2> DEFINE more == [j \in 0 .. k |->
                        IF j = k THEN Push(after[k - 1], records[k]) ELSE after[j]]
  <2>1. \A j \in 0 .. k - 1 : after[j] =
            IF j = 0 THEN f ELSE Push(after[j - 1], records[j])
    BY <1>2 DEF PushTable
  <2>2. more[0] = f /\ \A j \in 1 .. k : more[j] = Push(more[j - 1], records[j])
    BY <1>2, <2>1
  <2>3. more = [j \in 0 .. k |-> IF j = 0 THEN f ELSE Push(more[j - 1], records[j])]
    <3> HIDE DEF more
    <3>1. \A j \in 0 .. k : more[j] = IF j = 0 THEN f ELSE Push(more[j - 1], records[j])
      BY <2>2
    <3>2. more = [j \in 0 .. k |-> more[j]]
      BY DEF more
    <3> QED BY <3>1, <3>2, Zenon
  <2>4. PushTable(f, records, k, more)
    BY <2>3, Zenon DEF PushTable
  <2> QED BY <2>4
<1>3. CASE Bad = {}
  BY <1>3
<1>4. CASE Bad # {}
  <2>1. PICK k \in Bad : \A j \in Bad : k <= j
    <3> HIDE DEF Bad
    <3>1. Bad \subseteq Nat
      BY DEF Bad
    <3> QED BY <1>4, <3>1, LeastOf
  <2>2. k \in Nat /\ k # 0
    BY <1>1, <2>1
  <2>3. k - 1 \in Nat /\ k - 1 \notin Bad
    BY <2>1, <2>2
  <2>4. QED
    BY <1>2, <2>1, <2>2, <2>3
<1>5. QED
  BY <1>3, <1>4

LEMMA PushAllSteps ==
  ASSUME NEW f, NEW records, IsSeq(records)
  PROVE  \E after :
           /\ after[0] = f
           /\ \A k \in 1 .. Len(records) : after[k] = Push(after[k - 1], records[k])
           /\ PushAll(f, records) = after[Len(records)]
<1>1. Len(records) \in Nat
  BY IsSeqOf DEF IsSeq
<1> DEFINE after == CHOOSE after : PushTable(f, records, Len(records), after)
<1>2. PushTable(f, records, Len(records), after)
  BY <1>1, PushTableExists
<1>3. PushAll(f, records) = after[Len(records)]
  BY DEF PushAll, PushTable
<1> HIDE DEF after
<1>4. after[0] = f /\ \A k \in 1 .. Len(records) : after[k] = Push(after[k - 1], records[k])
  BY <1>1, <1>2 DEF PushTable
<1>5. QED
  BY <1>3, <1>4

\* What is pushed first does not depend on what comes later.
LEMMA PushTablesAgree ==
  ASSUME NEW f, NEW s, NEW t, NEW n \in Nat, \A k \in 1 .. n : s[k] = t[k],
         NEW a, PushBy(f, s, n, a), NEW b, PushBy(f, t, n, b)
  PROVE  a[n] = b[n]
<1> DEFINE Bad == {k \in 0 .. n : a[k] # b[k]}
<1>1. ASSUME NEW k \in Bad, \A j \in Bad : k <= j
      PROVE  FALSE
  <2>1. k # 0 /\ k \in 1 .. n /\ k - 1 \in 0 .. n /\ k - 1 \notin Bad
    BY <1>1 DEF PushBy
  <2>2. a[k - 1] = b[k - 1]
    BY <2>1
  <2>3. a[k] = b[k]
    BY <2>1, <2>2 DEF PushBy
  <2>4. QED
    BY <1>1, <2>3
<1>2. Bad \subseteq Nat
  OBVIOUS
<1>3. Bad = {}
  <2> HIDE DEF Bad
  <2> QED BY <1>1, <1>2, LeastOf
<1>4. QED
  BY <1>3

LEMMA PushAllShort ==
  ASSUME NEW f, NEW record
  PROVE  PushAll(f, <<>>) = f /\ PushAll(f, <<record>>) = Push(f, record)
<1>1. PushAll(f, <<>>) = f
  <2>1. IsSeq(<<>>) /\ Len(<<>>) = 0
    BY ShortSeqs
  <2>2. QED
    BY <2>1, PushAllSteps, Zenon
<1>2. PushAll(f, <<record>>) = Push(f, record)
  <2> DEFINE one == <<record>>
  <2>1. IsSeq(one) /\ Len(one) = 1 /\ one[1] = record
    BY ShortSeqs
  <2> HIDE DEF one
  <2>2. PICK a : /\ a[0] = f
                 /\ \A k \in 1 .. Len(one) : a[k] = Push(a[k - 1], one[k])
                 /\ PushAll(f, one) = a[Len(one)]
    BY <2>1, PushAllSteps
  <2>3. a[1] = Push(a[0], one[1])
    BY <2>1, <2>2
  <2>4. QED
    BY <2>1, <2>2, <2>3 DEF one
<1>3. QED
  BY <1>1, <1>2

LEMMA PushAllAppend ==
  ASSUME NEW f, NEW records, IsSeq(records), NEW record
  PROVE  PushAll(f, Append(records, record)) = Push(PushAll(f, records), record)
<1> DEFINE n == Len(records)
           t == Append(records, record)
<1>1. /\ n \in Nat /\ IsSeq(t) /\ Len(t) = n + 1 /\ t[n + 1] = record
      /\ \A k \in 1 .. n : t[k] = records[k]
  BY AppendAny
<1>2. PICK a : /\ a[0] = f
               /\ \A k \in 1 .. n : a[k] = Push(a[k - 1], records[k])
               /\ PushAll(f, records) = a[n]
  BY PushAllSteps
<1> HIDE DEF n, t
<1>3. PICK b : /\ b[0] = f
               /\ \A k \in 1 .. n + 1 : b[k] = Push(b[k - 1], t[k])
               /\ PushAll(f, t) = b[n + 1]
  <2>1. IsSeq(t) /\ Len(t) = n + 1
    BY <1>1
  <2>2. \E b : /\ b[0] = f
               /\ \A k \in 1 .. Len(t) : b[k] = Push(b[k - 1], t[k])
               /\ PushAll(f, t) = b[Len(t)]
    BY <2>1, PushAllSteps, Zenon
  <2>3. QED
    BY <2>1, <2>2, Zenon
<1>4. a[n] = b[n]
  <2>1. PushBy(f, t, n, b) /\ PushBy(f, records, n, a)
    BY <1>1, <1>2, <1>3 DEF PushBy
  <2>2. \A k \in 1 .. n : records[k] = t[k]
    BY <1>1
  <2>3. QED
    BY <1>1, <2>1, <2>2, PushTablesAgree
<1>5. b[n + 1] = Push(b[n], record)
  <2>1. n + 1 \in 1 .. n + 1 /\ n + 1 - 1 = n /\ n \in Nat
    BY <1>1
  <2>2. QED
    BY <1>1, <1>3, <2>1
<1>6. QED
  BY <1>2, <1>3, <1>4, <1>5 DEF t

-----------------------------------------------------------------------------
(* Headers.                                                                 *)

IsFormatter(f) ==
  /\ f \in [toolResults : {f.toolResults}, pushed : {f.pushed}, run : {f.run},
            lastHeader : {f.lastHeader}, forceNextHeader : {f.forceNextHeader},
            printed : {f.printed}]
  /\ IsSeq(f.pushed) /\ IsSeq(f.printed) /\ f.forceNextHeader \in BOOLEAN

LEMMA PrintBlockFields ==
  ASSUME NEW f, IsFormatter(f), NEW header, NEW body
  PROVE  LET g == PrintBlock(f, header, body)
             emit == EmitHeader(f, header)
         IN /\ IsFormatter(g)
            /\ g.toolResults = f.toolResults /\ g.pushed = f.pushed /\ g.run = f.run
            /\ g.lastHeader = (IF header = None THEN f.lastHeader ELSE header)
            /\ g.forceNextHeader =
                 (HasRawTextLine(body) \/ (header = None /\ f.forceNextHeader))
            /\ g.printed = (IF ~emit /\ body = <<>> THEN f.printed
                            ELSE Append(f.printed,
                                        [header |-> IF emit THEN header ELSE None,
                                         speaker |-> header, body |-> body]))
<1> DEFINE g == PrintBlock(f, header, body)
           emit == EmitHeader(f, header)
           block == [header |-> IF emit THEN header ELSE None,
                     speaker |-> header, body |-> body]
<1>1. /\ g \in [toolResults : {g.toolResults}, pushed : {g.pushed}, run : {g.run},
                lastHeader : {g.lastHeader}, forceNextHeader : {g.forceNextHeader},
                printed : {g.printed}]
      /\ g.toolResults = f.toolResults /\ g.pushed = f.pushed /\ g.run = f.run
  BY DEF PrintBlock, IsFormatter
<1>2. g.lastHeader = (IF header = None THEN f.lastHeader ELSE header)
  BY DEF PrintBlock, IsFormatter
<1>3. /\ g.forceNextHeader = (HasRawTextLine(body) \/ (header = None /\ f.forceNextHeader))
      /\ g.forceNextHeader \in BOOLEAN
  <2>1. g.forceNextHeader = (HasRawTextLine(body) \/ (header = None /\ f.forceNextHeader))
    BY DEF PrintBlock, IsFormatter
  <2> HIDE DEF g
  <2>2. QED
    BY <2>1 DEF HasRawTextLine
<1>4. g.printed = (IF ~emit /\ body = <<>> THEN f.printed ELSE Append(f.printed, block))
  BY DEF PrintBlock, IsFormatter
<1>5. IsSeq(f.printed) /\ IsSeq(Append(f.printed, block))
  <2> HIDE DEF block
  <2> QED BY AppendAny DEF IsFormatter
<1> HIDE DEF g, block, emit
<1>6. IsFormatter(g)
  BY <1>1, <1>3, <1>4, <1>5 DEF IsFormatter
<1>7. QED
  BY <1>1, <1>2, <1>3, <1>4, <1>6, Zenon DEF g, block, emit

\* The header above block j is its speaker's, and nothing between could be
\* taken for something else.
Headed(printed, j) ==
  \E h \in 1 .. j :
    /\ printed[h].header = printed[j].speaker
    /\ \A i \in h + 1 .. j : printed[i].header = None
    /\ \A i \in h .. j - 1 : ~HasRawTextLine(printed[i].body)

\* lastHeader is the last header printed, and a block of the same speaker could
\* follow without one.
Continues(f) ==
  \E h \in 1 .. Len(f.printed) :
    /\ f.printed[h].header = f.lastHeader
    /\ \A i \in h + 1 .. Len(f.printed) : f.printed[i].header = None
    /\ \A i \in h .. Len(f.printed) : ~HasRawTextLine(f.printed[i].body)

HeaderInv(f) ==
  /\ IsFormatter(f)
  /\ \A j \in 1 .. Len(f.printed) : f.printed[j].speaker # None => Headed(f.printed, j)
  /\ f.lastHeader # None /\ ~f.forceNextHeader => Continues(f)

LEMMA PrintBlockHeads ==
  ASSUME NEW f, HeaderInv(f), NEW header, NEW body
  PROVE  HeaderInv(PrintBlock(f, header, body))
<1> DEFINE emit == EmitHeader(f, header)
           block == [header |-> IF emit THEN header ELSE None,
                     speaker |-> header, body |-> body]
           n == Len(f.printed)
<1> SUFFICES ASSUME NEW g, g = PrintBlock(f, header, body) PROVE HeaderInv(g)
  OBVIOUS
<1>1. /\ IsFormatter(g)
      /\ g.lastHeader = (IF header = None THEN f.lastHeader ELSE header)
      /\ g.forceNextHeader = (HasRawTextLine(body) \/ (header = None /\ f.forceNextHeader))
      /\ g.printed = (IF ~emit /\ body = <<>> THEN f.printed ELSE Append(f.printed, block))
  BY PrintBlockFields DEF HeaderInv
<1>2. /\ block.header = (IF emit THEN header ELSE None)
      /\ block.speaker = header /\ block.body = body
  OBVIOUS
<1>3. emit <=> header # None /\ (f.forceNextHeader \/ header # f.lastHeader)
  BY DEF EmitHeader
<1> HIDE DEF emit, block
<1>4. CASE ~emit /\ body = <<>>
  <2>1. g.printed = f.printed /\ g.lastHeader = f.lastHeader
    BY <1>1, <1>3, <1>4
  <2>3. ~g.forceNextHeader /\ g.lastHeader # None => ~f.forceNextHeader
    BY <1>1, <1>3, <1>4 DEF IsFormatter, HeaderInv
  <2>4. QED
    BY <1>1, <2>1, <2>3 DEF HeaderInv, Continues
<1>5. CASE ~(~emit /\ body = <<>>)
  <2>1. /\ n \in Nat /\ Len(g.printed) = n + 1
        /\ \A i \in 1 .. n : g.printed[i] = f.printed[i]
        /\ g.printed[n + 1] = block
    <3>1. IsSeq(f.printed) /\ g.printed = Append(f.printed, block)
      BY <1>1, <1>5 DEF HeaderInv, IsFormatter
    <3>2. QED
      BY <3>1, AppendAny
  <2>2. \A j \in 1 .. n : g.printed[j].speaker # None => Headed(g.printed, j)
    <3> SUFFICES ASSUME NEW j \in 1 .. n, g.printed[j].speaker # None
                 PROVE  Headed(g.printed, j)
      OBVIOUS
    <3>1. PICK h \in 1 .. j :
            /\ f.printed[h].header = f.printed[j].speaker
            /\ \A i \in h + 1 .. j : f.printed[i].header = None
            /\ \A i \in h .. j - 1 : ~HasRawTextLine(f.printed[i].body)
      BY <2>1 DEF HeaderInv, Headed
    <3>2. \A i \in h .. j : g.printed[i] = f.printed[i]
      BY <2>1
    <3>3. /\ g.printed[h].header = g.printed[j].speaker
          /\ \A i \in h + 1 .. j : g.printed[i].header = None
          /\ \A i \in h .. j - 1 : ~HasRawTextLine(g.printed[i].body)
      BY <3>1, <3>2
    <3>4. QED
      BY <3>3 DEF Headed
  <2>3. CASE emit
    <3>1. Headed(g.printed, n + 1)
      BY <1>2, <2>1, <2>3 DEF Headed
    <3>2. ~g.forceNextHeader => Continues(g)
      <4>1. g.printed[n + 1].header = g.lastHeader
        BY <1>1, <1>2, <1>3, <2>1, <2>3
      <4>2. ~g.forceNextHeader => ~HasRawTextLine(g.printed[n + 1].body)
        BY <1>1, <1>2, <2>1
      <4>3. \A i \in n + 1 .. Len(g.printed) : i = n + 1
        BY <2>1
      <4>4. n + 1 \in 1 .. Len(g.printed) /\ \A i \in n + 2 .. Len(g.printed) : FALSE
        BY <2>1
      <4>5. QED
        BY <4>1, <4>2, <4>3, <4>4 DEF Continues
    <3>3. QED
      BY <1>1, <2>1, <2>2, <3>1, <3>2 DEF HeaderInv
  <2>4. ASSUME ~emit, Continues(f)
        PROVE  /\ header = f.lastHeader => Headed(g.printed, n + 1)
               /\ g.lastHeader = f.lastHeader /\ ~HasRawTextLine(body) => Continues(g)
    <3>1. PICK h \in 1 .. n :
            /\ f.printed[h].header = f.lastHeader
            /\ \A i \in h + 1 .. n : f.printed[i].header = None
            /\ \A i \in h .. n : ~HasRawTextLine(f.printed[i].body)
      BY <2>4 DEF Continues
    <3>2. \A i \in h .. n : g.printed[i] = f.printed[i]
      BY <2>1
    <3>3. /\ g.printed[h].header = f.lastHeader
          /\ \A i \in h + 1 .. n + 1 : g.printed[i].header = None
          /\ \A i \in h .. n : ~HasRawTextLine(g.printed[i].body)
      <4>1. g.printed[n + 1].header = None
        BY <1>2, <2>1, <2>4
      <4>2. \A i \in h + 1 .. n + 1 : i = n + 1 \/ i \in h + 1 .. n
        BY <2>1
      <4>3. \A i \in h + 1 .. n : i \in h .. n
        OBVIOUS
      <4>4. \A i \in h + 1 .. n : g.printed[i].header = None
        BY <3>1, <3>2, <4>3
      <4>5. QED
        BY <2>1, <3>1, <3>2, <4>1, <4>2, <4>4
    <3>4. header = f.lastHeader => Headed(g.printed, n + 1)
      BY <1>2, <2>1, <3>3 DEF Headed
    <3>5. ~HasRawTextLine(body) => \A i \in h .. n + 1 : ~HasRawTextLine(g.printed[i].body)
      BY <1>2, <2>1, <3>3
    <3>6. QED
      BY <2>1, <3>3, <3>4, <3>5 DEF Continues
  <2>5. CASE ~emit
    <3>1. CASE header = None
      <4>1. g.lastHeader = f.lastHeader
            /\ (~g.forceNextHeader => ~f.forceNextHeader /\ ~HasRawTextLine(body))
        BY <1>1, <3>1
      <4>2. g.lastHeader # None /\ ~g.forceNextHeader => Continues(g)
        BY <2>4, <2>5, <4>1 DEF HeaderInv
      <4>3. QED
        BY <1>1, <1>2, <2>1, <2>2, <3>1, <4>2 DEF HeaderInv
    <3>2. CASE header # None
      <4>1. ~f.forceNextHeader /\ header = f.lastHeader /\ g.lastHeader = header
            /\ Continues(f)
        BY <1>1, <1>3, <2>5, <3>2 DEF HeaderInv
      <4>2. Headed(g.printed, n + 1)
        BY <2>4, <2>5, <4>1
      <4>3. ~g.forceNextHeader => Continues(g)
        BY <1>1, <2>4, <2>5, <4>1
      <4>4. QED
        BY <1>1, <2>1, <2>2, <4>2, <4>3 DEF HeaderInv
    <3>3. QED
      BY <3>1, <3>2
  <2>6. QED
    BY <2>3, <2>5
<1>6. QED
  BY <1>4, <1>5

\* What is said of a formatter's headers does not depend on its other fields.
LEMMA HeadersOnly ==
  ASSUME NEW f, HeaderInv(f), NEW g, IsFormatter(g),
         g.lastHeader = f.lastHeader, g.forceNextHeader = f.forceNextHeader,
         g.printed = f.printed
  PROVE  HeaderInv(g)
BY DEF HeaderInv, Continues

LEMMA FlushRunHeads ==
  ASSUME NEW f, HeaderInv(f)
  PROVE  HeaderInv(FlushRun(f))
<1> DEFINE g == [f EXCEPT !.run = EmptyRun]
<1>1. HeaderInv(g)
  <2>1. /\ IsFormatter(g) /\ g.lastHeader = f.lastHeader
        /\ g.forceNextHeader = f.forceNextHeader /\ g.printed = f.printed
    BY DEF HeaderInv, IsFormatter
  <2>2. QED
    BY <2>1, HeadersOnly
<1> HIDE DEF g
<1>2. HeaderInv(PrintBlock(g, "assistant", RunBody(f.run)))
  BY <1>1, PrintBlockHeads
<1>3. QED
  BY <1>2 DEF FlushRun, g

LEMMA PushHeads ==
  ASSUME NEW f, HeaderInv(f), NEW record
  PROVE  HeaderInv(Push(f, record))
<1> DEFINE n == Len(f.pushed) + 1
           seen == [f EXCEPT !.pushed = Append(@, record)]
           rendered == Rendered(f, n, record)
<1>1. HeaderInv(seen)
  <2>1. /\ seen.lastHeader = f.lastHeader /\ seen.printed = f.printed
        /\ seen.forceNextHeader = f.forceNextHeader
        /\ seen.pushed = Append(f.pushed, record)
        /\ seen \in [toolResults : {seen.toolResults}, pushed : {seen.pushed},
                     run : {seen.run}, lastHeader : {seen.lastHeader},
                     forceNextHeader : {seen.forceNextHeader}, printed : {seen.printed}]
    BY DEF HeaderInv, IsFormatter
  <2>2. IsSeq(Append(f.pushed, record))
    BY AppendAny DEF HeaderInv, IsFormatter
  <2> HIDE DEF seen
  <2>3. IsFormatter(seen)
    BY <2>1, <2>2 DEF HeaderInv, IsFormatter
  <2>4. QED
    BY <2>1, <2>3, HeadersOnly
<1> HIDE DEF seen
<1>2. HeaderInv(Join(seen, n, record))
  <2> DEFINE g == Join(seen, n, record)
  <2>1. /\ IsFormatter(g) /\ g.lastHeader = seen.lastHeader
        /\ g.forceNextHeader = seen.forceNextHeader /\ g.printed = seen.printed
    BY <1>1 DEF Join, HeaderInv, IsFormatter
  <2>2. QED
    BY <1>1, <2>1, HeadersOnly
<1>3. HeaderInv(Answer(seen, n, record))
  <2> DEFINE i == CHOOSE i \in CallOf(seen, record.id) : TRUE
             g == [seen EXCEPT !.run.items[i].result = n]
  <2>1. /\ IsFormatter(g) /\ g.lastHeader = seen.lastHeader
        /\ g.forceNextHeader = seen.forceNextHeader /\ g.printed = seen.printed
    BY <1>1 DEF HeaderInv, IsFormatter
  <2> HIDE DEF g
  <2>2. HeaderInv(g)
    BY <1>1, <2>1, HeadersOnly
  <2>3. QED
    BY <1>1, <2>2 DEF Answer, g
<1>4. HeaderInv(FlushRun(seen))
      /\ HeaderInv(PrintBlock(FlushRun(seen), rendered.header, rendered.body))
  BY <1>1, FlushRunHeads, PrintBlockHeads
<1>5. QED
  BY <1>2, <1>3, <1>4 DEF Push, seen

LEMMA NewHeads ==
  ASSUME NEW toolResults
  PROVE  HeaderInv(NewFormatter(toolResults))
<1>1. IsSeq(<<>>) /\ Len(<<>>) = 0
  BY ShortSeqs
<1>2. QED
  BY <1>1 DEF HeaderInv, IsFormatter, NewFormatter

LEMMA PushAllHeads ==
  ASSUME NEW f, HeaderInv(f), NEW records, IsSeq(records)
  PROVE  HeaderInv(PushAll(f, records))
<1>1. PICK after :
        /\ after[0] = f
        /\ \A k \in 1 .. Len(records) : after[k] = Push(after[k - 1], records[k])
        /\ PushAll(f, records) = after[Len(records)]
  BY PushAllSteps
<1> DEFINE Bad == {k \in 0 .. Len(records) : ~HeaderInv(after[k])}
<1>2. Len(records) \in Nat
  BY IsSeqOf DEF IsSeq
<1>3. ASSUME NEW k \in Bad, \A j \in Bad : k <= j
      PROVE  FALSE
  <2>1. k # 0 /\ k \in 1 .. Len(records) /\ k - 1 \in 0 .. Len(records) /\ k - 1 \notin Bad
    BY <1>1, <1>2, <1>3
  <2>2. HeaderInv(Push(after[k - 1], records[k]))
    BY <2>1, PushHeads
  <2>3. QED
    BY <1>1, <2>1, <2>2
<1>4. Bad \subseteq Nat
  OBVIOUS
<1>5. Bad = {}
  <2> HIDE DEF Bad
  <2> QED BY <1>3, <1>4, LeastOf
<1>6. QED
  BY <1>1, <1>2, <1>5

-----------------------------------------------------------------------------
(* The parts shown.                                                         *)

PartsOf(body) == UNION {body[k].parts : k \in 1 .. Len(body)}
ResultsOf(body) == {body[k].result : k \in 1 .. Len(body)} \ {None}
ToolIds(body) == UNION {body[k].ids : k \in {j \in 1 .. Len(body) : body[j].what = "tools"}}

PartBefore(p, q) == p[1] < q[1] \/ (p[1] = q[1] /\ p[2] < q[2])
ToolResult(m) == m.type = "message" /\ m.role = "toolResult"
OneResult(pushed) ==
  \A n, k \in 1 .. Len(pushed) :
    ToolResult(pushed[n]) /\ ToolResult(pushed[k]) /\ pushed[n].id = pushed[k].id => n = k

\* A result that is summed up on a line answers a call of it.
ResultOK(element, pushed) ==
  element.result # None =>
    /\ element.result \in 1 .. Len(pushed)
    /\ ToolResult(pushed[element.result])
    /\ pushed[element.result].id \in element.ids
\* k < l are positions in a body.
InOrder(first, second) ==
  /\ first.result # None => first.result # second.result
  /\ \A p \in first.parts, q \in second.parts :
       p # q /\ (first.what # "thought" => PartBefore(p, q))
BodyOK(body, pushed) ==
  /\ IsSeq(body)
  /\ \A k \in 1 .. Len(body) : ResultOK(body[k], pushed)
  /\ \A k, l \in 1 .. Len(body) : k < l => InOrder(body[k], body[l])

ItemOK(item) ==
  /\ item \in [what : {item.what}, parts : {item.parts}, ids : {item.ids},
               result : {item.result}, raw : {item.raw}]
  /\ item.what \in {"bash", "tools"}
  /\ item.parts \subseteq Nat \X (Nat \ {0})
  /\ item.what = "bash" => \E id : item.ids = {id}
  /\ item.result # None => item.what = "bash"
ItemsOK(items, pushed) ==
  BodyOK(items, pushed) /\ \A k \in 1 .. Len(items) : ItemOK(items[k])
RunOK(run, pushed) ==
  /\ run \in [items : {run.items}, thinking : {run.thinking}]
  /\ run.thinking \subseteq Nat \X {0}
  /\ ItemsOK(run.items, pushed)

VisibleParts(n, m) ==
  IF m.type = "message" /\ m.role = "assistant"
  THEN {<<n, i>> : i \in BlocksOf(m, "toolCall")
                         \cup {i \in BlocksOf(m, "text") : m.blocks[i].text \notin {"empty", "blank"}}}
       \cup IF HasThinking(m) THEN {<<n, 0>>} ELSE {}
  ELSE IF m.type = "message" /\ m.text = "empty" /\ m.role # "toolResult" THEN {}
  ELSE {<<n, 1>>}
\* Of a result that is not shown as itself.
Accounted(pushed, toolResults, B, N, n) ==
  /\ ToolResult(pushed[n])
  /\ \/ toolResults = "none"
     \/ ~pushed[n].isError /\ \E i \in 1 .. N : pushed[n].id \in ToolIds(B[i])
     \/ \E i \in 1 .. N : n \in ResultsOf(B[i])
Placed(pushed, toolResults, B, N, n) ==
  \A part \in VisibleParts(n, pushed[n]) :
    (\E i \in 1 .. N : part \in PartsOf(B[i])) \/ Accounted(pushed, toolResults, B, N, n)

BodiesOK(pushed, toolResults, B, N) ==
  /\ \A i \in 1 .. N :
       BodyOK(B[i], pushed) /\ PartsOf(B[i]) \subseteq (1 .. Len(pushed)) \X Nat
  /\ \A i, j \in 1 .. N : i < j =>
       /\ \A p \in PartsOf(B[i]), q \in PartsOf(B[j]) : p[1] < q[1]
       /\ ResultsOf(B[i]) \cap ResultsOf(B[j]) = {}
  /\ \A i, j \in 1 .. N : \A r \in ResultsOf(B[i]), p \in PartsOf(B[j]) : p[1] # r
  /\ OneResult(pushed) => \A n \in 1 .. Len(pushed) : Placed(pushed, toolResults, B, N, n)

\* The bodies printed, and that of the open run.
BodiesOf(f) ==
  [i \in 1 .. Len(f.printed) + 1 |->
     IF i <= Len(f.printed) THEN f.printed[i].body ELSE RunBody(f.run)]

PartsInv(f) ==
  /\ IsFormatter(f) /\ f.toolResults \in {"summary", "none", "full"}
  /\ RunOK(f.run, f.pushed)
  /\ BodiesOK(f.pushed, f.toolResults, BodiesOf(f), Len(f.printed) + 1)

LEMMA BodySets ==
  ASSUME NEW body
  PROVE  /\ \A p : p \in PartsOf(body) <=> \E k \in 1 .. Len(body) : p \in body[k].parts
         /\ \A r : r \in ResultsOf(body) <=>
              r # None /\ \E k \in 1 .. Len(body) : r = body[k].result
         /\ \A id : id \in ToolIds(body) <=>
              \E k \in 1 .. Len(body) : body[k].what = "tools" /\ id \in body[k].ids
<1>1. \A p : p \in PartsOf(body) <=> \E k \in 1 .. Len(body) : p \in body[k].parts
  BY DEF PartsOf
<1>2. \A r : r \in ResultsOf(body) <=>
              r # None /\ \E k \in 1 .. Len(body) : r = body[k].result
  BY DEF ResultsOf
<1>3. \A id : id \in ToolIds(body) <=>
              \E k \in 1 .. Len(body) : body[k].what = "tools" /\ id \in body[k].ids
  BY DEF ToolIds
<1>4. QED
  BY <1>1, <1>2, <1>3

LEMMA BodyResults ==
  ASSUME NEW body, NEW pushed, BodyOK(body, pushed)
  PROVE  ResultsOf(body) \subseteq 1 .. Len(pushed)
BY BodySets DEF BodyOK, ResultOK

LEMMA BodyGrown ==
  ASSUME NEW pushed, IsSeq(pushed), NEW record, NEW body, BodyOK(body, pushed)
  PROVE  BodyOK(body, Append(pushed, record))
<1> DEFINE more == Append(pushed, record)
<1>1. /\ Len(pushed) \in Nat /\ Len(more) = Len(pushed) + 1
      /\ \A i \in 1 .. Len(pushed) : more[i] = pushed[i]
  BY AppendAny
<1> HIDE DEF more
<1>2. \A i \in 1 .. Len(pushed) : i \in 1 .. Len(more)
  BY <1>1
<1>3. \A k \in 1 .. Len(body) : ResultOK(body[k], more)
  BY <1>1, <1>2 DEF BodyOK, ResultOK
<1>4. BodyOK(body, more)
  BY <1>3 DEF BodyOK
<1>5. QED
  BY <1>4 DEF more

LEMMA RunGrown ==
  ASSUME NEW pushed, IsSeq(pushed), NEW record, NEW run, RunOK(run, pushed)
  PROVE  RunOK(run, Append(pushed, record))
BY BodyGrown DEF RunOK, ItemsOK

LEMMA EmptyBody ==
  ASSUME NEW pushed
  PROVE  /\ BodyOK(<<>>, pushed)
         /\ PartsOf(<<>>) = {} /\ ResultsOf(<<>>) = {} /\ ToolIds(<<>>) = {}
<1>1. IsSeq(<<>>) /\ Len(<<>>) = 0
  BY ShortSeqs
<1>2. BodyOK(<<>>, pushed)
  BY <1>1 DEF BodyOK
<1>3. PartsOf(<<>>) = {} /\ ResultsOf(<<>>) = {} /\ ToolIds(<<>>) = {}
  BY <1>1 DEF PartsOf, ResultsOf, ToolIds
<1>4. QED
  BY <1>2, <1>3

LEMMA EmptyBodyAdded ==
  ASSUME NEW pushed, NEW toolResults, NEW N \in Nat, NEW B,
         BodiesOK(pushed, toolResults, B, N), NEW C,
         \A i \in 1 .. N : C[i] = B[i], C[N + 1] = <<>>
  PROVE  BodiesOK(pushed, toolResults, C, N + 1)
<1>1. \A i \in 1 .. N + 1 : i \in 1 .. N \/ i = N + 1
  OBVIOUS
<1>2. \A i \in 1 .. N : i \in 1 .. N + 1
  OBVIOUS
<1>3. /\ BodyOK(C[N + 1], pushed)
      /\ PartsOf(C[N + 1]) = {} /\ ResultsOf(C[N + 1]) = {} /\ ToolIds(C[N + 1]) = {}
  BY EmptyBody
<1>4. \A i \in 1 .. N + 1 :
        BodyOK(C[i], pushed) /\ PartsOf(C[i]) \subseteq (1 .. Len(pushed)) \X Nat
  BY <1>1, <1>3 DEF BodiesOK
<1>5. \A i, j \in 1 .. N + 1 : i < j =>
        /\ \A p \in PartsOf(C[i]), q \in PartsOf(C[j]) : p[1] < q[1]
        /\ ResultsOf(C[i]) \cap ResultsOf(C[j]) = {}
  BY <1>1, <1>3 DEF BodiesOK
<1>6. \A i, j \in 1 .. N + 1 : \A r \in ResultsOf(C[i]), p \in PartsOf(C[j]) : p[1] # r
  <2> SUFFICES ASSUME NEW i \in 1 .. N + 1, NEW j \in 1 .. N + 1,
                      NEW r \in ResultsOf(C[i]), NEW p \in PartsOf(C[j])
               PROVE  p[1] # r
    OBVIOUS
  <2>1. i \in 1 .. N /\ j \in 1 .. N
    BY <1>1, <1>3
  <2>2. r \in ResultsOf(B[i]) /\ p \in PartsOf(B[j])
    BY <2>1
  <2>3. QED
    BY <2>1, <2>2 DEF BodiesOK
<1>7. \A n : Placed(pushed, toolResults, B, N, n) => Placed(pushed, toolResults, C, N + 1, n)
  BY <1>2 DEF Placed, Accounted
<1>8. QED
  BY <1>4, <1>5, <1>6, <1>7 DEF BodiesOK

\* The last body grows by what is shown of the next record.
LEMMA LastBodyGrows ==
  ASSUME NEW pushed, IsSeq(pushed), NEW record, NEW toolResults, NEW N \in Nat \ {0},
         NEW B, BodiesOK(pushed, toolResults, B, N), NEW C,
         \A i \in 1 .. N - 1 : C[i] = B[i],
         BodyOK(C[N], Append(pushed, record)),
         NEW n, n = Len(pushed) + 1,
         PartsOf(B[N]) \subseteq PartsOf(C[N]),
         PartsOf(C[N]) \subseteq PartsOf(B[N]) \cup ({n} \X Nat),
         ToolIds(B[N]) \subseteq ToolIds(C[N]),
         ResultsOf(C[N]) \subseteq ResultsOf(B[N]) \cup {n},
         n \in ResultsOf(C[N]) => PartsOf(C[N]) = PartsOf(B[N]),
         OneResult(Append(pushed, record)) =>
           /\ ResultsOf(B[N]) \subseteq ResultsOf(C[N])
           /\ Placed(Append(pushed, record), toolResults, C, N, n)
  PROVE  BodiesOK(Append(pushed, record), toolResults, C, N)
<1> DEFINE more == Append(pushed, record)
<1>1. /\ Len(pushed) \in Nat /\ n \in Nat /\ Len(more) = n
      /\ \A i \in 1 .. Len(pushed) : more[i] = pushed[i]
  BY AppendAny
<1>2. IsSeq(more)
  BY AppendAny
<1>3. /\ BodyOK(C[N], more)
      /\ OneResult(more) =>
           /\ ResultsOf(B[N]) \subseteq ResultsOf(C[N])
           /\ Placed(more, toolResults, C, N, n)
  OBVIOUS
<1>4. \A i \in 1 .. N : BodyOK(B[i], more)
  BY BodyGrown DEF BodiesOK
<1> HIDE DEF more
<1>5. \A i \in 1 .. N : i \in 1 .. N - 1 \/ i = N
  OBVIOUS
<1>6. /\ \A i \in 1 .. N : ResultsOf(B[i]) \subseteq 1 .. Len(pushed)
      /\ \A i \in 1 .. N : PartsOf(B[i]) \subseteq (1 .. Len(pushed)) \X Nat
  BY BodyResults DEF BodiesOK
<1>7. \A i \in 1 .. N : \A p \in PartsOf(B[i]) : p[1] \in 1 .. Len(pushed)
  BY <1>6
<1>8. \A i \in 1 .. N : \A p \in PartsOf(C[i]) :
        p \in PartsOf(B[i]) \/ (i = N /\ p \in {n} \X Nat /\ p[1] = n)
  BY <1>5
<1>9. \A i \in 1 .. N : \A r \in ResultsOf(C[i]) : r \in ResultsOf(B[i]) \/ (i = N /\ r = n)
  BY <1>5
<1>10. \A i \in 1 .. N :
         BodyOK(C[i], more) /\ PartsOf(C[i]) \subseteq (1 .. Len(more)) \X Nat
  <2> SUFFICES ASSUME NEW i \in 1 .. N
               PROVE  BodyOK(C[i], more) /\ PartsOf(C[i]) \subseteq (1 .. Len(more)) \X Nat
    OBVIOUS
  <2>1. BodyOK(C[i], more)
    BY <1>3, <1>4, <1>5
  <2>2. 1 .. Len(pushed) \subseteq 1 .. Len(more) /\ n \in 1 .. Len(more)
    BY <1>1
  <2>3. ASSUME NEW p \in PartsOf(C[i])
        PROVE  p \in (1 .. Len(more)) \X Nat
    <3>1. CASE p \in PartsOf(B[i])
      <4>1. p \in (1 .. Len(pushed)) \X Nat
        BY <1>6, <3>1
      <4>2. QED
        BY <2>2, <4>1
    <3>2. CASE p \in {n} \X Nat
      BY <2>2, <3>2
    <3>3. QED
      BY <1>8, <3>1, <3>2
  <2>4. QED
    BY <2>1, <2>3
<1>11. \A i, j \in 1 .. N : i < j =>
         /\ \A p \in PartsOf(C[i]), q \in PartsOf(C[j]) : p[1] < q[1]
         /\ ResultsOf(C[i]) \cap ResultsOf(C[j]) = {}
  <2> SUFFICES ASSUME NEW i \in 1 .. N, NEW j \in 1 .. N, i < j
               PROVE  /\ \A p \in PartsOf(C[i]), q \in PartsOf(C[j]) : p[1] < q[1]
                      /\ ResultsOf(C[i]) \cap ResultsOf(C[j]) = {}
    OBVIOUS
  <2>1. i # N
    OBVIOUS
  <2>2. /\ \A p \in PartsOf(B[i]), q \in PartsOf(B[j]) : p[1] < q[1]
        /\ ResultsOf(B[i]) \cap ResultsOf(B[j]) = {}
    BY DEF BodiesOK
  <2>3. ASSUME NEW p \in PartsOf(C[i]), NEW q \in PartsOf(C[j])
        PROVE  p[1] < q[1]
    <3>1. p \in PartsOf(B[i]) /\ p[1] \in 1 .. Len(pushed)
      BY <1>7, <1>8, <2>1
    <3>2. q \in PartsOf(B[j]) \/ q[1] = n
      BY <1>8
    <3>3. QED
      BY <1>1, <2>2, <3>1, <3>2
  <2>4. \A r \in ResultsOf(C[i]) : r \notin ResultsOf(C[j])
    <3>1. \A r \in ResultsOf(C[i]) : r \in ResultsOf(B[i]) /\ r \in 1 .. Len(pushed)
      BY <1>6, <1>9, <2>1
    <3>2. \A r \in ResultsOf(C[j]) : r \in ResultsOf(B[j]) \/ r = n
      BY <1>9
    <3>3. n \notin 1 .. Len(pushed)
      BY <1>1
    <3>4. QED
      BY <2>2, <3>1, <3>2, <3>3
  <2>5. QED
    BY <2>3, <2>4
<1>12. \A i, j \in 1 .. N : \A r \in ResultsOf(C[i]), p \in PartsOf(C[j]) : p[1] # r
  <2> SUFFICES ASSUME NEW i \in 1 .. N, NEW j \in 1 .. N,
                      NEW r \in ResultsOf(C[i]), NEW p \in PartsOf(C[j])
               PROVE  p[1] # r
    OBVIOUS
  <2>1. \A s \in ResultsOf(B[i]), q \in PartsOf(B[j]) : q[1] # s
    BY DEF BodiesOK
  <2>2. \/ r \in ResultsOf(B[i]) /\ r \in 1 .. Len(pushed)
        \/ r = n /\ n \in ResultsOf(C[N])
    BY <1>6, <1>9
  <2>3. \/ p \in PartsOf(B[j]) /\ p[1] \in 1 .. Len(pushed)
        \/ j = N /\ p[1] = n
    BY <1>7, <1>8
  <2>4. n \notin 1 .. Len(pushed)
    BY <1>1
  <2>5. r = n => p \in PartsOf(B[j])
    BY <2>2, <2>3, <2>4
  <2>6. QED
    BY <1>7, <2>1, <2>2, <2>3, <2>4, <2>5
<1>13. ASSUME OneResult(more), NEW k \in 1 .. Len(more)
       PROVE  Placed(more, toolResults, C, N, k)
  <2>1. CASE k = n
    BY <1>3, <1>13, <2>1
  <2>2. CASE k # n
    <3>1. k \in 1 .. Len(pushed) /\ more[k] = pushed[k]
      BY <1>1, <2>2
    <3>2. OneResult(pushed)
      <4>1. \A i \in 1 .. Len(pushed) : i \in 1 .. Len(more) /\ more[i] = pushed[i]
        BY <1>1
      <4>2. QED
        BY <1>13, <4>1 DEF OneResult
    <3>3. Placed(pushed, toolResults, B, N, k)
      BY <3>1, <3>2 DEF BodiesOK
    <3>4. \A i \in 1 .. N : /\ PartsOf(B[i]) \subseteq PartsOf(C[i])
                            /\ ResultsOf(B[i]) \subseteq ResultsOf(C[i])
                            /\ ToolIds(B[i]) \subseteq ToolIds(C[i])
      BY <1>3, <1>5, <1>13
    <3>5. QED
      BY <3>1, <3>3, <3>4 DEF Placed, Accounted
  <2>3. QED
    BY <2>1, <2>2
<1>14. BodiesOK(more, toolResults, C, N)
  BY <1>10, <1>11, <1>12, <1>13 DEF BodiesOK
<1>15. QED
  BY <1>14 DEF more

LEMMA ConcatElements ==
  ASSUME NEW s, IsSeq(s), NEW t, IsSeq(t)
  PROVE  /\ \A k \in 1 .. Len(s \o t) :
              \/ k \in 1 .. Len(s) /\ (s \o t)[k] = s[k]
              \/ k - Len(s) \in 1 .. Len(t) /\ (s \o t)[k] = t[k - Len(s)]
         /\ \A k \in 1 .. Len(s) : k \in 1 .. Len(s \o t) /\ (s \o t)[k] = s[k]
         /\ \A k \in 1 .. Len(t) :
              k + Len(s) \in 1 .. Len(s \o t) /\ (s \o t)[k + Len(s)] = t[k]
<1> DEFINE c == s \o t
<1>1. /\ Len(s) \in Nat /\ Len(t) \in Nat
      /\ Len(c) = Len(s) + Len(t)
      /\ \A i \in 1 .. Len(s) : c[i] = s[i]
      /\ \A i \in Len(s) + 1 .. Len(s) + Len(t) : c[i] = t[i - Len(s)]
  BY ConcatAny
<1> HIDE DEF c
<1>2. \A k \in 1 .. Len(c) :
        \/ k \in 1 .. Len(s) /\ c[k] = s[k]
        \/ k - Len(s) \in 1 .. Len(t) /\ c[k] = t[k - Len(s)]
  <2> SUFFICES ASSUME NEW k \in 1 .. Len(c)
               PROVE  \/ k \in 1 .. Len(s) /\ c[k] = s[k]
                      \/ k - Len(s) \in 1 .. Len(t) /\ c[k] = t[k - Len(s)]
    OBVIOUS
  <2>1. k \in 1 .. Len(s) \/ (k \in Len(s) + 1 .. Len(s) + Len(t) /\ k - Len(s) \in 1 .. Len(t))
    BY <1>1
  <2>2. QED
    BY <1>1, <2>1
<1>3. \A k \in 1 .. Len(s) : k \in 1 .. Len(c) /\ c[k] = s[k]
  BY <1>1
<1>4. \A k \in 1 .. Len(t) : k + Len(s) \in 1 .. Len(c) /\ c[k + Len(s)] = t[k]
  <2> SUFFICES ASSUME NEW k \in 1 .. Len(t)
               PROVE  k + Len(s) \in 1 .. Len(c) /\ c[k + Len(s)] = t[k]
    OBVIOUS
  <2>1. k + Len(s) \in Len(s) + 1 .. Len(s) + Len(t) /\ k + Len(s) - Len(s) = k
        /\ k + Len(s) \in 1 .. Len(c)
    BY <1>1
  <2>2. QED
    BY <1>1, <2>1
<1>5. QED
  BY <1>2, <1>3, <1>4 DEF c

LEMMA ConcatSets ==
  ASSUME NEW s, IsSeq(s), NEW t, IsSeq(t)
  PROVE  /\ PartsOf(s \o t) = PartsOf(s) \cup PartsOf(t)
         /\ ResultsOf(s \o t) = ResultsOf(s) \cup ResultsOf(t)
         /\ ToolIds(s \o t) = ToolIds(s) \cup ToolIds(t)
<1> DEFINE c == s \o t
<1>1. /\ \A k \in 1 .. Len(c) :
           \/ \E i \in 1 .. Len(s) : c[k] = s[i]
           \/ \E i \in 1 .. Len(t) : c[k] = t[i]
      /\ \A i \in 1 .. Len(s) : \E k \in 1 .. Len(c) : c[k] = s[i]
      /\ \A i \in 1 .. Len(t) : \E k \in 1 .. Len(c) : c[k] = t[i]
  BY ConcatElements
<1> HIDE DEF c
<1>2. PartsOf(c) = PartsOf(s) \cup PartsOf(t)
  <2>0. \A body : \A p : p \in PartsOf(body) <=> \E k \in 1 .. Len(body) : p \in body[k].parts
    BY BodySets, Zenon
  <2>1. \A p \in PartsOf(c) : p \in PartsOf(s) \cup PartsOf(t)
    <3> TAKE p \in PartsOf(c)
    <3>1. PICK k \in 1 .. Len(c) : p \in c[k].parts
      BY <2>0
    <3>2. QED
      BY <1>1, <2>0, <3>1
  <2>2. \A p \in PartsOf(s) : p \in PartsOf(c)
    <3> TAKE p \in PartsOf(s)
    <3>1. PICK i \in 1 .. Len(s) : p \in s[i].parts
      BY <2>0
    <3>2. QED
      BY <1>1, <2>0, <3>1
  <2>3. \A p \in PartsOf(t) : p \in PartsOf(c)
    <3> TAKE p \in PartsOf(t)
    <3>1. PICK i \in 1 .. Len(t) : p \in t[i].parts
      BY <2>0
    <3>2. QED
      BY <1>1, <2>0, <3>1
  <2>4. QED
    BY <2>1, <2>2, <2>3
<1>3. ResultsOf(c) = ResultsOf(s) \cup ResultsOf(t)
  <2>1. \A p \in ResultsOf(c) : p \in ResultsOf(s) \cup ResultsOf(t)
    BY <1>1 DEF ResultsOf
  <2>2. \A p \in ResultsOf(s) : p \in ResultsOf(c)
    BY <1>1 DEF ResultsOf
  <2>3. \A p \in ResultsOf(t) : p \in ResultsOf(c)
    BY <1>1 DEF ResultsOf
  <2>4. QED
    BY <2>1, <2>2, <2>3
<1>4. ToolIds(c) = ToolIds(s) \cup ToolIds(t)
  <2>1. \A p : p \in ToolIds(c) <=> p \in ToolIds(s) \/ p \in ToolIds(t)
    BY <1>1, BodySets
  <2>2. QED
    BY <2>1
<1>5. QED
  BY <1>2, <1>3, <1>4 DEF c

\* Two bodies one after the other.
LEMMA ConcatBody ==
  ASSUME NEW pushed, NEW s, BodyOK(s, pushed), NEW t, BodyOK(t, pushed),
         \A k \in 1 .. Len(s), l \in 1 .. Len(t) : InOrder(s[k], t[l])
  PROVE  BodyOK(s \o t, pushed)
<1> DEFINE c == s \o t
<1>1. /\ IsSeq(c) /\ IsSeq(s) /\ IsSeq(t)
      /\ \A k \in 1 .. Len(c) :
           \/ k \in 1 .. Len(s) /\ c[k] = s[k]
           \/ k - Len(s) \in 1 .. Len(t) /\ c[k] = t[k - Len(s)]
  <2>1. IsSeq(s) /\ IsSeq(t)
    BY DEF BodyOK
  <2>2. IsSeq(c)
    BY <2>1, ConcatAny
  <2>3. QED
    BY <2>1, <2>2, ConcatElements
<1>2. Len(s) \in Nat /\ Len(t) \in Nat /\ Len(c) \in Nat
  BY <1>1, IsSeqOf DEF IsSeq
<1> HIDE DEF c
<1>3. \A k \in 1 .. Len(c) : ResultOK(c[k], pushed)
  BY <1>1 DEF BodyOK
<1>4. ASSUME NEW k \in 1 .. Len(c), NEW l \in 1 .. Len(c), k < l
      PROVE  InOrder(c[k], c[l])
  <2>1. CASE k \in 1 .. Len(s) /\ c[k] = s[k] /\ l \in 1 .. Len(s) /\ c[l] = s[l]
    BY <1>4, <2>1 DEF BodyOK
  <2>2. CASE k \in 1 .. Len(s) /\ c[k] = s[k]
             /\ l - Len(s) \in 1 .. Len(t) /\ c[l] = t[l - Len(s)]
    BY <2>2
  <2>3. CASE k - Len(s) \in 1 .. Len(t) /\ c[k] = t[k - Len(s)]
             /\ l - Len(s) \in 1 .. Len(t) /\ c[l] = t[l - Len(s)]
    <3>1. k - Len(s) < l - Len(s)
      BY <1>2, <1>4
    <3>2. InOrder(t[k - Len(s)], t[l - Len(s)])
      BY <2>3, <3>1 DEF BodyOK
    <3>3. QED
      BY <2>3, <3>2
  <2>4. ~(k - Len(s) \in 1 .. Len(t) /\ l \in 1 .. Len(s))
    BY <1>2, <1>4
  <2>5. QED
    BY <1>1, <2>1, <2>2, <2>3, <2>4
<1>5. BodyOK(c, pushed)
  BY <1>1, <1>3, <1>4 DEF BodyOK
<1>6. QED
  BY <1>5 DEF c

\* What one record shows: parts of it alone, from lo to hi, no result.
ShowsFrom(s, n, lo, hi) ==
  /\ IsSeq(s)
  /\ \A k \in 1 .. Len(s) :
       s[k].result = None /\ \A p \in s[k].parts : p \in {n} \X (lo .. hi)
  /\ \A k, l \in 1 .. Len(s) : k < l =>
       \A p \in s[k].parts, q \in s[l].parts : p[2] < q[2]

LEMMA ShowsBody ==
  ASSUME NEW s, NEW n \in Nat, NEW lo \in Nat, NEW hi \in Nat, ShowsFrom(s, n, lo, hi),
         NEW pushed
  PROVE  BodyOK(s, pushed) /\ ResultsOf(s) = {} /\ PartsOf(s) \subseteq {n} \X Nat
<1>1. ResultsOf(s) = {}
  BY BodySets DEF ShowsFrom
<1>2. \A k \in 1 .. Len(s) : \A p \in s[k].parts : p \in {n} \X Nat /\ p[1] = n /\ p[2] \in Nat
  BY DEF ShowsFrom
<1>3. PartsOf(s) \subseteq {n} \X Nat
  BY <1>2, BodySets
<1>4. ASSUME NEW k \in 1 .. Len(s), NEW l \in 1 .. Len(s), k < l
      PROVE  InOrder(s[k], s[l])
  <2>1. s[k].result = None
    BY DEF ShowsFrom
  <2>2. ASSUME NEW p \in s[k].parts, NEW q \in s[l].parts
        PROVE  p # q /\ PartBefore(p, q)
    <3>1. p[1] = n /\ q[1] = n /\ p[2] \in Nat /\ q[2] \in Nat
      BY <1>2
    <3>2. p[2] < q[2]
      BY <1>4 DEF ShowsFrom
    <3>3. QED
      BY <3>1, <3>2 DEF PartBefore
  <2>3. QED
    BY <2>1, <2>2 DEF InOrder
<1>5. BodyOK(s, pushed)
  BY <1>4 DEF BodyOK, ShowsFrom, ResultOK
<1>6. QED
  BY <1>1, <1>3, <1>5

LEMMA ConcatShows ==
  ASSUME NEW n \in Nat, NEW lo \in Nat, NEW mid \in Nat, NEW up \in Nat, NEW hi \in Nat,
         lo <= mid + 1, mid < up, up <= hi + 1,
         NEW s, ShowsFrom(s, n, lo, mid), NEW t, ShowsFrom(t, n, up, hi)
  PROVE  ShowsFrom(s \o t, n, lo, hi)
<1> DEFINE c == s \o t
<1>1. /\ IsSeq(c) /\ IsSeq(s) /\ IsSeq(t)
      /\ \A k \in 1 .. Len(c) :
           \/ k \in 1 .. Len(s) /\ c[k] = s[k]
           \/ k - Len(s) \in 1 .. Len(t) /\ c[k] = t[k - Len(s)]
  <2>1. IsSeq(s) /\ IsSeq(t)
    BY DEF ShowsFrom
  <2>2. IsSeq(c)
    BY <2>1, ConcatAny
  <2>3. QED
    BY <2>1, <2>2, ConcatElements
<1>2. Len(s) \in Nat /\ Len(t) \in Nat /\ Len(c) \in Nat
  BY <1>1, IsSeqOf DEF IsSeq
<1> HIDE DEF c
<1>3. ASSUME NEW k \in 1 .. Len(c)
      PROVE  c[k].result = None
  BY <1>1 DEF ShowsFrom
<1>4. ASSUME NEW k \in 1 .. Len(s), NEW p \in s[k].parts
      PROVE  p \in {n} \X (lo .. hi) /\ p[2] \in Nat /\ p[2] <= mid
  <2>1. p \in {n} \X (lo .. mid)
    BY <1>4 DEF ShowsFrom
  <2>2. p[2] \in lo .. mid
    BY <2>1
  <2>3. lo .. mid \subseteq lo .. hi
    OBVIOUS
  <2>4. QED
    BY <2>1, <2>2, <2>3
<1>5. ASSUME NEW k \in 1 .. Len(t), NEW p \in t[k].parts
      PROVE  p \in {n} \X (lo .. hi) /\ p[2] \in Nat /\ up <= p[2]
  <2>1. p \in {n} \X (up .. hi)
    BY <1>5 DEF ShowsFrom
  <2>2. p[2] \in up .. hi
    BY <2>1
  <2>3. up .. hi \subseteq lo .. hi
    OBVIOUS
  <2>4. QED
    BY <2>1, <2>2, <2>3
<1>6. ASSUME NEW k \in 1 .. Len(c), NEW p \in c[k].parts
      PROVE  p \in {n} \X (lo .. hi)
  BY <1>1, <1>4, <1>5, <1>6
<1>7. ASSUME NEW k \in 1 .. Len(c), NEW l \in 1 .. Len(c), k < l,
             NEW p \in c[k].parts, NEW q \in c[l].parts
      PROVE  p[2] < q[2]
  <2>1. CASE k \in 1 .. Len(s) /\ c[k] = s[k] /\ l \in 1 .. Len(s) /\ c[l] = s[l]
    BY <1>7, <2>1 DEF ShowsFrom
  <2>2. CASE k \in 1 .. Len(s) /\ c[k] = s[k]
             /\ l - Len(s) \in 1 .. Len(t) /\ c[l] = t[l - Len(s)]
    <3>1. p \in s[k].parts /\ q \in t[l - Len(s)].parts
      BY <1>7, <2>2
    <3>2. p[2] \in Nat /\ p[2] <= mid /\ q[2] \in Nat /\ up <= q[2]
      BY <1>4, <1>5, <2>2, <3>1
    <3>3. QED
      BY <3>2
  <2>3. CASE k - Len(s) \in 1 .. Len(t) /\ c[k] = t[k - Len(s)]
             /\ l - Len(s) \in 1 .. Len(t) /\ c[l] = t[l - Len(s)]
    <3>1. k - Len(s) < l - Len(s)
      BY <1>2, <1>7
    <3>2. QED
      BY <1>7, <2>3, <3>1 DEF ShowsFrom
  <2>4. ~(k - Len(s) \in 1 .. Len(t) /\ l \in 1 .. Len(s))
    BY <1>2, <1>7
  <2>5. QED
    BY <1>1, <2>1, <2>2, <2>3, <2>4
<1>8. ShowsFrom(c, n, lo, hi)
  BY <1>1, <1>3, <1>6, <1>7 DEF ShowsFrom
<1>9. QED
  BY <1>8 DEF c

LEMMA NothingShows ==
  ASSUME NEW n, NEW lo, NEW hi
  PROVE  ShowsFrom(<<>>, n, lo, hi)
<1>1. IsSeq(<<>>) /\ Len(<<>>) = 0
  BY ShortSeqs
<1>2. QED
  BY <1>1 DEF ShowsFrom

LEMMA OneShows ==
  ASSUME NEW n \in Nat, NEW lo \in Nat, NEW hi \in Nat, NEW j \in lo .. hi,
         NEW e, e.parts = {<<n, j>>}, e.result = None
  PROVE  ShowsFrom(<<e>>, n, lo, hi) /\ PartsOf(<<e>>) = {<<n, j>>}
<1> DEFINE s == <<e>>
<1>2. IsSeq(s) /\ Len(s) = 1 /\ s[1] = e
  BY ShortSeqs
<1> HIDE DEF s
<1>3. \A k \in 1 .. Len(s) : k = 1
  BY <1>2
<1>4. <<n, j>> \in {n} \X (lo .. hi)
  OBVIOUS
<1>5. ShowsFrom(s, n, lo, hi)
  BY <1>2, <1>3, <1>4 DEF ShowsFrom
<1>6. PartsOf(s) = {<<n, j>>}
  <2>1. \A p : p \in PartsOf(s) <=> p = <<n, j>>
    BY <1>2, <1>3, BodySets
  <2>2. QED
    BY <2>1
<1>7. QED
  BY <1>5, <1>6 DEF s

\* s shows the one part <<n, j>>.
ShowsOne(s, n, j) == \E e : s = <<e>> /\ e.parts = {<<n, j>>} /\ e.result = None

LEMMA ElementShows ==
  ASSUME NEW n \in Nat, NEW lo \in Nat, NEW hi \in Nat, NEW j \in lo .. hi,
         NEW s, ShowsOne(s, n, j)
  PROVE  ShowsFrom(s, n, lo, hi) /\ PartsOf(s) = {<<n, j>>}
<1>1. PICK e : s = <<e>> /\ e.parts = {<<n, j>>} /\ e.result = None
  BY DEF ShowsOne
<1>2. ShowsFrom(<<e>>, n, lo, hi) /\ PartsOf(<<e>>) = {<<n, j>>}
  BY <1>1, OneShows
<1>3. QED
  BY <1>1, <1>2

LEMMA TakenShows ==
  ASSUME NEW n \in Nat, NEW s, IsSeq(s),
         \A i \in 1 .. Len(s) : s[i].parts = {<<n, i>>} /\ s[i].result = None,
         NEW I, I \subseteq 1 .. Len(s)
  PROVE  /\ ShowsFrom(Subsequence(s, I), n, 1, Len(s))
         /\ \A i \in I : <<n, i>> \in PartsOf(Subsequence(s, I))
<1> DEFINE t == Subsequence(s, I)
<1>1. IsSeq(t)
  BY SubsequenceEmbeds
<1>2. PICK pos : Embeds(s, I, t, pos)
  BY SubsequenceEmbeds
<1> HIDE DEF t
<1>3. \A k \in 1 .. Len(t) :
        pos[k] \in 1 .. Len(s) /\ t[k].parts = {<<n, pos[k]>>} /\ t[k].result = None
  <2>1. \A k \in 1 .. Len(t) : pos[k] \in I /\ t[k] = s[pos[k]]
    BY <1>2 DEF Embeds
  <2>2. \A i \in I : i \in 1 .. Len(s)
    OBVIOUS
  <2> TAKE k \in 1 .. Len(t)
  <2>3. pos[k] \in 1 .. Len(s) /\ t[k] = s[pos[k]]
    BY <2>1, <2>2
  <2>4. QED
    BY <2>3
<1>4. \A k, l \in 1 .. Len(t) : k < l => pos[k] < pos[l]
  BY <1>2 DEF Embeds
<1>5. \A k \in 1 .. Len(t) : \A p \in t[k].parts :
        p \in {n} \X (1 .. Len(s)) /\ p[2] = pos[k]
  BY <1>3
<1>6. ShowsFrom(t, n, 1, Len(s))
  BY <1>1, <1>3, <1>4, <1>5 DEF ShowsFrom
<1>7. ASSUME NEW i \in I
      PROVE  <<n, i>> \in PartsOf(t)
  <2>1. PICK k \in 1 .. Len(t) : pos[k] = i
    BY <1>2 DEF Embeds
  <2>2. <<n, i>> \in t[k].parts
    BY <1>3, <2>1
  <2>3. QED
    BY <2>2, BodySets
<1>8. QED
  BY <1>6, <1>7 DEF t

LEMMA AssistantShows ==
  ASSUME NEW n \in Nat, NEW m, IsSeq(m.blocks)
  PROVE  /\ ShowsFrom(AssistantBody(n, m), n, 0, Len(m.blocks) + 1)
         /\ HasThinking(m) => <<n, 0>> \in PartsOf(AssistantBody(n, m))
         /\ \A i \in BlocksOf(m, "toolCall") : <<n, i>> \in PartsOf(AssistantBody(n, m))
         /\ \A i \in BlocksOf(m, "text") :
              m.blocks[i].text # "empty" => <<n, i>> \in PartsOf(AssistantBody(n, m))
<1> DEFINE L == Len(m.blocks)
           block(i) ==
             LET b == m.blocks[i] IN
             IF b.kind = "toolCall" THEN Element("call", {<<n, i>>}, {b.id}, FALSE)
             ELSE Element("text", {<<n, i>>}, {}, b.text = "raw")
           shown == BlocksOf(m, "toolCall")
                    \cup {i \in BlocksOf(m, "text") : m.blocks[i].text # "empty"}
           s == [i \in 1 .. L |-> block(i)]
           first == IF HasThinking(m) THEN <<Element("thinking", {<<n, 0>>}, {}, FALSE)>> ELSE <<>>
           last == IF Failed(m) THEN <<Element("failure", {<<n, L + 1>>}, {}, FALSE)>>
                   ELSE <<>>
           t == Subsequence(s, shown)
<1>1. AssistantBody(n, m) = (first \o t) \o last
  BY DEF AssistantBody
<1>2. L \in Nat
  BY IsSeqOf DEF IsSeq
<1>3. shown \subseteq 1 .. L
  BY DEF BlocksOf
<1>4. /\ IsSeq(s) /\ Len(s) = L
      /\ \A i \in 1 .. L : s[i].parts = {<<n, i>>} /\ s[i].result = None
  <2>1. \A i \in 1 .. L : block(i).parts = {<<n, i>>} /\ block(i).result = None
    BY DEF Element
  <2> HIDE DEF block
  <2>2. s \in [1 .. L -> {block(i) : i \in 1 .. L}]
    OBVIOUS
  <2>3. IsSeq(s) /\ Len(s) = L
    BY <1>2, <2>2, FunctionIsSeq
  <2>4. QED
    BY <2>1, <2>3
<1>5. /\ ShowsFrom(first, n, 0, 0)
      /\ HasThinking(m) => <<n, 0>> \in PartsOf(first)
  <2>1. 0 \in 0 .. 0 /\ 0 \in Nat
    OBVIOUS
  <2>2. CASE HasThinking(m)
    <3>1. ShowsOne(first, n, 0)
      BY <2>2 DEF ShowsOne, Element
    <3> HIDE DEF first
    <3>2. ShowsFrom(first, n, 0, 0) /\ PartsOf(first) = {<<n, 0>>}
      BY <2>1, <3>1, ElementShows
    <3>3. QED
      BY <3>2
  <2>3. CASE ~HasThinking(m)
    <3>1. first = <<>>
      BY <2>3
    <3>2. QED
      BY <2>1, <2>3, <3>1, NothingShows
  <2>4. QED
    BY <2>2, <2>3
<1>6. ShowsFrom(last, n, L + 1, L + 1)
  <2>1. L + 1 \in L + 1 .. L + 1 /\ L + 1 \in Nat
    BY <1>2
  <2>2. CASE Failed(m)
    <3>1. ShowsOne(last, n, L + 1)
      BY <2>2 DEF ShowsOne, Element
    <3> HIDE DEF last
    <3>2. QED
      BY <2>1, <3>1, ElementShows
  <2>3. CASE ~Failed(m)
    <3>1. last = <<>>
      BY <2>3
    <3>2. QED
      BY <3>1, NothingShows
  <2>4. QED
    BY <2>2, <2>3
<1> HIDE DEF s, first, last, shown
<1>7. ShowsFrom(t, n, 1, L) /\ \A i \in shown : <<n, i>> \in PartsOf(t)
  BY <1>3, <1>4, TakenShows
<1> HIDE DEF t
<1>8. ShowsFrom(first \o t, n, 0, L)
  BY <1>2, <1>5, <1>7, ConcatShows
<1>9. ShowsFrom((first \o t) \o last, n, 0, L + 1)
  <2>1. L + 1 \in Nat /\ 0 <= L + 1 /\ L < L + 1 /\ L + 1 <= (L + 1) + 1
    BY <1>2
  <2>2. QED
    BY <1>2, <1>6, <1>8, <2>1, ConcatShows
<1>10. PartsOf(first) \cup PartsOf(t) \subseteq PartsOf((first \o t) \o last)
  <2>1. IsSeq(first) /\ IsSeq(t) /\ IsSeq(last) /\ IsSeq(first \o t)
    BY <1>5, <1>6, <1>7, <1>8 DEF ShowsFrom
  <2>2. /\ PartsOf(first \o t) = PartsOf(first) \cup PartsOf(t)
        /\ PartsOf((first \o t) \o last) = PartsOf(first \o t) \cup PartsOf(last)
    BY <2>1, ConcatSets
  <2>3. QED
    BY <2>2
<1>11. /\ \A i \in BlocksOf(m, "toolCall") : i \in shown
       /\ \A i \in BlocksOf(m, "text") : m.blocks[i].text # "empty" => i \in shown
  BY DEF shown
<1>12. QED
  BY <1>1, <1>5, <1>7, <1>9, <1>10, <1>11

\* What is rendered for a record.
LEMMA RenderedShows ==
  ASSUME NEW f, NEW n \in Nat, NEW record, record.type = "message" => IsSeq(record.blocks)
  PROVE  LET body == Rendered(f, n, record).body IN
         /\ \E hi \in Nat : ShowsFrom(body, n, 0, hi)
         /\ \A part \in VisibleParts(n, record) :
              part \in PartsOf(body) \/ (ToolResult(record) /\ f.toolResults = "none")
<1> DEFINE body == Rendered(f, n, record).body
<1>1. 1 \in 0 .. 1 /\ 1 \in Nat /\ 0 \in Nat
  OBVIOUS
<1>2. CASE record.type # "message"
  <2>1. ShowsOne(body, n, 1)
    BY <1>2 DEF Rendered, ShowsOne, Element
  <2>2. ShowsFrom(body, n, 0, 1) /\ PartsOf(body) = {<<n, 1>>}
    <3> HIDE DEF body
    <3> QED BY <1>1, <2>1, ElementShows
  <2>3. VisibleParts(n, record) = {<<n, 1>>}
    BY <1>2 DEF VisibleParts
  <2>4. QED
    BY <1>1, <2>2, <2>3
<1>3. CASE record.type = "message" /\ record.role = "assistant"
  <2>1. body = AssistantBody(n, record)
    BY <1>3 DEF Rendered
  <2>2. Len(record.blocks) + 1 \in Nat
    BY <1>3, IsSeqOf DEF IsSeq
  <2>3. /\ ShowsFrom(body, n, 0, Len(record.blocks) + 1)
        /\ HasThinking(record) => <<n, 0>> \in PartsOf(body)
        /\ \A i \in BlocksOf(record, "toolCall") : <<n, i>> \in PartsOf(body)
        /\ \A i \in BlocksOf(record, "text") :
             record.blocks[i].text # "empty" => <<n, i>> \in PartsOf(body)
    BY <1>3, <2>1, AssistantShows
  <2> HIDE DEF body
  <2>4. ASSUME NEW part \in VisibleParts(n, record)
        PROVE  part \in PartsOf(body)
    <3>1. \/ \E i \in BlocksOf(record, "toolCall") : part = <<n, i>>
          \/ \E i \in BlocksOf(record, "text") :
               record.blocks[i].text # "empty" /\ part = <<n, i>>
          \/ HasThinking(record) /\ part = <<n, 0>>
      BY <1>3, <2>4 DEF VisibleParts
    <3>2. QED
      BY <2>3, <3>1
  <2>5. QED
    BY <2>2, <2>3, <2>4 DEF body
<1>4. CASE record.type = "message" /\ record.role = "toolResult"
  <2>1. VisibleParts(n, record) = {<<n, 1>>} /\ ToolResult(record)
    BY <1>4 DEF VisibleParts, ToolResult
  <2>2. CASE f.toolResults = "none"
    <3>1. body = <<>>
      BY <1>4, <2>2 DEF Rendered
    <3>2. ShowsFrom(body, n, 0, 1)
      BY <1>1, <3>1, NothingShows
    <3>3. QED
      BY <1>1, <2>1, <2>2, <3>2
  <2>3. CASE f.toolResults # "none"
    <3>1. ShowsOne(body, n, 1)
      BY <1>4, <2>3 DEF Rendered, ResultBody, ShowsOne, Element
    <3> HIDE DEF body
    <3>2. ShowsFrom(body, n, 0, 1) /\ PartsOf(body) = {<<n, 1>>}
      BY <1>1, <3>1, ElementShows
    <3>3. QED
      BY <1>1, <2>1, <3>2 DEF body
  <2>4. QED
    BY <2>2, <2>3
<1>5. CASE record.type = "message" /\ record.role \notin {"assistant", "toolResult"}
  <2>1. CASE record.text = "empty"
    <3>1. body = <<>> /\ VisibleParts(n, record) = {}
      BY <1>5, <2>1 DEF Rendered, VisibleParts
    <3>2. ShowsFrom(body, n, 0, 1)
      BY <1>1, <3>1, NothingShows
    <3>3. QED
      BY <1>1, <3>1, <3>2
  <2>2. CASE record.text # "empty"
    <3>1. VisibleParts(n, record) = {<<n, 1>>} /\ ShowsOne(body, n, 1)
      BY <1>5, <2>2 DEF Rendered, VisibleParts, ShowsOne, Element
    <3> HIDE DEF body
    <3>2. ShowsFrom(body, n, 0, 1) /\ PartsOf(body) = {<<n, 1>>}
      BY <1>1, <3>1, ElementShows
    <3>3. QED
      BY <1>1, <3>1, <3>2 DEF body
  <2>3. QED
    BY <2>1, <2>2
<1>6. QED
  BY <1>2, <1>3, <1>4, <1>5

LEMMA RunBodyIs ==
  ASSUME NEW run, NEW pushed, RunOK(run, pushed)
  PROVE  /\ BodyOK(RunBody(run), pushed)
         /\ PartsOf(RunBody(run)) = run.thinking \cup PartsOf(run.items)
         /\ ResultsOf(RunBody(run)) = ResultsOf(run.items)
         /\ ToolIds(RunBody(run)) = ToolIds(run.items)
         /\ RunBody(run) = <<>> => run = EmptyRun
<1> DEFINE e == Element("thought", run.thinking, {}, FALSE)
           first == IF run.thinking = {} THEN <<>> ELSE <<e>>
           items == run.items
<1>1. RunBody(run) = first \o items
  BY DEF RunBody
<1>2. /\ e.what = "thought" /\ e.parts = run.thinking /\ e.ids = {} /\ e.result = None
  BY DEF Element
<1>3. /\ IsSeq(first) /\ Len(first) = (IF run.thinking = {} THEN 0 ELSE 1)
      /\ \A k \in 1 .. Len(first) : first[k] = e
  <2> HIDE DEF e
  <2>1. IsSeq(<<>>) /\ Len(<<>>) = 0 /\ IsSeq(<<e>>) /\ Len(<<e>>) = 1 /\ <<e>>[1] = e
    BY ShortSeqs
  <2>2. CASE run.thinking = {}
    BY <2>1, <2>2
  <2>3. CASE run.thinking # {}
    <3>1. first = <<e>>
      BY <2>3
    <3> HIDE DEF first
    <3>2. \A k \in 1 .. Len(first) : k = 1
      BY <2>1, <3>1
    <3>3. QED
      BY <2>1, <2>3, <3>1, <3>2
  <2>4. QED
    BY <2>2, <2>3
<1>4. BodyOK(items, pushed) /\ IsSeq(items)
  BY DEF RunOK, ItemsOK, BodyOK
<1> HIDE DEF e, first
<1>5. BodyOK(first, pushed)
  <2>1. \A k, l \in 1 .. Len(first) : ~(k < l)
    BY <1>3
  <2>2. \A k \in 1 .. Len(first) : ResultOK(first[k], pushed)
    BY <1>2, <1>3 DEF ResultOK
  <2>3. QED
    BY <1>3, <2>1, <2>2 DEF BodyOK
<1>6. ASSUME NEW k \in 1 .. Len(first), NEW l \in 1 .. Len(items)
      PROVE  InOrder(first[k], items[l])
  <2>1. first[k] = e
    BY <1>3
  <2>2. ASSUME NEW p \in run.thinking, NEW q \in items[l].parts
        PROVE  p # q
    <3>1. p \in Nat \X {0}
      BY DEF RunOK
    <3>2. q \in Nat \X (Nat \ {0})
      BY DEF RunOK, ItemsOK, ItemOK
    <3>3. QED
      BY <3>1, <3>2
  <2>3. QED
    BY <1>2, <2>1, <2>2 DEF InOrder
<1>7. BodyOK(first \o items, pushed)
  BY <1>4, <1>5, <1>6, ConcatBody
<1>8. /\ PartsOf(first \o items) = PartsOf(first) \cup PartsOf(items)
      /\ ResultsOf(first \o items) = ResultsOf(first) \cup ResultsOf(items)
      /\ ToolIds(first \o items) = ToolIds(first) \cup ToolIds(items)
  BY <1>3, <1>4, ConcatSets
<1>9. PartsOf(first) = run.thinking
  <2>1. \A p \in PartsOf(first) : p \in run.thinking
    BY <1>2, <1>3, BodySets
  <2>2. ASSUME NEW p \in run.thinking
        PROVE  p \in PartsOf(first)
    <3>1. 1 \in 1 .. Len(first) /\ first[1] = e
      BY <1>3
    <3>2. QED
      BY <1>2, <3>1, BodySets
  <2>3. QED
    BY <2>1, <2>2
<1>10. ResultsOf(first) = {}
  BY <1>2, <1>3, BodySets
<1>11. ToolIds(first) = {}
  BY <1>2, <1>3, BodySets
<1>12. ASSUME first \o items = <<>>
       PROVE  run = EmptyRun
  <2>1. /\ Len(first) \in Nat /\ Len(items) \in Nat
        /\ Len(first \o items) = Len(first) + Len(items) /\ Len(<<>>) = 0 /\ IsSeq(<<>>)
    BY <1>3, <1>4, ConcatAny, ShortSeqs
  <2>2. Len(first) = 0 /\ Len(items) = 0
    BY <1>12, <2>1
  <2>3. items = <<>>
    BY <1>4, <2>1, <2>2, SameSeq
  <2>4. run.thinking = {}
    BY <1>3, <2>2
  <2>5. QED
    BY <2>3, <2>4 DEF RunOK, EmptyRun
<1>13. QED
  BY <1>1, <1>7, <1>8, <1>9, <1>10, <1>11, <1>12

LEMMA EmptyRunIs ==
  ASSUME NEW pushed
  PROVE  RunOK(EmptyRun, pushed) /\ RunBody(EmptyRun) = <<>>
<1>1. IsSeq(<<>>) /\ Len(<<>>) = 0
  BY ShortSeqs
<1>2. EmptyRun.items = <<>> /\ EmptyRun.thinking = {}
  BY DEF EmptyRun
<1>3. BodyOK(<<>>, pushed)
  BY EmptyBody
<1>4. EmptyRun \in [items : {EmptyRun.items}, thinking : {EmptyRun.thinking}]
  BY DEF EmptyRun
<1>5. RunOK(EmptyRun, pushed)
  BY <1>1, <1>2, <1>3, <1>4 DEF RunOK, ItemsOK
<1>6. <<>> \o <<>> = <<>>
  BY ConcatSimplifications, EmptySeq
<1>7. QED
  BY <1>2, <1>5, <1>6 DEF RunBody

\* items has become g, which shows one part more.
ItemsGrow(items, g, pushed, parts) ==
  /\ ItemsOK(g, pushed)
  /\ PartsOf(g) = PartsOf(items) \cup parts
  /\ ResultsOf(g) = ResultsOf(items)
  /\ ToolIds(items) \subseteq ToolIds(g)

LEMMA ItemAdded ==
  ASSUME NEW pushed, NEW items, ItemsOK(items, pushed), NEW part \in Nat \X (Nat \ {0}),
         \A p \in PartsOf(items) : p # part /\ PartBefore(p, part),
         NEW e, e.parts = {part}, e.result = None, ItemOK(e)
  PROVE  ItemsGrow(items, Append(items, e), pushed, {part})
<1> DEFINE g == Append(items, e)
           L == Len(items)
<1>1. /\ IsSeq(g) /\ L \in Nat /\ Len(g) = L + 1
      /\ \A k \in 1 .. L : g[k] = items[k]
      /\ g[L + 1] = e
  BY AppendAny DEF ItemsOK, BodyOK
<1> HIDE DEF g, L
<1>2. \A k \in 1 .. Len(g) : k \in 1 .. L \/ k = L + 1
  BY <1>1
<1>3. L + 1 \in 1 .. Len(g) /\ \A k \in 1 .. L : k \in 1 .. Len(g)
  BY <1>1
<1>4. BodyOK(items, pushed) /\ \A k \in 1 .. L : ItemOK(items[k])
  BY DEF ItemsOK, L
<1>5. \A k \in 1 .. Len(g) : ResultOK(g[k], pushed)
  <2>1. ResultOK(e, pushed)
    BY DEF ResultOK
  <2>2. \A k \in 1 .. L : ResultOK(items[k], pushed)
    BY <1>4 DEF BodyOK, L
  <2>3. QED
    BY <1>1, <1>2, <2>1, <2>2
<1>6. ASSUME NEW k \in 1 .. Len(g), NEW l \in 1 .. Len(g), k < l
      PROVE  InOrder(g[k], g[l])
  <2>1. k \in 1 .. L /\ g[k] = items[k]
    BY <1>1, <1>2, <1>6
  <2>2. CASE l \in 1 .. L
    BY <1>1, <1>4, <1>6, <2>1, <2>2 DEF BodyOK, L
  <2>3. CASE l = L + 1
    <3>1. g[l] = e
      BY <1>1, <2>3
    <3>2. \A p \in items[k].parts : p # part /\ PartBefore(p, part)
      BY <2>1, BodySets DEF L
    <3>3. QED
      BY <2>1, <3>1, <3>2 DEF InOrder
  <2>4. QED
    BY <1>2, <2>2, <2>3
<1>7. ItemsOK(g, pushed)
  <2>1. \A k \in 1 .. Len(g) : ItemOK(g[k])
    BY <1>1, <1>2, <1>4
  <2>2. QED
    BY <1>1, <1>5, <1>6, <2>1 DEF ItemsOK, BodyOK
<1>8. /\ \A k \in 1 .. Len(g) : g[k] = e \/ \E j \in 1 .. Len(items) : g[k] = items[j]
      /\ \A j \in 1 .. Len(items) : \E k \in 1 .. Len(g) : g[k] = items[j]
      /\ \E k \in 1 .. Len(g) : g[k] = e
  BY <1>1, <1>2, <1>3 DEF L
<1>9. PartsOf(g) = PartsOf(items) \cup {part}
  <2>1. \A p \in PartsOf(g) : p \in PartsOf(items) \cup {part}
    <3> TAKE p \in PartsOf(g)
    <3>1. PICK k \in 1 .. Len(g) : p \in g[k].parts
      BY BodySets
    <3>2. CASE g[k] = e
      BY <3>1, <3>2
    <3>3. CASE \E j \in 1 .. Len(items) : g[k] = items[j]
      BY <3>1, <3>3, BodySets
    <3>4. QED
      BY <1>8, <3>1, <3>2, <3>3
  <2>2. \A p \in PartsOf(items) : p \in PartsOf(g)
    BY <1>8 DEF PartsOf
  <2>3. part \in PartsOf(g)
    BY <1>8, BodySets
  <2>4. QED
    BY <2>1, <2>2, <2>3
<1>10. ResultsOf(g) = ResultsOf(items)
  <2>1. \A r \in ResultsOf(g) : r \in ResultsOf(items)
    BY <1>8 DEF ResultsOf
  <2>2. \A r \in ResultsOf(items) : r \in ResultsOf(g)
    BY <1>8 DEF ResultsOf
  <2>3. QED
    BY <2>1, <2>2
<1>11. ToolIds(items) \subseteq ToolIds(g)
  <2>1. ASSUME NEW id \in ToolIds(items)
        PROVE  id \in ToolIds(g)
    <3>1. PICK j \in 1 .. Len(items) : items[j].what = "tools" /\ id \in items[j].ids
      BY BodySets
    <3>2. PICK k \in 1 .. Len(g) : g[k] = items[j]
      BY <1>8
    <3>3. QED
      BY <3>1, <3>2, BodySets
  <2>2. QED
    BY <2>1
<1>12. QED
  BY <1>7, <1>9, <1>10, <1>11 DEF ItemsGrow, g

\* The last element, of read-only calls, gets another.
LEMMA ItemWidened ==
  ASSUME NEW pushed, NEW items, ItemsOK(items, pushed), NEW part \in Nat \X (Nat \ {0}),
         \A p \in PartsOf(items) : p # part /\ PartBefore(p, part),
         items # <<>>, Last(items).what = "tools", NEW id
  PROVE  ItemsGrow(items,
                   [items EXCEPT ![Len(items)].parts = @ \cup {part},
                                 ![Len(items)].ids = @ \cup {id}], pushed, {part})
<1> DEFINE L == Len(items)
           old == items[L]
           new == [old EXCEPT !.parts = @ \cup {part}, !.ids = @ \cup {id}]
           g == [items EXCEPT ![L].parts = @ \cup {part}, ![L].ids = @ \cup {id}]
<1>1. L \in Nat /\ DOMAIN items = 1 .. L /\ IsSeq(items)
  BY IsSeqOf DEF ItemsOK, BodyOK, IsSeq
<1>2. L # 0
  <2>1. L = 0 => items = <<>>
    BY <1>1, ShortSeqs, SameSeq
  <2>2. QED
    BY <2>1
<1>3. L \in 1 .. L
  BY <1>1, <1>2
<1>4. BodyOK(items, pushed) /\ \A k \in 1 .. L : ItemOK(items[k])
  BY DEF ItemsOK
<1>5. old.what = "tools" /\ ItemOK(old) /\ old.result = None
  <2>1. Last(items) = old
    BY DEF Last
  <2>2. ItemOK(old)
    BY <1>3, <1>4
  <2>3. old.what = "tools"
    BY <2>1
  <2> HIDE DEF old
  <2>4. QED
    BY <2>2, <2>3 DEF ItemOK
<1>6. /\ new.what = "tools" /\ new.parts = old.parts \cup {part}
      /\ new.ids = old.ids \cup {id} /\ new.result = None
      /\ new \in [what : {new.what}, parts : {new.parts}, ids : {new.ids},
                  result : {new.result}, raw : {new.raw}]
  <2> HIDE DEF old
  <2> QED BY <1>5 DEF ItemOK
<1>7. /\ DOMAIN g = 1 .. L /\ g[L] = new
      /\ \A k \in 1 .. L : k # L => g[k] = items[k]
  <2>1. /\ DOMAIN g = 1 .. L
        /\ \A k \in 1 .. L : k # L => g[k] = items[k]
    BY <1>1
  <2>2. g[L] = new
    BY <1>1, <1>3
  <2>3. QED
    BY <2>1, <2>2
<1>8. g \in [1 .. L -> {g[k] : k \in 1 .. L}]
  <2>1. g = [k \in 1 .. L |-> g[k]]
    BY <1>1
  <2> HIDE DEF g
  <2>2. QED
    BY <2>1
<1> HIDE DEF g, new, L
<1>9. IsSeq(g) /\ Len(g) = L
  BY <1>1, <1>8, FunctionIsSeq
<1>10. ItemOK(new)
  <2>1. new.parts \subseteq Nat \X (Nat \ {0})
    BY <1>5, <1>6 DEF ItemOK
  <2>2. QED
    BY <1>6, <2>1 DEF ItemOK
<1> HIDE DEF old
<1>11. \A k \in 1 .. Len(g) : ResultOK(g[k], pushed)
  <2>1. ResultOK(new, pushed)
    BY <1>6 DEF ResultOK
  <2>2. \A k \in 1 .. L : ResultOK(items[k], pushed)
    BY <1>4 DEF BodyOK, L
  <2>3. QED
    BY <1>7, <1>9, <2>1, <2>2
<1>12. ASSUME NEW k \in 1 .. Len(g), NEW l \in 1 .. Len(g), k < l
       PROVE  InOrder(g[k], g[l])
  <2>1. k \in 1 .. L /\ k # L /\ g[k] = items[k]
    BY <1>1, <1>7, <1>9, <1>12
  <2>2. CASE l # L
    BY <1>4, <1>7, <1>9, <1>12, <2>1, <2>2 DEF BodyOK, L
  <2>3. CASE l = L
    <3>1. g[l] = new
      BY <1>7, <2>3
    <3>2. \A p \in items[k].parts : p # part /\ PartBefore(p, part)
      BY <2>1, BodySets DEF L
    <3>3. InOrder(items[k], old)
      BY <1>3, <1>4, <1>12, <2>1, <2>3 DEF BodyOK, L, old
    <3>4. QED
      BY <1>5, <1>6, <2>1, <3>1, <3>2, <3>3 DEF InOrder
  <2>4. QED
    BY <2>2, <2>3
<1>13. ItemsOK(g, pushed)
  <2>1. \A k \in 1 .. Len(g) : ItemOK(g[k])
    BY <1>4, <1>7, <1>9, <1>10
  <2>2. QED
    BY <1>9, <1>11, <1>12, <2>1 DEF ItemsOK, BodyOK
<1>14. \A k \in 1 .. L : \/ g[k] = items[k] /\ k # L
                         \/ g[k] = new /\ items[k] = old /\ k = L
  BY <1>7 DEF old
<1>15. PartsOf(g) = PartsOf(items) \cup {part}
  <2>1. \A k \in 1 .. L : g[k].parts = items[k].parts \cup (IF k = L THEN {part} ELSE {})
    BY <1>6, <1>14
  <2>2. \A p : p \in PartsOf(g) <=> \E k \in 1 .. L : p \in g[k].parts
    BY <1>9, BodySets
  <2>3. \A p : p \in PartsOf(items) <=> \E k \in 1 .. L : p \in items[k].parts
    BY BodySets DEF L
  <2>4. \A p : p \in PartsOf(g) <=> p \in PartsOf(items) \/ p = part
    BY <1>3, <2>1, <2>2, <2>3
  <2>5. QED
    BY <2>4
<1>16. ResultsOf(g) = ResultsOf(items)
  <2>1. \A k \in 1 .. L : g[k].result = items[k].result
    BY <1>5, <1>6, <1>14
  <2>2. QED
    BY <1>9, <2>1 DEF ResultsOf, L
<1>17. ToolIds(items) \subseteq ToolIds(g)
  <2>1. \A k \in 1 .. L : items[k].what = "tools" =>
          g[k].what = "tools" /\ items[k].ids \subseteq g[k].ids
    BY <1>6, <1>14
  <2>2. QED
    BY <1>9, <2>1, BodySets DEF L
<1>18. QED
  BY <1>13, <1>15, <1>16, <1>17 DEF ItemsGrow, g, L

LEMMA AddCallGrows ==
  ASSUME NEW pushed, NEW items, ItemsOK(items, pushed), NEW part \in Nat \X (Nat \ {0}),
         \A p \in PartsOf(items) : p # part /\ PartBefore(p, part), NEW call
  PROVE  ItemsGrow(items, AddCall(items, part, call), pushed, {part})
<1>1. ASSUME NEW what \in {"bash", "tools"}
      PROVE  ItemsGrow(items, Append(items, Element(what, {part}, {call.id}, FALSE)),
                       pushed, {part})
  <2> DEFINE e == Element(what, {part}, {call.id}, FALSE)
  <2>1. e.parts = {part} /\ e.result = None /\ e.what = what /\ e.ids = {call.id}
    BY DEF Element
  <2>2. e \in [what : {e.what}, parts : {e.parts}, ids : {e.ids},
               result : {e.result}, raw : {e.raw}]
    BY DEF Element
  <2> HIDE DEF e
  <2>3. ItemOK(e)
    BY <2>1, <2>2 DEF ItemOK
  <2>4. ItemsGrow(items, Append(items, e), pushed, {part})
    BY <2>1, <2>3, ItemAdded
  <2>5. QED
    BY <2>4 DEF e
<1>2. CASE call.tool = "bash"
  <2>1. AddCall(items, part, call) = Append(items, Element("bash", {part}, {call.id}, FALSE))
    BY <1>2 DEF AddCall
  <2>2. QED
    BY <1>1, <2>1, Zenon
<1>3. CASE call.tool # "bash" /\ (items = <<>> \/ Last(items).what # "tools")
  <2>1. AddCall(items, part, call) = Append(items, Element("tools", {part}, {call.id}, FALSE))
    BY <1>3, Zenon DEF AddCall
  <2>2. QED
    BY <1>1, <2>1, Zenon
<1>4. CASE call.tool # "bash" /\ items # <<>> /\ Last(items).what = "tools"
  <2>1. AddCall(items, part, call) =
          [items EXCEPT ![Len(items)].parts = @ \cup {part},
                        ![Len(items)].ids = @ \cup {call.id}]
    BY <1>4, Zenon DEF AddCall
  <2>2. ItemsGrow(items, [items EXCEPT ![Len(items)].parts = @ \cup {part},
                                       ![Len(items)].ids = @ \cup {call.id}],
                  pushed, {part})
    BY <1>4, ItemWidened
  <2>3. QED
    BY <2>1, <2>2, Zenon
<1>5. QED
  BY <1>2, <1>3, <1>4

\* AddCalls obeys its equation.
CallStep(n, m, i, items) ==
  IF i \in BlocksOf(m, "toolCall") THEN AddCall(items, <<n, i>>, m.blocks[i]) ELSE items
CallTable(items, n, m, k, added) ==
  added = [i \in 0 .. k |-> IF i = 0 THEN items ELSE CallStep(n, m, i, added[i - 1])]

LEMMA CallTableExists ==
  ASSUME NEW items, NEW n, NEW m, NEW k \in Nat
  PROVE  \E added : CallTable(items, n, m, k, added)
<1> DEFINE Bad == {j \in Nat : ~ \E added : CallTable(items, n, m, j, added)}
<1>1. \E added : CallTable(items, n, m, 0, added)
  <2>1. CallTable(items, n, m, 0, [i \in 0 .. 0 |-> items])
    BY DEF CallTable
  <2> QED BY <2>1
<1>2. ASSUME NEW j \in Nat, j # 0, NEW added, CallTable(items, n, m, j - 1, added)
      PROVE  \E more : CallTable(items, n, m, j, more)
  <2> DEFINE more == [i \in 0 .. j |->
                        IF i = j THEN CallStep(n, m, j, added[j - 1]) ELSE added[i]]
  <2>1. \A i \in 0 .. j - 1 : added[i] =
            IF i = 0 THEN items ELSE CallStep(n, m, i, added[i - 1])
    BY <1>2 DEF CallTable
  <2>2. more[0] = items /\ \A i \in 1 .. j : more[i] = CallStep(n, m, i, more[i - 1])
    <3>1. more[0] = items /\ more[j] = CallStep(n, m, j, more[j - 1])
      BY <1>2, <2>1
    <3>2. \A i \in 1 .. j - 1 : more[i] = added[i] /\ more[i - 1] = added[i - 1]
      BY <1>2
    <3>3. \A i \in 1 .. j - 1 : added[i] = CallStep(n, m, i, added[i - 1])
      BY <1>2, <2>1
    <3>4. \A i \in 1 .. j : i = j \/ i \in 1 .. j - 1
      BY <1>2
    <3> HIDE DEF more
    <3>5. QED
      BY <3>1, <3>2, <3>3, <3>4
  <2>3. more = [i \in 0 .. j |-> IF i = 0 THEN items ELSE CallStep(n, m, i, more[i - 1])]
    <3> HIDE DEF more
    <3>1. \A i \in 0 .. j : more[i] = IF i = 0 THEN items ELSE CallStep(n, m, i, more[i - 1])
      BY <2>2
    <3>2. more = [i \in 0 .. j |-> more[i]]
      BY DEF more
    <3> QED BY <3>1, <3>2, Zenon
  <2>4. CallTable(items, n, m, j, more)
    BY <2>3, Zenon DEF CallTable
  <2> QED BY <2>4
<1>3. CASE Bad = {}
  BY <1>3
<1>4. CASE Bad # {}
  <2>1. PICK j \in Bad : \A i \in Bad : j <= i
    <3> HIDE DEF Bad
    <3>1. Bad \subseteq Nat
      BY DEF Bad
    <3> QED BY <1>4, <3>1, LeastOf
  <2>2. j \in Nat /\ j # 0
    BY <1>1, <2>1
  <2>3. j - 1 \in Nat /\ j - 1 \notin Bad
    BY <2>1, <2>2
  <2>4. QED
    BY <1>2, <2>1, <2>2, <2>3
<1>5. QED
  BY <1>3, <1>4

LEMMA AddCallsSteps ==
  ASSUME NEW items, NEW n, NEW m, IsSeq(m.blocks)
  PROVE  \E added :
           /\ added[0] = items
           /\ \A i \in 1 .. Len(m.blocks) : added[i] = CallStep(n, m, i, added[i - 1])
           /\ AddCalls(items, n, m) = added[Len(m.blocks)]
<1>1. Len(m.blocks) \in Nat
  BY IsSeqOf DEF IsSeq
<1> DEFINE added == CHOOSE added : CallTable(items, n, m, Len(m.blocks), added)
<1>2. CallTable(items, n, m, Len(m.blocks), added)
  BY <1>1, CallTableExists
<1>3. AddCalls(items, n, m) = added[Len(m.blocks)]
  BY DEF AddCalls, CallTable, CallStep
<1> HIDE DEF added
<1>4. /\ added[0] = items
      /\ \A i \in 1 .. Len(m.blocks) : added[i] = CallStep(n, m, i, added[i - 1])
  <2>1. \A i \in 0 .. Len(m.blocks) :
          added[i] = IF i = 0 THEN items ELSE CallStep(n, m, i, added[i - 1])
    BY <1>2, Zenon DEF CallTable
  <2>2. 0 \in 0 .. Len(m.blocks) /\ \A i \in 1 .. Len(m.blocks) :
          i # 0 /\ i \in 0 .. Len(m.blocks)
    BY <1>1
  <2>3. QED
    BY <2>1, <2>2, Zenon
<1>5. QED
  BY <1>3, <1>4

LEMMA AddCallsGrow ==
  ASSUME NEW pushed, NEW items, ItemsOK(items, pushed), NEW n \in Nat,
         \A p \in PartsOf(items) : p[1] \in Nat /\ p[1] < n,
         NEW m, IsSeq(m.blocks)
  PROVE  ItemsGrow(items, AddCalls(items, n, m), pushed, {n} \X BlocksOf(m, "toolCall"))
<1>0. PICK last : last = AddCalls(items, n, m)
  OBVIOUS
<1>1. PICK a : /\ a[0] = items
               /\ \A i \in 1 .. Len(m.blocks) : a[i] = CallStep(n, m, i, a[i - 1])
               /\ AddCalls(items, n, m) = a[Len(m.blocks)]
  BY <1>0, AddCallsSteps
<1> DEFINE calls == BlocksOf(m, "toolCall")
           L == Len(m.blocks)
           Upto(k) == {n} \X {i \in calls : i <= k}
<1>2. L \in Nat
  BY IsSeqOf DEF IsSeq
<1>3. \A i \in calls : i \in Nat /\ 1 <= i /\ i <= L
  BY <1>2 DEF BlocksOf
<1> DEFINE Good(k) == ItemsGrow(items, a[k], pushed, Upto(k))
           Bad == {k \in 0 .. L : ~Good(k)}
<1>4. Good(0)
  <2>1. {i \in calls : i <= 0} = {}
    BY <1>3
  <2>2. Upto(0) = {}
    BY <2>1
  <2> HIDE DEF Upto
  <2>3. QED
    BY <1>1, <2>2 DEF ItemsGrow
<1>5. ASSUME NEW k \in 1 .. L, Good(k - 1)
      PROVE  Good(k)
  <2>1. CASE k \notin calls
    <3>1. a[k] = a[k - 1]
      BY <1>1, <2>1 DEF CallStep
    <3>2. \A i \in calls : i <= k <=> i <= k - 1
      BY <1>3, <2>1
    <3>3. Upto(k) = Upto(k - 1)
      BY <3>2
    <3> HIDE DEF Upto
    <3>4. QED
      BY <1>5, <3>1, <3>3
  <2>2. CASE k \in calls
    <3> DEFINE part == <<n, k>>
    <3>1. a[k] = AddCall(a[k - 1], part, m.blocks[k])
      BY <1>1, <2>2 DEF CallStep
    <3>2. part \in Nat \X (Nat \ {0}) /\ part[1] = n /\ part[2] = k
      BY <1>2
    <3>3. Upto(k) = Upto(k - 1) \cup {part}
      <4>1. \A i \in calls : i <= k <=> i <= k - 1 \/ i = k
        BY <1>2, <1>3
      <4>2. {i \in calls : i <= k} = {i \in calls : i <= k - 1} \cup {k}
        BY <2>2, <4>1
      <4>3. QED
        BY <4>2
    <3>4. \A p \in Upto(k - 1) : p[1] = n /\ p[2] \in Nat /\ p[2] < k
      BY <1>2, <1>3
    <3> HIDE DEF Upto, part
    <3>5. ItemsOK(a[k - 1], pushed) /\ PartsOf(a[k - 1]) = PartsOf(items) \cup Upto(k - 1)
      BY <1>5 DEF ItemsGrow
    <3>6. \A p \in PartsOf(a[k - 1]) : p # part /\ PartBefore(p, part)
      <4> SUFFICES ASSUME NEW p \in PartsOf(a[k - 1])
                   PROVE  p # part /\ PartBefore(p, part)
        OBVIOUS
      <4>1. CASE p \in PartsOf(items)
        BY <3>2, <4>1 DEF PartBefore
      <4>2. CASE p \in Upto(k - 1)
        <5>1. k \in Nat
          OBVIOUS
        <5>2. QED
          BY <3>2, <3>4, <4>2, <5>1 DEF PartBefore
      <4>3. QED
        BY <3>5, <4>1, <4>2
    <3>7. ItemsGrow(a[k - 1], AddCall(a[k - 1], part, m.blocks[k]), pushed, {part})
      BY <3>2, <3>5, <3>6, AddCallGrows
    <3>8. ItemsGrow(a[k - 1], a[k], pushed, {part})
      BY <3>1, <3>7
    <3>9. QED
      BY <1>5, <3>3, <3>8 DEF ItemsGrow
  <2>3. QED
    BY <2>1, <2>2
<1> HIDE DEF Good
<1>6. ASSUME NEW k \in Bad, \A j \in Bad : k <= j
      PROVE  FALSE
  <2>1. k # 0 /\ k \in 1 .. L /\ k - 1 \in 0 .. L /\ k - 1 \notin Bad
    BY <1>2, <1>4, <1>6
  <2>2. QED
    BY <1>5, <1>6, <2>1
<1>7. Bad = {}
  <2>1. Bad \subseteq Nat
    BY <1>2
  <2> HIDE DEF Bad
  <2> QED BY <1>6, <2>1, LeastOf
<1>8. Good(L)
  BY <1>2, <1>7
<1>9. Upto(L) = {n} \X calls
  BY <1>3
<1>10. QED
  <2> HIDE DEF Upto
  <2> QED BY <1>1, <1>8, <1>9 DEF Good

LEMMA BodiesAre ==
  ASSUME NEW f, IsFormatter(f)
  PROVE  /\ Len(f.printed) \in Nat /\ Len(f.printed) + 1 \in Nat \ {0}
         /\ Len(f.pushed) \in Nat /\ Len(f.pushed) + 1 \in Nat
         /\ \A i \in 1 .. Len(f.printed) : BodiesOf(f)[i] = f.printed[i].body
         /\ BodiesOf(f)[Len(f.printed) + 1] = RunBody(f.run)
<1>1. Len(f.printed) \in Nat /\ Len(f.pushed) \in Nat
  BY IsSeqOf DEF IsFormatter, IsSeq
<1>2. QED
  BY <1>1 DEF BodiesOf

\* A block more, of a formatter without an open run.
LEMMA BlockAdded ==
  ASSUME NEW f, IsFormatter(f), NEW g, IsFormatter(g), NEW block,
         g.printed = Append(f.printed, block), g.run = EmptyRun
  PROVE  /\ Len(g.printed) = Len(f.printed) + 1
         /\ \A i \in 1 .. Len(f.printed) : BodiesOf(g)[i] = BodiesOf(f)[i]
         /\ BodiesOf(g)[Len(f.printed) + 1] = block.body
         /\ BodiesOf(g)[Len(g.printed) + 1] = <<>>
<1> DEFINE n == Len(f.printed)
<1>1. /\ n \in Nat /\ Len(g.printed) = n + 1
      /\ \A i \in 1 .. n : g.printed[i] = f.printed[i]
      /\ g.printed[n + 1] = block
  BY AppendAny DEF IsFormatter
<1>2. /\ \A i \in 1 .. n : BodiesOf(f)[i] = f.printed[i].body
      /\ \A i \in 1 .. Len(g.printed) : BodiesOf(g)[i] = g.printed[i].body
      /\ BodiesOf(g)[Len(g.printed) + 1] = RunBody(EmptyRun)
  BY BodiesAre
<1>3. RunBody(EmptyRun) = <<>>
  BY EmptyRunIs
<1>4. \A i \in 1 .. n : i \in 1 .. Len(g.printed)
  BY <1>1
<1>5. n + 1 \in 1 .. Len(g.printed)
  BY <1>1
<1> HIDE DEF n
<1>6. QED
  BY <1>1, <1>2, <1>3, <1>4, <1>5 DEF n

LEMMA FlushRunIs ==
  ASSUME NEW f, IsFormatter(f), RunBody(f.run) = <<>> => f.run = EmptyRun
  PROVE  LET g == FlushRun(f) IN
         /\ IsFormatter(g) /\ g.pushed = f.pushed /\ g.toolResults = f.toolResults
         /\ g.run = EmptyRun
         /\ \/ g.printed = f.printed /\ f.run = EmptyRun
            \/ \E block : g.printed = Append(f.printed, block) /\ block.body = RunBody(f.run)
<1> DEFINE c == [f EXCEPT !.run = EmptyRun]
           g == FlushRun(f)
           body == RunBody(f.run)
           emit == EmitHeader(c, "assistant")
           block == [header |-> IF emit THEN "assistant" ELSE None,
                     speaker |-> "assistant", body |-> body]
<1>1. CASE f.run = EmptyRun
  BY <1>1 DEF FlushRun
<1>2. CASE f.run # EmptyRun
  <2>1. /\ IsFormatter(c) /\ c.run = EmptyRun /\ c.pushed = f.pushed
        /\ c.toolResults = f.toolResults /\ c.printed = f.printed
    BY DEF IsFormatter
  <2>2. g = PrintBlock(c, "assistant", body)
    BY <1>2 DEF FlushRun
  <2>3. block.body = body
    OBVIOUS
  <2> HIDE DEF c, g
  <2>4. /\ IsFormatter(g)
        /\ g.toolResults = c.toolResults /\ g.pushed = c.pushed /\ g.run = c.run
        /\ g.printed = (IF ~emit /\ body = <<>> THEN c.printed ELSE Append(c.printed, block))
    BY <2>1, <2>2, PrintBlockFields
  <2>5. g.printed = Append(f.printed, block)
    BY <1>2, <2>1, <2>4
  <2> HIDE DEF block, body
  <2>6. QED
    BY <2>1, <2>3, <2>4, <2>5 DEF g, body
<1>3. QED
  BY <1>1, <1>2

LEMMA BodiesFlushed ==
  ASSUME NEW f, IsFormatter(f), RunBody(f.run) = <<>> => f.run = EmptyRun,
         NEW pushed, NEW toolResults,
         BodiesOK(pushed, toolResults, BodiesOf(f), Len(f.printed) + 1)
  PROVE  BodiesOK(pushed, toolResults, BodiesOf(FlushRun(f)), Len(FlushRun(f).printed) + 1)
<1> DEFINE g == FlushRun(f)
           n == Len(f.printed)
<1>1. /\ IsFormatter(g) /\ g.run = EmptyRun
      /\ \/ g.printed = f.printed /\ f.run = EmptyRun
         \/ \E block : g.printed = Append(f.printed, block) /\ block.body = RunBody(f.run)
  BY FlushRunIs
<1> HIDE DEF g
<1>2. CASE g.printed = f.printed /\ f.run = EmptyRun
  <2>1. BodiesOf(g) = BodiesOf(f)
    BY <1>1, <1>2 DEF BodiesOf
  <2>2. QED
    BY <1>2, <2>1 DEF g
<1>3. ASSUME NEW block, g.printed = Append(f.printed, block), block.body = RunBody(f.run)
      PROVE  BodiesOK(pushed, toolResults, BodiesOf(g), Len(g.printed) + 1)
  <2>1. /\ Len(g.printed) = n + 1
        /\ \A i \in 1 .. n : BodiesOf(g)[i] = BodiesOf(f)[i]
        /\ BodiesOf(g)[n + 1] = block.body
        /\ BodiesOf(g)[Len(g.printed) + 1] = <<>>
    BY <1>1, <1>3, BlockAdded
  <2>2. BodiesOf(f)[n + 1] = RunBody(f.run) /\ n \in Nat /\ n + 1 \in Nat
    BY BodiesAre
  <2>3. \A i \in 1 .. n + 1 : BodiesOf(g)[i] = BodiesOf(f)[i]
    <3>1. \A i \in 1 .. n + 1 : i \in 1 .. n \/ i = n + 1
      BY <2>2
    <3>2. QED
      BY <1>3, <2>1, <2>2, <3>1
  <2>4. BodiesOf(g)[(n + 1) + 1] = <<>>
    BY <2>1
  <2>5. BodiesOK(pushed, toolResults, BodiesOf(g), (n + 1) + 1)
    BY <2>2, <2>3, <2>4, EmptyBodyAdded
  <2>6. QED
    BY <2>1, <2>5
<1>4. QED
  BY <1>1, <1>2, <1>3 DEF g

LEMMA FlushRunParts ==
  ASSUME NEW f, PartsInv(f)
  PROVE  PartsInv(FlushRun(f))
<1>1. RunBody(f.run) = <<>> => f.run = EmptyRun
  BY RunBodyIs DEF PartsInv
<1>2. /\ IsFormatter(FlushRun(f)) /\ FlushRun(f).pushed = f.pushed
      /\ FlushRun(f).toolResults = f.toolResults /\ FlushRun(f).run = EmptyRun
  BY <1>1, FlushRunIs DEF PartsInv
<1>3. BodiesOK(f.pushed, f.toolResults, BodiesOf(FlushRun(f)), Len(FlushRun(f).printed) + 1)
  BY <1>1, BodiesFlushed DEF PartsInv
<1>4. RunOK(EmptyRun, f.pushed)
  BY EmptyRunIs
<1>5. QED
  BY <1>2, <1>3, <1>4 DEF PartsInv

Seen(f, record) == [f EXCEPT !.pushed = Append(@, record)]

LEMMA SeenIs ==
  ASSUME NEW f, PartsInv(f), NEW record, NEW seen,
         seen = Seen(f, record)
  PROVE  /\ IsFormatter(seen) /\ seen.pushed = Append(f.pushed, record)
         /\ seen.printed = f.printed /\ seen.run = f.run /\ seen.toolResults = f.toolResults
         /\ BodiesOf(seen) = BodiesOf(f) /\ RunOK(f.run, seen.pushed)
<1>1. /\ seen.printed = f.printed /\ seen.run = f.run /\ seen.toolResults = f.toolResults
      /\ seen.lastHeader = f.lastHeader /\ seen.forceNextHeader = f.forceNextHeader
      /\ seen.pushed = Append(f.pushed, record)
      /\ seen \in [toolResults : {seen.toolResults}, pushed : {seen.pushed},
                   run : {seen.run}, lastHeader : {seen.lastHeader},
                   forceNextHeader : {seen.forceNextHeader}, printed : {seen.printed}]
  BY DEF PartsInv, IsFormatter, Seen
<1>2. IsSeq(f.pushed) /\ IsSeq(Append(f.pushed, record))
  BY AppendAny DEF PartsInv, IsFormatter
<1>3. IsFormatter(seen)
  BY <1>1, <1>2 DEF PartsInv, IsFormatter
<1>4. BodiesOf(seen) = BodiesOf(f)
  BY <1>1 DEF BodiesOf
<1>5. RunOK(f.run, seen.pushed)
  BY <1>1, <1>2, RunGrown DEF PartsInv
<1>6. QED
  BY <1>1, <1>3, <1>4, <1>5

RecordOK(record) == record.type = "message" => IsSeq(record.blocks)

\* A record that is printed as a block of its own.
LEMMA PrintParts ==
  ASSUME NEW f, PartsInv(f), NEW record, RecordOK(record), NEW seen,
         seen = Seen(f, record),
         NEW n, n = Len(f.pushed) + 1, NEW rendered, rendered = Rendered(f, n, record)
  PROVE  PartsInv(PrintBlock(FlushRun(seen), rendered.header, rendered.body))
<1> DEFINE h == FlushRun(seen)
           M == Len(h.printed) + 1
           header == rendered.header
           body == rendered.body
           g == PrintBlock(h, header, body)
           emit == EmitHeader(h, header)
           block == [header |-> IF emit THEN header ELSE None,
                     speaker |-> header, body |-> body]
           more == Append(f.pushed, record)
<1>1. /\ IsFormatter(seen) /\ seen.pushed = more
      /\ seen.printed = f.printed /\ seen.run = f.run /\ seen.toolResults = f.toolResults
      /\ BodiesOf(seen) = BodiesOf(f)
  BY SeenIs
<1>2. RunBody(seen.run) = <<>> => seen.run = EmptyRun
  BY <1>1, RunBodyIs DEF PartsInv
<1>3. /\ IsFormatter(h) /\ h.pushed = more /\ h.toolResults = f.toolResults
      /\ h.run = EmptyRun
  BY <1>1, <1>2, FlushRunIs
<1>4. BodiesOK(f.pushed, f.toolResults, BodiesOf(h), M)
  <2>1. BodiesOK(f.pushed, f.toolResults, BodiesOf(seen), Len(seen.printed) + 1)
    BY <1>1 DEF PartsInv
  <2>2. QED
    BY <1>1, <1>2, <2>1, BodiesFlushed
<1>5. n \in Nat /\ IsSeq(f.pushed)
  BY BodiesAre DEF PartsInv, IsFormatter
<1>6. /\ BodyOK(body, more) /\ ResultsOf(body) = {} /\ PartsOf(body) \subseteq {n} \X Nat
      /\ \A part \in VisibleParts(n, record) :
           part \in PartsOf(body) \/ (ToolResult(record) /\ f.toolResults = "none")
  <2>1. PICK hi \in Nat : ShowsFrom(body, n, 0, hi)
    BY <1>5, RenderedShows DEF RecordOK
  <2>2. \A part \in VisibleParts(n, record) :
           part \in PartsOf(body) \/ (ToolResult(record) /\ f.toolResults = "none")
    BY <1>5, RenderedShows DEF RecordOK
  <2> HIDE DEF body, more
  <2>3. 0 \in Nat
    OBVIOUS
  <2>4. QED
    BY <1>5, <2>1, <2>2, <2>3, ShowsBody
<1>7. block.body = body
  OBVIOUS
<1>8. more[n] = record
  BY <1>5, AppendAny
<1> HIDE DEF h, M, body, header
<1>9. /\ IsFormatter(g)
      /\ g.toolResults = h.toolResults /\ g.pushed = h.pushed /\ g.run = h.run
      /\ g.printed = (IF ~emit /\ body = <<>> THEN h.printed ELSE Append(h.printed, block))
  BY <1>3, PrintBlockFields
<1> HIDE DEF g, more, block, emit
<1>10. /\ M \in Nat \ {0} /\ M - 1 = Len(h.printed) /\ BodiesOf(h)[M] = <<>>
       /\ M - 1 \in Nat
  <2>1. BodiesOf(h)[M] = RunBody(EmptyRun)
    BY <1>3, BodiesAre DEF M
  <2>2. Len(h.printed) \in Nat
    BY <1>3, BodiesAre
  <2>3. QED
    BY <2>1, <2>2, EmptyRunIs DEF M
<1>11. ASSUME NEW C, \A i \in 1 .. M - 1 : C[i] = BodiesOf(h)[i], C[M] = body
       PROVE  BodiesOK(more, f.toolResults, C, M)
  <2>1. PartsOf(<<>>) = {} /\ ResultsOf(<<>>) = {} /\ ToolIds(<<>>) = {}
    BY EmptyBody
  <2>2. Placed(more, f.toolResults, C, M, n)
    <3>1. M \in 1 .. M
      BY <1>10
    <3>2. QED
      BY <1>6, <1>8, <1>11, <3>1 DEF Placed, Accounted
  <2>3. QED
    <3> DEFINE B == BodiesOf(h)
               last == C[M]
    <3>1. B[M] = <<>> /\ last = body
      BY <1>10, <1>11
    <3>2. /\ PartsOf(B[M]) \subseteq PartsOf(C[M])
          /\ PartsOf(C[M]) \subseteq PartsOf(B[M]) \cup ({n} \X Nat)
          /\ ToolIds(B[M]) \subseteq ToolIds(C[M])
          /\ ResultsOf(C[M]) \subseteq ResultsOf(B[M]) \cup {n}
          /\ n \notin ResultsOf(C[M])
          /\ ResultsOf(B[M]) \subseteq ResultsOf(C[M])
          /\ BodyOK(C[M], more)
      BY <1>6, <2>1, <3>1
    <3>3. BodiesOK(f.pushed, f.toolResults, B, M)
      BY <1>4
    <3> HIDE DEF B
    <3>4. \A i \in 1 .. M - 1 : C[i] = B[i]
      BY <1>11 DEF B
    <3>5. QED
      BY <1>5, <1>10, <2>2, <3>2, <3>3, <3>4, LastBodyGrows DEF more
<1>12. BodiesOK(more, f.toolResults, BodiesOf(g), Len(g.printed) + 1)
  <2>1. CASE ~emit /\ body = <<>>
    <3>1. BodiesOf(g) = BodiesOf(h) /\ Len(g.printed) + 1 = M
      BY <1>9, <2>1 DEF BodiesOf, M
    <3>2. QED
      BY <1>10, <1>11, <2>1, <3>1
  <2>2. CASE ~(~emit /\ body = <<>>)
    <3>1. /\ Len(g.printed) = M
          /\ \A i \in 1 .. M - 1 : BodiesOf(g)[i] = BodiesOf(h)[i]
          /\ BodiesOf(g)[M] = body
          /\ BodiesOf(g)[M + 1] = <<>>
      <4>0. IsFormatter(h) /\ IsFormatter(g)
        BY <1>3, <1>9
      <4>1. PICK new : /\ g.printed = Append(h.printed, new) /\ g.run = EmptyRun
                       /\ new.body = body
        BY <1>3, <1>7, <1>9, <2>2
      <4>2. /\ Len(g.printed) = Len(h.printed) + 1
            /\ \A i \in 1 .. Len(h.printed) : BodiesOf(g)[i] = BodiesOf(h)[i]
            /\ BodiesOf(g)[Len(h.printed) + 1] = new.body
            /\ BodiesOf(g)[Len(g.printed) + 1] = <<>>
        BY <4>0, <4>1, BlockAdded
      <4>3. M = Len(h.printed) + 1
        BY DEF M
      <4>4. QED
        BY <1>10, <4>1, <4>2, <4>3
    <3>2. BodiesOK(more, f.toolResults, BodiesOf(g), M)
      BY <1>11, <3>1
    <3>3. BodiesOK(more, f.toolResults, BodiesOf(g), M + 1)
      <4>1. M \in Nat
        BY <1>10
      <4>2. QED
        BY <3>1, <3>2, <4>1, EmptyBodyAdded
    <3>4. QED
      BY <3>1, <3>3
  <2>3. QED
    BY <2>1, <2>2
<1>13. PartsInv(g)
  <2>1. RunOK(EmptyRun, more)
    BY EmptyRunIs
  <2>2. QED
    BY <1>3, <1>9, <1>12, <2>1 DEF PartsInv
<1>14. QED
  BY <1>13 DEF g, h, header, body

\* A run that has changed: what is said of the last body.
LEMMA RunParts ==
  ASSUME NEW f, PartsInv(f), NEW record, NEW n, n = Len(f.pushed) + 1,
         NEW g, IsFormatter(g), g.pushed = Append(f.pushed, record),
         g.printed = f.printed, g.toolResults = f.toolResults,
         RunOK(g.run, g.pushed),
         PartsOf(RunBody(f.run)) \subseteq PartsOf(RunBody(g.run)),
         PartsOf(RunBody(g.run)) \subseteq PartsOf(RunBody(f.run)) \cup ({n} \X Nat),
         ToolIds(RunBody(f.run)) \subseteq ToolIds(RunBody(g.run)),
         ResultsOf(RunBody(g.run)) \subseteq ResultsOf(RunBody(f.run)) \cup {n},
         n \in ResultsOf(RunBody(g.run)) =>
           PartsOf(RunBody(g.run)) = PartsOf(RunBody(f.run)),
         OneResult(g.pushed) => ResultsOf(RunBody(f.run)) \subseteq ResultsOf(RunBody(g.run)),
         \/ VisibleParts(n, record) \subseteq PartsOf(RunBody(g.run))
         \/ /\ ToolResult(record)
            /\ \/ f.toolResults = "none"
               \/ ~record.isError /\ record.id \in ToolIds(RunBody(g.run))
               \/ n \in ResultsOf(RunBody(g.run))
  PROVE  PartsInv(g)
<1> DEFINE N == Len(f.printed) + 1
           B == BodiesOf(f)
           C == BodiesOf(g)
<1>1. /\ N \in Nat \ {0} /\ N - 1 = Len(f.printed) /\ B[N] = RunBody(f.run)
      /\ \A i \in 1 .. N - 1 : B[i] = f.printed[i].body
  BY BodiesAre DEF PartsInv
<1>2. /\ C[N] = RunBody(g.run)
      /\ \A i \in 1 .. N - 1 : C[i] = f.printed[i].body
  BY <1>1, BodiesAre
<1>3. IsSeq(f.pushed) /\ n \in Nat
  BY BodiesAre DEF PartsInv, IsFormatter
<1>4. g.pushed[n] = record
  BY <1>3, AppendAny
<1>5. BodyOK(C[N], g.pushed)
  BY <1>2, RunBodyIs
<1>6. Placed(g.pushed, f.toolResults, C, N, n)
  <2>1. N \in 1 .. N
    BY <1>1
  <2> HIDE DEF N, C
  <2>2. QED
    BY <1>2, <1>4, <2>1 DEF Placed, Accounted
<1>7. BodiesOK(f.pushed, f.toolResults, B, N)
  BY DEF PartsInv
<1> HIDE DEF N, B, C
<1>8. \A i \in 1 .. N - 1 : C[i] = B[i]
  BY <1>1, <1>2
<1>9. /\ PartsOf(B[N]) \subseteq PartsOf(C[N])
      /\ PartsOf(C[N]) \subseteq PartsOf(B[N]) \cup ({n} \X Nat)
      /\ ToolIds(B[N]) \subseteq ToolIds(C[N])
      /\ ResultsOf(C[N]) \subseteq ResultsOf(B[N]) \cup {n}
      /\ n \in ResultsOf(C[N]) => PartsOf(C[N]) = PartsOf(B[N])
      /\ OneResult(g.pushed) => ResultsOf(B[N]) \subseteq ResultsOf(C[N])
  BY <1>1, <1>2
<1>10. BodiesOK(g.pushed, f.toolResults, C, N)
  BY <1>1, <1>3, <1>5, <1>6, <1>7, <1>8, <1>9, LastBodyGrows
<1>11. QED
  BY <1>10 DEF PartsInv, N, C

\* The parts of a run are of records that have been pushed.
LEMMA RunPushed ==
  ASSUME NEW f, PartsInv(f)
  PROVE  /\ \A p \in PartsOf(f.run.items) : p[1] \in Nat /\ p[1] < Len(f.pushed) + 1
         /\ ResultsOf(f.run.items) \subseteq 1 .. Len(f.pushed)
         /\ Len(f.pushed) \in Nat
<1>1. /\ Len(f.printed) + 1 \in 1 .. Len(f.printed) + 1 /\ Len(f.pushed) \in Nat
      /\ BodiesOf(f)[Len(f.printed) + 1] = RunBody(f.run)
  BY BodiesAre DEF PartsInv
<1>2. PartsOf(RunBody(f.run)) \subseteq (1 .. Len(f.pushed)) \X Nat
  BY <1>1 DEF PartsInv, BodiesOK
<1>3. PartsOf(f.run.items) \subseteq PartsOf(RunBody(f.run))
  BY RunBodyIs DEF PartsInv
<1>4. ResultsOf(f.run.items) \subseteq 1 .. Len(f.pushed)
  BY BodyResults DEF PartsInv, RunOK, ItemsOK
<1>5. QED
  BY <1>1, <1>2, <1>3, <1>4

LEMMA JoinParts ==
  ASSUME NEW f, PartsInv(f), NEW record, RecordOK(record), NEW seen,
         seen = Seen(f, record),
         NEW n, n = Len(f.pushed) + 1,
         record.type = "message", Coalescable(record)
  PROVE  PartsInv(Join(seen, n, record))
<1> DEFINE g == Join(seen, n, record)
           calls == BlocksOf(record, "toolCall")
           thought == IF HasThinking(record) THEN {<<n, 0>>} ELSE {}
           items == AddCalls(f.run.items, n, record)
<1>1. /\ IsFormatter(seen) /\ seen.pushed = Append(f.pushed, record)
      /\ seen.printed = f.printed /\ seen.run = f.run /\ seen.toolResults = f.toolResults
      /\ RunOK(f.run, seen.pushed)
  BY SeenIs
<1>2. /\ IsFormatter(g) /\ g.pushed = seen.pushed /\ g.printed = seen.printed
      /\ g.toolResults = seen.toolResults
      /\ g.run = [items |-> items, thinking |-> f.run.thinking \cup thought]
  <2> HIDE DEF items, thought
  <2>1. g = [seen EXCEPT !.run = [items |-> items,
                                  thinking |-> f.run.thinking \cup thought]]
    BY <1>1 DEF Join, items, thought
  <2> HIDE DEF g
  <2>2. QED
    BY <1>1, <2>1 DEF IsFormatter
<1>3. n \in Nat /\ \A p \in PartsOf(f.run.items) : p[1] \in Nat /\ p[1] < n
  BY RunPushed
<1>4. IsSeq(record.blocks)
  BY DEF RecordOK
<1>5. ItemsGrow(f.run.items, items, g.pushed, {n} \X calls)
  <2>1. ItemsOK(f.run.items, g.pushed)
    BY <1>1, <1>2 DEF RunOK
  <2> HIDE DEF g
  <2>2. QED
    BY <1>3, <1>4, <2>1, AddCallsGrow
<1>6. calls \subseteq Nat
  <2>1. Len(record.blocks) \in Nat
    BY <1>4, IsSeqOf DEF IsSeq
  <2>2. QED
    BY <2>1 DEF BlocksOf
<1>7. thought \subseteq Nat \X {0} /\ thought \subseteq {n} \X Nat
  BY <1>3
<1> HIDE DEF g, items, thought, calls
<1>8. /\ g.run.items = items /\ g.run.thinking = f.run.thinking \cup thought
      /\ g.run \in [items : {g.run.items}, thinking : {g.run.thinking}]
  BY <1>2
<1>9. RunOK(g.run, g.pushed)
  <2>1. f.run.thinking \subseteq Nat \X {0}
    BY <1>1 DEF RunOK
  <2>2. QED
    BY <1>5, <1>7, <1>8, <2>1 DEF RunOK, ItemsGrow
<1>10. /\ PartsOf(RunBody(f.run)) = f.run.thinking \cup PartsOf(f.run.items)
       /\ ResultsOf(RunBody(f.run)) = ResultsOf(f.run.items)
       /\ ToolIds(RunBody(f.run)) = ToolIds(f.run.items)
  BY <1>1, RunBodyIs
<1>11. /\ PartsOf(RunBody(g.run)) = (f.run.thinking \cup thought) \cup PartsOf(items)
       /\ ResultsOf(RunBody(g.run)) = ResultsOf(items)
       /\ ToolIds(RunBody(g.run)) = ToolIds(items)
  BY <1>8, <1>9, RunBodyIs
<1>12. /\ PartsOf(items) = PartsOf(f.run.items) \cup ({n} \X calls)
       /\ ResultsOf(items) = ResultsOf(f.run.items)
       /\ ToolIds(f.run.items) \subseteq ToolIds(items)
  BY <1>5 DEF ItemsGrow
<1>13. VisibleParts(n, record) \subseteq PartsOf(RunBody(g.run))
  <2> SUFFICES ASSUME NEW part \in VisibleParts(n, record)
               PROVE  part \in (f.run.thinking \cup thought) \cup PartsOf(items)
    BY <1>11
  <2>1. \/ \E i \in calls : part = <<n, i>>
        \/ part \in thought
    BY DEF VisibleParts, Coalescable, calls, thought
  <2>2. QED
    BY <1>12, <2>1
<1>14. {n} \X calls \subseteq {n} \X Nat
  BY <1>6
<1>15. n \notin ResultsOf(RunBody(g.run))
  BY <1>11, <1>12, <1>3, RunPushed
<1>16. /\ PartsOf(RunBody(f.run)) \subseteq PartsOf(RunBody(g.run))
       /\ PartsOf(RunBody(g.run)) \subseteq PartsOf(RunBody(f.run)) \cup ({n} \X Nat)
       /\ ToolIds(RunBody(f.run)) \subseteq ToolIds(RunBody(g.run))
       /\ ResultsOf(RunBody(g.run)) = ResultsOf(RunBody(f.run))
  BY <1>7, <1>10, <1>11, <1>12, <1>14
<1>17. /\ g.pushed = Append(f.pushed, record) /\ g.printed = f.printed
       /\ g.toolResults = f.toolResults /\ IsFormatter(g)
  BY <1>1, <1>2
<1>18. PartsInv(g)
  BY <1>9, <1>13, <1>15, <1>16, <1>17, RunParts
<1>19. QED
  BY <1>18 DEF g

WithResult(items, i, n) == [items EXCEPT ![i].result = n]

\* The line of a bash call gets the result of record n.
LEMMA ItemAnswered ==
  ASSUME NEW pushed, NEW items, ItemsOK(items, pushed), None \notin Nat,
         NEW i \in 1 .. Len(items), items[i].what = "bash",
         NEW n \in 1 .. Len(pushed), ToolResult(pushed[n]), pushed[n].id \in items[i].ids,
         n \notin ResultsOf(items), NEW g, g = WithResult(items, i, n)
  PROVE  /\ ItemsOK(g, pushed) /\ PartsOf(g) = PartsOf(items) /\ ToolIds(g) = ToolIds(items)
         /\ ResultsOf(g) \subseteq ResultsOf(items) \cup {n} /\ n \in ResultsOf(g)
         /\ items[i].result = None => ResultsOf(items) \subseteq ResultsOf(g)
<1> DEFINE L == Len(items)
           old == items[i]
           new == [old EXCEPT !.result = n]
<1>1. L \in Nat /\ DOMAIN items = 1 .. L /\ IsSeq(items)
  BY IsSeqOf DEF ItemsOK, BodyOK, IsSeq
<1>2. BodyOK(items, pushed) /\ \A k \in 1 .. L : ItemOK(items[k])
  BY DEF ItemsOK
<1>3. n \in Nat /\ n # None
  <2>1. n \in Int /\ 1 <= n
    OBVIOUS
  <2>2. QED
    BY <2>1
<1>4. ItemOK(old)
  BY <1>2
<1>5. /\ new.what = old.what /\ new.parts = old.parts /\ new.ids = old.ids
      /\ new.result = n
      /\ new \in [what : {new.what}, parts : {new.parts}, ids : {new.ids},
                  result : {new.result}, raw : {new.raw}]
  <2> HIDE DEF old
  <2> QED BY <1>4 DEF ItemOK
<1>6. /\ DOMAIN g = 1 .. L /\ g[i] = new
      /\ \A k \in 1 .. L : k # i => g[k] = items[k]
  BY <1>1 DEF WithResult
<1>7. g \in [1 .. L -> {g[k] : k \in 1 .. L}]
  <2>1. g = [k \in 1 .. L |-> g[k]]
    BY <1>1 DEF WithResult
  <2>2. QED
    BY <2>1
<1>8. IsSeq(g) /\ Len(g) = L
  BY <1>1, <1>7, FunctionIsSeq
<1>9. old.what = "bash" /\ pushed[n].id \in old.ids
  OBVIOUS
<1>10. ItemOK(new)
  <2> HIDE DEF old, new
  <2> QED BY <1>4, <1>5, <1>9 DEF ItemOK
<1>11. ResultOK(new, pushed)
  <2> HIDE DEF old, new
  <2> QED BY <1>5, <1>9 DEF ResultOK
<1> HIDE DEF new
<1>12. \A k \in 1 .. L : items[k].result # None => items[k].result # n
  BY BodySets
<1>13. \A k \in 1 .. L : \/ g[k] = items[k] /\ k # i
                         \/ g[k] = new /\ k = i
  BY <1>6
<1>14. \A k \in 1 .. Len(g) : ResultOK(g[k], pushed) /\ ItemOK(g[k])
  <2>1. \A k \in 1 .. L : ResultOK(items[k], pushed)
    BY <1>2 DEF BodyOK
  <2>2. QED
    BY <1>2, <1>8, <1>10, <1>11, <1>13, <2>1
<1>15. ASSUME NEW k \in 1 .. Len(g), NEW l \in 1 .. Len(g), k < l
       PROVE  InOrder(g[k], g[l])
  <2>1. InOrder(items[k], items[l])
    BY <1>2, <1>8, <1>15 DEF BodyOK
  <2>2. k \in 1 .. L /\ l \in 1 .. L /\ k # l
    BY <1>1, <1>8, <1>15
  <2>3. CASE k # i /\ l # i
    BY <1>6, <2>1, <2>2, <2>3
  <2>4. CASE k = i
    <3>1. g[k] = new /\ g[l] = items[l]
      BY <1>6, <2>2, <2>4
    <3>2. new.result # items[l].result
      BY <1>3, <1>5, <1>12, <2>2
    <3>3. QED
      BY <1>5, <2>1, <2>4, <3>1, <3>2 DEF InOrder
  <2>5. CASE l = i
    <3>1. g[k] = items[k] /\ g[l] = new
      BY <1>6, <2>2, <2>5
    <3>2. items[k].result # None => items[k].result # new.result
      BY <1>5, <1>12, <2>2
    <3>3. QED
      BY <1>5, <2>1, <2>5, <3>1, <3>2 DEF InOrder
  <2>6. QED
    BY <2>3, <2>4, <2>5
<1>16. ItemsOK(g, pushed)
  BY <1>8, <1>14, <1>15 DEF ItemsOK, BodyOK
<1>17. \A k \in 1 .. L : /\ g[k].parts = items[k].parts
                         /\ g[k].what = items[k].what /\ g[k].ids = items[k].ids
  BY <1>5, <1>13
<1>18. PartsOf(g) = PartsOf(items)
  BY <1>8, <1>17 DEF PartsOf
<1>19. ToolIds(g) = ToolIds(items)
  <2>1. \A id \in ToolIds(g) : id \in ToolIds(items)
    <3> SUFFICES ASSUME NEW id \in ToolIds(g) PROVE id \in ToolIds(items)
      OBVIOUS
    <3>1. PICK k \in 1 .. L : g[k].what = "tools" /\ id \in g[k].ids
      BY <1>8, BodySets
    <3>2. QED
      BY <1>17, <3>1, BodySets
  <2>2. \A id \in ToolIds(items) : id \in ToolIds(g)
    <3> SUFFICES ASSUME NEW id \in ToolIds(items) PROVE id \in ToolIds(g)
      OBVIOUS
    <3>1. PICK k \in 1 .. L : items[k].what = "tools" /\ id \in items[k].ids
      BY BodySets
    <3>2. k \in 1 .. Len(g) /\ g[k].what = "tools" /\ id \in g[k].ids
      BY <1>8, <1>17, <3>1
    <3>3. QED
      BY <3>2, BodySets
  <2>3. QED
    BY <2>1, <2>2
<1>20. ResultsOf(g) \subseteq ResultsOf(items) \cup {n}
  <2> SUFFICES ASSUME NEW r \in ResultsOf(g) PROVE r \in ResultsOf(items) \cup {n}
    OBVIOUS
  <2>1. r # None /\ \E k \in 1 .. Len(g) : r = g[k].result
    BY DEF ResultsOf
  <2>2. PICK k \in 1 .. L : r = g[k].result
    BY <1>8, <2>1
  <2>3. CASE g[k] = items[k]
    <3>1. r = items[k].result
      BY <2>2, <2>3
    <3>2. QED
      BY <2>1, <3>1, BodySets
  <2>4. CASE g[k] = new
    BY <1>5, <2>2, <2>4
  <2>5. QED
    BY <1>13, <2>3, <2>4
<1>21. n \in ResultsOf(g)
  BY <1>3, <1>5, <1>6, <1>8, BodySets
<1>22. ASSUME items[i].result = None, NEW r \in ResultsOf(items)
       PROVE  r \in ResultsOf(g)
  <2>1. PICK k \in 1 .. L : r = items[k].result /\ r # None
    BY BodySets
  <2>2. k # i
    BY <1>22, <2>1
  <2>3. g[k].result = r
    BY <1>6, <2>1, <2>2
  <2>4. QED
    BY <1>8, <2>1, <2>3, BodySets
<1>23. QED
  BY <1>16, <1>18, <1>19, <1>20, <1>21, <1>22

LEMMA AnswerParts ==
  ASSUME NEW f, PartsInv(f), None \notin Nat, NEW record, NEW seen,
         seen = Seen(f, record),
         NEW n, n = Len(f.pushed) + 1,
         record.type = "message", Answers(f, record), f.toolResults # "full"
  PROVE  PartsInv(Answer(seen, n, record))
<1> DEFINE items == f.run.items
           more == Append(f.pushed, record)
<1>1. /\ IsFormatter(seen) /\ seen.pushed = more
      /\ seen.printed = f.printed /\ seen.run = f.run /\ seen.toolResults = f.toolResults
      /\ RunOK(f.run, seen.pushed)
  <2>1. seen.pushed = Append(f.pushed, record)
    BY SeenIs
  <2>2. /\ IsFormatter(seen)
        /\ seen.printed = f.printed /\ seen.run = f.run /\ seen.toolResults = f.toolResults
        /\ RunOK(f.run, seen.pushed)
    BY SeenIs
  <2>3. QED
    BY <2>1, <2>2
<1>2. PICK i : i = (CHOOSE j \in CallOf(seen, record.id) : TRUE)
  OBVIOUS
<1>3. CallOf(seen, record.id) = CallOf(f, record.id)
  BY <1>1 DEF CallOf
<1>4. i \in 1 .. Len(items) /\ record.id \in items[i].ids
  <2>1. CallOf(f, record.id) # {}
    BY DEF Answers
  <2>2. i \in CallOf(f, record.id)
    BY <1>2, <1>3, <2>1
  <2>3. QED
    BY <2>2 DEF CallOf
<1>5. ToolResult(record) /\ ~record.isError
  BY DEF Answers, ToolResult
<1>6. /\ IsSeq(f.pushed) /\ Len(f.pushed) \in Nat /\ n \in Nat /\ Len(more) = n
      /\ more[n] = record /\ \A k \in 1 .. Len(f.pushed) : more[k] = f.pushed[k]
  <2>1. IsSeq(f.pushed)
    BY DEF PartsInv, IsFormatter
  <2>2. QED
    BY <2>1, AppendAny
<1>7. ItemsOK(items, more)
  BY <1>1 DEF RunOK
<1>8. ItemOK(items[i])
  BY <1>4, <1>7 DEF ItemsOK
<1>9. ResultsOf(items) \subseteq 1 .. Len(f.pushed)
  BY RunPushed
<1>10. n \notin ResultsOf(items)
  BY <1>6, <1>9
<1> HIDE DEF more
<1>11. /\ PartsOf(RunBody(f.run)) = f.run.thinking \cup PartsOf(items)
       /\ ResultsOf(RunBody(f.run)) = ResultsOf(items)
       /\ ToolIds(RunBody(f.run)) = ToolIds(items)
  BY <1>1, RunBodyIs
<1>12. CASE items[i].what = "bash" /\ f.toolResults = "summary"
  <2>1. PICK answered : answered = WithResult(items, i, n)
    OBVIOUS
  <2>2. PICK g : g = Answer(seen, n, record)
    OBVIOUS
  <2>3. g = [seen EXCEPT !.run.items[i].result = n]
    BY <1>1, <1>2, <1>12, <2>2 DEF Answer
  <2>4. /\ IsFormatter(g) /\ g.pushed = seen.pushed /\ g.printed = seen.printed
        /\ g.toolResults = seen.toolResults
        /\ g.run = [f.run EXCEPT !.items = answered]
    BY <1>1, <2>1, <2>3 DEF IsFormatter, WithResult
  <2>5. /\ g.run.items = answered /\ g.run.thinking = f.run.thinking
        /\ g.run \in [items : {g.run.items}, thinking : {g.run.thinking}]
    <3>1. f.run \in [items : {f.run.items}, thinking : {f.run.thinking}]
      BY <1>1 DEF RunOK
    <3> HIDE DEF items
    <3>2. QED
      BY <2>4, <3>1
  <2>6. /\ ItemsOK(answered, more) /\ PartsOf(answered) = PartsOf(items)
        /\ ToolIds(answered) = ToolIds(items)
        /\ ResultsOf(answered) \subseteq ResultsOf(items) \cup {n} /\ n \in ResultsOf(answered)
        /\ items[i].result = None => ResultsOf(items) \subseteq ResultsOf(answered)
    <3>1. n \in 1 .. Len(more) /\ ToolResult(more[n]) /\ more[n].id \in items[i].ids
      BY <1>4, <1>5, <1>6
    <3>2. /\ ItemsOK(items, more) /\ n \notin ResultsOf(items) /\ i \in 1 .. Len(items)
          /\ items[i].what = "bash"
      BY <1>4, <1>7, <1>10, <1>12
    <3> HIDE DEF items
    <3>3. QED
      BY <2>1, <3>1, <3>2, ItemAnswered
  <2>7. RunOK(g.run, g.pushed)
    BY <1>1, <2>4, <2>5, <2>6 DEF RunOK
  <2>8. /\ PartsOf(RunBody(g.run)) = f.run.thinking \cup PartsOf(items)
        /\ ResultsOf(RunBody(g.run)) = ResultsOf(answered)
        /\ ToolIds(RunBody(g.run)) = ToolIds(items)
    BY <2>5, <2>6, <2>7, RunBodyIs
  <2>9. OneResult(more) => items[i].result = None
    <3> SUFFICES ASSUME OneResult(more), items[i].result # None PROVE FALSE
      OBVIOUS
    <3>1. PICK r : r = items[i].result
      OBVIOUS
    <3>2. r \in ResultsOf(items)
      BY <1>4, <3>1, BodySets
    <3>3. r \in 1 .. Len(f.pushed)
      BY <1>9, <3>2
    <3>4. ResultOK(items[i], more)
      BY <1>4, <1>7 DEF ItemsOK, BodyOK
    <3>5. r \in 1 .. Len(more) /\ ToolResult(more[r]) /\ more[r].id \in items[i].ids
      BY <3>1, <3>4 DEF ResultOK
    <3>6. more[r].id = record.id
      BY <1>4, <1>8, <1>12, <3>5 DEF ItemOK
    <3>7. r = n
      <4>1. n \in 1 .. Len(more) /\ ToolResult(more[n]) /\ more[n].id = record.id
        BY <1>5, <1>6
      <4>2. QED
        BY <3>5, <3>6, <4>1 DEF OneResult
    <3>8. QED
      BY <1>6, <3>3, <3>7
  <2>10. /\ IsFormatter(g) /\ g.pushed = Append(f.pushed, record) /\ g.printed = f.printed
         /\ g.toolResults = f.toolResults
    BY <1>1, <2>4 DEF more
  <2>11. g.pushed = more
    BY <1>1, <2>4
  <2> HIDE DEF items
  <2>12. PartsInv(g)
    BY <1>5, <1>11, <2>6, <2>7, <2>8, <2>9, <2>10, <2>11, RunParts
  <2>13. QED
    BY <2>2, <2>12
<1>13. CASE ~(items[i].what = "bash" /\ f.toolResults = "summary")
  <2>1. Answer(seen, n, record) = seen
    BY <1>1, <1>2, <1>13 DEF Answer
  <2>2. f.toolResults = "none" \/ (~record.isError /\ record.id \in ToolIds(RunBody(seen.run)))
    <3>1. CASE items[i].what = "tools"
      <4>1. record.id \in ToolIds(items)
        BY <1>4, <3>1, BodySets
      <4>2. QED
        BY <1>1, <1>5, <1>11, <4>1
    <3>2. CASE items[i].what = "bash"
      BY <1>13, <3>2 DEF PartsInv
    <3>3. QED
      BY <1>8, <3>1, <3>2 DEF ItemOK
  <2>3. /\ IsFormatter(seen) /\ seen.pushed = Append(f.pushed, record)
        /\ seen.printed = f.printed /\ seen.toolResults = f.toolResults
        /\ seen.run = f.run /\ RunOK(seen.run, seen.pushed)
    BY <1>1 DEF more
  <2>4. n \notin ResultsOf(RunBody(seen.run))
    BY <1>10, <1>11, <2>3
  <2> HIDE DEF items
  <2>5. PartsInv(seen)
    BY <1>5, <2>2, <2>3, <2>4, RunParts
  <2>6. QED
    BY <2>1, <2>5
<1>14. QED
  BY <1>12, <1>13

LEMMA PushParts ==
  ASSUME NEW f, PartsInv(f), None \notin Nat, NEW record, RecordOK(record)
  PROVE  PartsInv(Push(f, record))
<1>1. PICK n : n = Len(f.pushed) + 1
  OBVIOUS
<1>2. PICK seen : seen = Seen(f, record)
  OBVIOUS
<1>3. PICK rendered : rendered = Rendered(f, n, record)
  OBVIOUS
<1>4. CASE f.toolResults # "full" /\ record.type = "message" /\ Coalescable(record)
  <2>1. Push(f, record) = Join(seen, n, record)
    BY <1>1, <1>2, <1>4 DEF Push, Seen
  <2>2. QED
    BY <1>1, <1>2, <1>4, <2>1, JoinParts
<1>5. CASE /\ f.toolResults # "full" /\ record.type = "message" /\ ~Coalescable(record)
           /\ Answers(f, record)
  <2>1. Push(f, record) = Answer(seen, n, record)
    BY <1>1, <1>2, <1>5 DEF Push, Seen
  <2>2. QED
    BY <1>1, <1>2, <1>5, <2>1, AnswerParts
<1>6. CASE ~ /\ f.toolResults # "full" /\ record.type = "message"
             /\ Coalescable(record) \/ Answers(f, record)
  <2>1. Push(f, record) = PrintBlock(FlushRun(seen), rendered.header, rendered.body)
    BY <1>1, <1>2, <1>3, <1>6 DEF Push, Seen
  <2>2. QED
    BY <1>1, <1>2, <1>3, <2>1, PrintParts
<1>7. QED
  BY <1>4, <1>5, <1>6

LEMMA NewParts ==
  ASSUME NEW toolResults, toolResults \in {"summary", "none", "full"}
  PROVE  PartsInv(NewFormatter(toolResults))
<1>1. PICK f : f = NewFormatter(toolResults)
  OBVIOUS
<1>2. IsSeq(<<>>) /\ Len(<<>>) = 0
  BY ShortSeqs
<1>3. /\ IsFormatter(f) /\ f.toolResults = toolResults /\ f.pushed = <<>>
      /\ f.printed = <<>> /\ f.run = EmptyRun
  BY <1>1, <1>2 DEF IsFormatter, NewFormatter
<1>4. RunOK(EmptyRun, <<>>) /\ RunBody(EmptyRun) = <<>>
  BY EmptyRunIs
<1>5. \A i \in 1 .. Len(f.printed) + 1 : BodiesOf(f)[i] = <<>>
  BY <1>2, <1>3, <1>4 DEF BodiesOf
<1>6. /\ BodyOK(<<>>, <<>>)
      /\ PartsOf(<<>>) = {} /\ ResultsOf(<<>>) = {} /\ ToolIds(<<>>) = {}
  BY EmptyBody
<1>7. \A i \in 1 .. Len(f.printed) + 1 :
        /\ BodyOK(BodiesOf(f)[i], f.pushed)
        /\ PartsOf(BodiesOf(f)[i]) = {} /\ ResultsOf(BodiesOf(f)[i]) = {}
  BY <1>3, <1>5, <1>6
<1>8. Len(f.pushed) = 0
  BY <1>2, <1>3
<1>9. BodiesOK(f.pushed, f.toolResults, BodiesOf(f), Len(f.printed) + 1)
  <2> DEFINE B == BodiesOf(f)
             N == Len(f.printed) + 1
  <2>1. PartsOf(B[1]) = {} /\ ResultsOf(B[1]) = {} /\ BodyOK(B[1], f.pushed) /\ N = 1
    BY <1>2, <1>3, <1>7
  <2>2. \A i \in 1 .. N : i = 1
    BY <2>1
  <2>3. \A n : n \notin 1 .. Len(f.pushed)
    BY <1>8
  <2> HIDE DEF B, N
  <2>4. BodiesOK(f.pushed, f.toolResults, B, N)
    BY <2>1, <2>2, <2>3 DEF BodiesOK
  <2>5. QED
    BY <2>4 DEF B, N
<1>10. QED
  BY <1>1, <1>3, <1>4, <1>9 DEF PartsInv

LEMMA PushAllParts ==
  ASSUME NEW f, PartsInv(f), None \notin Nat, NEW records, IsSeq(records),
         \A k \in 1 .. Len(records) : RecordOK(records[k])
  PROVE  PartsInv(PushAll(f, records))
<1>1. PICK after :
        /\ after[0] = f
        /\ \A k \in 1 .. Len(records) : after[k] = Push(after[k - 1], records[k])
        /\ PushAll(f, records) = after[Len(records)]
  BY PushAllSteps
<1> DEFINE Bad == {k \in 0 .. Len(records) : ~PartsInv(after[k])}
<1>2. Len(records) \in Nat
  BY IsSeqOf DEF IsSeq
<1>3. ASSUME NEW k \in Bad, \A j \in Bad : k <= j
      PROVE  FALSE
  <2>1. k # 0 /\ k \in 1 .. Len(records) /\ k - 1 \in 0 .. Len(records) /\ k - 1 \notin Bad
    BY <1>1, <1>2, <1>3
  <2>2. PartsInv(Push(after[k - 1], records[k]))
    BY <2>1, PushParts
  <2>3. QED
    BY <1>1, <2>1, <2>2
<1>4. Bad \subseteq Nat
  OBVIOUS
<1>5. Bad = {}
  <2> HIDE DEF Bad
  <2> QED BY <1>3, <1>4, LeastOf
<1>6. QED
  BY <1>1, <1>2, <1>5

\* A part is shown in one place, and a result is summed up in one place and not
\* shown in any.
ShownOnce(pushed, B, N) ==
  /\ \A i, j \in 1 .. N : \A k \in 1 .. Len(B[i]), l \in 1 .. Len(B[j]) :
       \A p \in B[i][k].parts, q \in B[j][l].parts :
         /\ p[1] \in Nat /\ q[1] \in Nat
         /\ p = q => i = j /\ k = l
         /\ i < j => p[1] < q[1]
         /\ i = j /\ k < l /\ B[i][k].what # "thought" => PartBefore(p, q)
  /\ \A i, j \in 1 .. N : \A k \in 1 .. Len(B[i]), l \in 1 .. Len(B[j]) :
       /\ B[i][k].result # None /\ B[i][k].result = B[j][l].result => i = j /\ k = l
       /\ B[i][k].result # None =>
            /\ \A q \in B[j][l].parts : q[1] # B[i][k].result
            /\ ResultOK(B[i][k], pushed)

LEMMA ShownWhere ==
  ASSUME NEW f, PartsInv(f), NEW B, B = BodiesOf(f), NEW N, N = Len(f.printed) + 1,
         None \notin Nat
  PROVE  ShownOnce(f.pushed, B, N)
<1>1. /\ N \in Nat
      /\ \A i \in 1 .. N : BodyOK(B[i], f.pushed)
      /\ \A i \in 1 .. N : Len(B[i]) \in Nat
      /\ \A i \in 1 .. N : PartsOf(B[i]) \subseteq (1 .. Len(f.pushed)) \X Nat
      /\ \A i, j \in 1 .. N : i < j => \A p \in PartsOf(B[i]), q \in PartsOf(B[j]) : p[1] < q[1]
      /\ \A i, j \in 1 .. N : i < j => ResultsOf(B[i]) \cap ResultsOf(B[j]) = {}
      /\ \A i, j \in 1 .. N : \A r \in ResultsOf(B[i]), p \in PartsOf(B[j]) : p[1] # r
  <2>1. BodiesOK(f.pushed, f.toolResults, B, N) /\ N \in Nat
    BY BodiesAre DEF PartsInv
  <2>2. \A i \in 1 .. N : BodyOK(B[i], f.pushed)
    BY <2>1 DEF BodiesOK
  <2>3. \A i \in 1 .. N : Len(B[i]) \in Nat
    BY <2>2, IsSeqOf DEF BodyOK, IsSeq
  <2>4. QED
    BY <2>1, <2>2, <2>3 DEF BodiesOK
<1>2. ASSUME NEW i \in 1 .. N, NEW k \in 1 .. Len(B[i])
      PROVE  /\ \A p \in B[i][k].parts : p \in PartsOf(B[i])
             /\ B[i][k].result # None => B[i][k].result \in ResultsOf(B[i])
  BY BodySets
<1>3. ASSUME NEW i \in 1 .. N, NEW k \in 1 .. Len(B[i]), NEW p \in B[i][k].parts
      PROVE  p[1] \in Nat
  <2>1. p \in (1 .. Len(f.pushed)) \X Nat
    BY <1>1, <1>2
  <2>2. QED
    BY <2>1
<1>4. ASSUME NEW i \in 1 .. N, NEW k \in 1 .. Len(B[i]), NEW l \in 1 .. Len(B[i]), k < l
      PROVE  InOrder(B[i][k], B[i][l])
  <2>1. BodyOK(B[i], f.pushed)
    BY <1>1
  <2>2. QED
    BY <1>4, <2>1 DEF BodyOK
<1>5. ASSUME NEW i \in 1 .. N, NEW j \in 1 .. N, NEW k \in 1 .. Len(B[i]), NEW l \in 1 .. Len(B[j]),
             NEW p \in B[i][k].parts, NEW q \in B[j][l].parts
      PROVE  /\ i < j => p[1] < q[1]
             /\ i = j /\ k < l => p # q
             /\ i = j /\ k < l /\ B[i][k].what # "thought" => PartBefore(p, q)
  <2>1. i < j => p[1] < q[1]
    BY <1>1, <1>2
  <2>2. i = j /\ k < l => InOrder(B[i][k], B[j][l])
    BY <1>4
  <2>3. QED
    BY <2>1, <2>2 DEF InOrder
<1>6. ASSUME NEW i \in 1 .. N, NEW j \in 1 .. N, NEW k \in 1 .. Len(B[i]), NEW l \in 1 .. Len(B[j]),
             NEW p \in B[i][k].parts, p \in B[j][l].parts
      PROVE  i = j /\ k = l
  <2>0. p \in PartsOf(B[i]) /\ p \in PartsOf(B[j])
    BY <1>2, <1>6
  <2>1. i < j => p[1] < p[1]
    BY <1>1, <2>0
  <2>2. j < i => p[1] < p[1]
    BY <1>1, <2>0
  <2>5. p[1] \in Nat
    BY <1>3
  <2>6. i = j
    BY <1>1, <2>1, <2>2, <2>5
  <2>3. ~(k < l) /\ ~(l < k)
    BY <1>5, <1>6, <2>6
  <2>4. k \in Int /\ l \in Int
    OBVIOUS
  <2>7. QED
    BY <2>3, <2>4, <2>6
<1>7. ASSUME NEW i \in 1 .. N, NEW j \in 1 .. N, NEW k \in 1 .. Len(B[i]), NEW l \in 1 .. Len(B[j]),
             B[i][k].result # None, B[i][k].result = B[j][l].result
      PROVE  i = j /\ k = l
  <2>1. B[i][k].result \in ResultsOf(B[i]) /\ B[i][k].result \in ResultsOf(B[j])
    BY <1>2, <1>7
  <2>2. ~(i < j) /\ ~(j < i)
    BY <1>1, <2>1
  <2>3. i = j
    BY <1>1, <2>2
  <2>4. ~(k < l) /\ ~(l < k)
    BY <1>4, <1>7, <2>3 DEF InOrder
  <2>5. k \in Int /\ l \in Int
    OBVIOUS
  <2>6. QED
    BY <2>3, <2>4, <2>5
<1>8. ASSUME NEW i \in 1 .. N, NEW j \in 1 .. N, NEW k \in 1 .. Len(B[i]), NEW l \in 1 .. Len(B[j]),
             B[i][k].result # None
      PROVE  /\ \A q \in B[j][l].parts : q[1] # B[i][k].result
             /\ ResultOK(B[i][k], f.pushed)
  <2>1. B[i][k].result \in ResultsOf(B[i])
    BY <1>2, <1>8
  <2>2. \A q \in B[j][l].parts : q[1] # B[i][k].result
    <3>1. \A q \in B[j][l].parts : q \in PartsOf(B[j])
      BY <1>2
    <3>2. \A r \in ResultsOf(B[i]), q \in PartsOf(B[j]) : q[1] # r
      BY <1>1
    <3>3. QED
      BY <2>1, <3>1, <3>2
  <2>3. BodyOK(B[i], f.pushed)
    BY <1>1
  <2>4. QED
    BY <2>2, <2>3 DEF BodyOK
<1>9. \A i, j \in 1 .. N : \A k \in 1 .. Len(B[i]), l \in 1 .. Len(B[j]) :
        \A p \in B[i][k].parts, q \in B[j][l].parts :
          /\ p[1] \in Nat /\ q[1] \in Nat
          /\ p = q => i = j /\ k = l
          /\ i < j => p[1] < q[1]
          /\ i = j /\ k < l /\ B[i][k].what # "thought" => PartBefore(p, q)
  <2> TAKE i, j \in 1 .. N
  <2> TAKE k \in 1 .. Len(B[i]), l \in 1 .. Len(B[j])
  <2> TAKE p \in B[i][k].parts, q \in B[j][l].parts
  <2>1. p[1] \in Nat /\ q[1] \in Nat
    BY <1>3
  <2>2. p = q => i = j /\ k = l
    BY <1>6
  <2>3. /\ i < j => p[1] < q[1]
        /\ i = j /\ k < l /\ B[i][k].what # "thought" => PartBefore(p, q)
    BY <1>5
  <2>4. QED
    BY <2>1, <2>2, <2>3
<1>10. \A i, j \in 1 .. N : \A k \in 1 .. Len(B[i]), l \in 1 .. Len(B[j]) :
         /\ B[i][k].result # None /\ B[i][k].result = B[j][l].result => i = j /\ k = l
         /\ B[i][k].result # None =>
              /\ \A q \in B[j][l].parts : q[1] # B[i][k].result
              /\ ResultOK(B[i][k], f.pushed)
  <2> TAKE i, j \in 1 .. N
  <2> TAKE k \in 1 .. Len(B[i]), l \in 1 .. Len(B[j])
  <2>1. B[i][k].result # None /\ B[i][k].result = B[j][l].result => i = j /\ k = l
    BY <1>7
  <2>2. B[i][k].result # None => /\ \A q \in B[j][l].parts : q[1] # B[i][k].result
                                 /\ ResultOK(B[i][k], f.pushed)
    BY <1>8
  <2>3. QED
    BY <2>1, <2>2
<1>11. QED
  BY <1>9, <1>10, Zenon DEF ShownOnce

-----------------------------------------------------------------------------
(* Rows by their positions: up is the position of a row's visible parent or *)
(* 0, anc the positions of all above it.                                    *)

Nested(R, up, anc) ==
  /\ R \in Nat
  /\ \A i \in 1 .. R :
       /\ up[i] \in Nat /\ up[i] < i
       /\ \A a : a \in anc[i] <=> up[i] # 0 /\ (a = up[i] \/ a \in anc[up[i]])
       /\ \A a \in anc[i] : a \in 1 .. R /\ a < i
  /\ \A i, j, k \in 1 .. R : i < j /\ j < k /\ i \in anc[k] => i \in anc[j]

Branch(R, up, i) == \E j \in 1 .. R : up[j] = up[i] /\ j # i
LastChild(R, up, i) == \A j \in 1 .. R : up[j] = up[i] => j <= i

Drawn(R, up, multipleRoots, row) ==
  \A i \in 1 .. R :
    row[i] = IF up[i] = 0 THEN RootRow(Branch(R, up, i), LastChild(R, up, i))
             ELSE ChildRow(row[up[i]], Branch(R, up, i), LastChild(R, up, i), multipleRoots)

\* The fields of a row but its gutters.
Fields(R, up, row, i) ==
  /\ row[i].showConnector = Branch(R, up, i)
  /\ row[i].justBranched = Branch(R, up, i)
  /\ row[i].isLast = LastChild(R, up, i)
  /\ up[i] = 0 => row[i].isVirtualRootChild = Branch(R, up, i)
  /\ up[i] # 0 => ~row[i].isVirtualRootChild

LEMMA RootRowFields ==
  ASSUME NEW b, NEW l
  PROVE  /\ RootRow(b, l).showConnector = b /\ RootRow(b, l).justBranched = b
         /\ RootRow(b, l).isLast = l /\ RootRow(b, l).isVirtualRootChild = b
         /\ RootRow(b, l).gutters = <<>>
BY DEF RootRow

LEMMA ChildRowFields ==
  ASSUME NEW r, NEW b, NEW l, NEW m
  PROVE  /\ ChildRow(r, b, l, m).showConnector = b /\ ChildRow(r, b, l, m).justBranched = b
         /\ ChildRow(r, b, l, m).isLast = l /\ ~ChildRow(r, b, l, m).isVirtualRootChild
         /\ ChildRow(r, b, l, m).gutters = IF Connected(r) THEN Append(r.gutters, Gutter(r, m))
                                           ELSE r.gutters
BY DEF ChildRow

LEMMA RowFields ==
  ASSUME NEW R, NEW up, NEW m, NEW row, Drawn(R, up, m, row)
  PROVE  \A i \in 1 .. R : Fields(R, up, row, i)
<1> TAKE i \in 1 .. R
<1>0. PICK b, l : b = Branch(R, up, i) /\ l = LastChild(R, up, i)
  OBVIOUS
<1>1. CASE up[i] = 0
  <2>1. row[i] = RootRow(b, l)
    BY <1>0, <1>1 DEF Drawn
  <2>2. /\ row[i].showConnector = b /\ row[i].justBranched = b
        /\ row[i].isLast = l /\ row[i].isVirtualRootChild = b
    BY <2>1, RootRowFields
  <2>3. QED
    BY <1>0, <1>1, <2>2 DEF Fields
<1>2. CASE up[i] # 0
  <2>1. row[i] = ChildRow(row[up[i]], b, l, m)
    BY <1>0, <1>2 DEF Drawn
  <2>2. /\ row[i].showConnector = b /\ row[i].justBranched = b
        /\ row[i].isLast = l /\ ~row[i].isVirtualRootChild
    BY <2>1, ChildRowFields
  <2>3. QED
    BY <1>0, <1>2, <2>2 DEF Fields
<1>3. QED
  BY <1>1, <1>2

\* The indentation of a row.
Indented(R, up, row, i) ==
  /\ row[i].indent \in Nat
  /\ Branch(R, up, i) => row[i].indent >= 1
  /\ up[i] = 0 => row[i].indent = IF Branch(R, up, i) THEN 1 ELSE 0
  /\ up[i] # 0 => row[i].indent = IF Branch(R, up, i) \/ Branch(R, up, up[i])
                                  THEN row[up[i]].indent + 1 ELSE row[up[i]].indent

LEMMA RowIndents ==
  ASSUME NEW R, NEW up, NEW anc, NEW m, NEW row, Nested(R, up, anc), Drawn(R, up, m, row)
  PROVE  \A i \in 1 .. R : Indented(R, up, row, i)
<1>1. R \in Nat /\ \A i \in 1 .. R : up[i] \in Nat /\ up[i] < i
  BY DEF Nested
<1>2. \A i \in 1 .. R : Fields(R, up, row, i)
  BY RowFields
<1> DEFINE Bad == {i \in 1 .. R : ~Indented(R, up, row, i)}
<1>3. ASSUME NEW i \in Bad, \A j \in Bad : i <= j
      PROVE  FALSE
  <2>1. i \in 1 .. R /\ ~Indented(R, up, row, i)
    OBVIOUS
  <2>2. CASE up[i] = 0
    <3>1. row[i] = RootRow(Branch(R, up, i), LastChild(R, up, i))
      BY <2>1, <2>2 DEF Drawn
    <3>2. row[i].indent = IF Branch(R, up, i) THEN 1 ELSE 0
      BY <3>1 DEF RootRow
    <3>3. QED
      BY <2>1, <2>2, <3>2 DEF Indented
  <2>3. CASE up[i] # 0
    <3>1. up[i] \in 1 .. R /\ up[i] \notin Bad
      BY <1>1, <1>3, <2>1, <2>3
    <3>2. Indented(R, up, row, up[i]) /\ Fields(R, up, row, up[i])
      BY <1>2, <3>1
    <3>3. row[i] = ChildRow(row[up[i]], Branch(R, up, i), LastChild(R, up, i), m)
      BY <2>1, <2>3 DEF Drawn
    <3>4. row[i].indent = IF Branch(R, up, i) \/ (row[up[i]].justBranched /\ row[up[i]].indent > 0)
                          THEN row[up[i]].indent + 1 ELSE row[up[i]].indent
      BY <3>3 DEF ChildRow
    <3>5. row[up[i]].justBranched /\ row[up[i]].indent > 0 <=> Branch(R, up, up[i])
      BY <3>2 DEF Indented, Fields
    <3>6. row[up[i]].indent \in Nat
      BY <3>2 DEF Indented
    <3>7. QED
      BY <2>1, <2>3, <3>4, <3>5, <3>6 DEF Indented
  <2>4. QED
    BY <2>2, <2>3
<1>4. Bad \subseteq Nat
  OBVIOUS
<1>5. Bad = {}
  <2> HIDE DEF Bad
  <2> QED BY <1>3, <1>4, LeastOf
<1>6. QED
  BY <1>5

\* Below a row the indentation never shrinks, and it grows below a branch.
LEMMA DeeperBelow ==
  ASSUME NEW R, NEW up, NEW anc, NEW m, NEW row, Nested(R, up, anc), Drawn(R, up, m, row)
  PROVE  \A i \in 1 .. R : \A a \in anc[i] :
           /\ row[a].indent \in Nat /\ row[i].indent \in Nat
           /\ row[a].indent <= row[i].indent
           /\ Branch(R, up, a) => row[a].indent < row[i].indent
<1>1. R \in Nat /\ \A i \in 1 .. R :
        /\ up[i] \in Nat /\ up[i] < i
        /\ \A a : a \in anc[i] <=> up[i] # 0 /\ (a = up[i] \/ a \in anc[up[i]])
        /\ \A a \in anc[i] : a \in 1 .. R /\ a < i
  BY DEF Nested
<1>2. \A i \in 1 .. R : Indented(R, up, row, i)
  BY RowIndents
<1> DEFINE Good(i) == \A a \in anc[i] :
                        /\ row[a].indent <= row[i].indent
                        /\ Branch(R, up, a) => row[a].indent < row[i].indent
           Bad == {i \in 1 .. R : ~Good(i)}
<1>3. ASSUME NEW i \in Bad, \A j \in Bad : i <= j
      PROVE  FALSE
  <2>1. PICK a \in anc[i] : ~(/\ row[a].indent <= row[i].indent
                              /\ Branch(R, up, a) => row[a].indent < row[i].indent)
    OBVIOUS
  <2>2. up[i] # 0 /\ (a = up[i] \/ a \in anc[up[i]]) /\ i \in 1 .. R /\ a \in 1 .. R
    BY <1>1
  <2>3. up[i] \in 1 .. R /\ up[i] \notin Bad
    BY <1>1, <1>3, <2>2
  <2>4. Good(up[i])
    BY <2>3
  <2> HIDE DEF Bad
  <2>5. /\ row[up[i]].indent \in Nat /\ row[a].indent \in Nat /\ row[i].indent \in Nat
        /\ row[i].indent = IF Branch(R, up, i) \/ Branch(R, up, up[i])
                           THEN row[up[i]].indent + 1 ELSE row[up[i]].indent
    BY <1>2, <2>2, <2>3 DEF Indented
  <2>6. CASE a = up[i]
    BY <2>1, <2>5, <2>6
  <2>7. CASE a \in anc[up[i]]
    BY <2>1, <2>4, <2>5, <2>7
  <2>8. QED
    BY <2>2, <2>6, <2>7
<1>4. Bad \subseteq Nat
  OBVIOUS
<1>5. Bad = {}
  <2> HIDE DEF Bad
  <2> QED BY <1>3, <1>4, LeastOf
<1>6. \A i \in 1 .. R : row[i].indent \in Nat
  BY <1>2 DEF Indented
<1>7. QED
  BY <1>1, <1>5, <1>6

\* A child of p is j or above it.
LEMMA ChildToward ==
  ASSUME NEW R, NEW up, NEW anc, Nested(R, up, anc)
  PROVE  \A j \in 1 .. R : \A p \in anc[j] :
           \E c \in 1 .. R : up[c] = p /\ (c = j \/ c \in anc[j])
<1>1. R \in Nat /\ \A i \in 1 .. R :
        /\ up[i] \in Nat /\ up[i] < i
        /\ \A a : a \in anc[i] <=> up[i] # 0 /\ (a = up[i] \/ a \in anc[up[i]])
        /\ \A a \in anc[i] : a \in 1 .. R /\ a < i
  BY DEF Nested
<1> DEFINE Good(j) == \A p \in anc[j] :
                        \E c \in 1 .. R : up[c] = p /\ (c = j \/ c \in anc[j])
           Bad == {j \in 1 .. R : ~Good(j)}
<1>2. ASSUME NEW j \in Bad, \A l \in Bad : j <= l
      PROVE  FALSE
  <2>1. PICK p \in anc[j] : ~ \E c \in 1 .. R : up[c] = p /\ (c = j \/ c \in anc[j])
    OBVIOUS
  <2>2. up[j] # 0 /\ (p = up[j] \/ p \in anc[up[j]]) /\ j \in 1 .. R
    BY <1>1
  <2>3. up[j] \in 1 .. R /\ up[j] \notin Bad /\ up[j] \in anc[j]
    BY <1>1, <1>2, <2>2
  <2>4. Good(up[j])
    BY <2>3
  <2>5. \A c : c \in anc[up[j]] => c \in anc[j]
    BY <1>1, <2>2
  <2> HIDE DEF Bad
  <2>6. QED
    BY <2>1, <2>2, <2>3, <2>4, <2>5
<1>3. Bad \subseteq Nat
  OBVIOUS
<1>4. Bad = {}
  <2> HIDE DEF Bad
  <2> QED BY <1>2, <1>3, LeastOf
<1>5. QED
  BY <1>4

\* What the gutters of a row are.
Guttered(anc, multipleRoots, row, i) ==
  /\ IsSeq(row[i].gutters)
  /\ \A g : (\E n \in 1 .. Len(row[i].gutters) : row[i].gutters[n] = g)
            <=> \E a \in anc[i] : Connected(row[a]) /\ g = Gutter(row[a], multipleRoots)

LEMMA RowGutters ==
  ASSUME NEW R, NEW up, NEW anc, NEW m, NEW row, Nested(R, up, anc), Drawn(R, up, m, row)
  PROVE  \A i \in 1 .. R : Guttered(anc, m, row, i)
<1>1. R \in Nat /\ \A i \in 1 .. R :
        /\ up[i] \in Nat /\ up[i] < i
        /\ \A a : a \in anc[i] <=> up[i] # 0 /\ (a = up[i] \/ a \in anc[up[i]])
        /\ \A a \in anc[i] : a \in 1 .. R /\ a < i
  BY DEF Nested
<1> DEFINE Bad == {i \in 1 .. R : ~Guttered(anc, m, row, i)}
<1>2. ASSUME NEW i \in Bad, \A j \in Bad : i <= j
      PROVE  FALSE
  <2>1. i \in 1 .. R /\ ~Guttered(anc, m, row, i)
    OBVIOUS
  <2>2. CASE up[i] = 0
    <3>1. row[i].gutters = <<>>
      BY <2>1, <2>2, RootRowFields DEF Drawn
    <3>2. anc[i] = {}
      BY <1>1, <2>1, <2>2
    <3>3. IsSeq(<<>>) /\ Len(<<>>) = 0
      BY ShortSeqs
    <3>4. \A g : ~ \E n \in 1 .. Len(<<>>) : <<>>[n] = g
      BY <3>3
    <3>5. QED
      BY <2>1, <3>1, <3>2, <3>3, <3>4, Zenon DEF Guttered
  <2>3. CASE up[i] # 0
    <3> DEFINE u == up[i]
               old == row[u].gutters
    <3>1. u \in 1 .. R /\ u \notin Bad
      BY <1>1, <1>2, <2>1, <2>3
    <3>2. Guttered(anc, m, row, u)
      BY <3>1
    <3>3. row[i].gutters = IF Connected(row[u]) THEN Append(old, Gutter(row[u], m)) ELSE old
      <4>1. PICK b, l : row[i] = ChildRow(row[u], b, l, m)
        BY <2>1, <2>3 DEF Drawn
      <4> HIDE DEF u
      <4>2. QED
        BY <4>1, ChildRowFields
    <3>4. IsSeq(old) /\ \A g : (\E n \in 1 .. Len(old) : old[n] = g)
            <=> \E a \in anc[u] : Connected(row[a]) /\ g = Gutter(row[a], m)
      BY <3>2 DEF Guttered
    <3>5. \A a : a \in anc[i] <=> a = u \/ a \in anc[u]
      BY <1>1, <2>1, <2>3
    <3> HIDE DEF u, old, Bad
    <3>6. CASE ~Connected(row[u])
      <4>1. row[i].gutters = old
        BY <3>3, <3>6
      <4>2. \A g : (\E a \in anc[u] : Connected(row[a]) /\ g = Gutter(row[a], m))
                <=> (\E a \in anc[i] : Connected(row[a]) /\ g = Gutter(row[a], m))
        BY <3>5, <3>6
      <4>3. Guttered(anc, m, row, i)
        BY <3>4, <4>1, <4>2, Zenon DEF Guttered
      <4>4. QED
        BY <2>1, <4>3
    <3>7. CASE Connected(row[u])
      <4> DEFINE new == Append(old, Gutter(row[u], m))
      <4>1. row[i].gutters = new
        BY <3>3, <3>7
      <4>2. /\ IsSeq(new) /\ Len(old) \in Nat /\ Len(new) = Len(old) + 1
            /\ \A n \in 1 .. Len(old) : new[n] = old[n]
            /\ new[Len(old) + 1] = Gutter(row[u], m)
        BY <3>4, AppendAny
      <4> HIDE DEF new
      <4>3. \A g : (\E n \in 1 .. Len(new) : new[n] = g)
                   <=> g = Gutter(row[u], m) \/ \E n \in 1 .. Len(old) : old[n] = g
        <5>1. \A n \in 1 .. Len(new) : n = Len(old) + 1 \/ n \in 1 .. Len(old)
          BY <4>2
        <5>2. Len(old) + 1 \in 1 .. Len(new) /\ \A n \in 1 .. Len(old) : n \in 1 .. Len(new)
          BY <4>2
        <5>3. QED
          BY <4>2, <5>1, <5>2
      <4>4. \A g : (\E n \in 1 .. Len(new) : new[n] = g)
                   <=> \E a \in anc[i] : Connected(row[a]) /\ g = Gutter(row[a], m)
        <5> TAKE g
        <5>1. (\E a \in anc[i] : Connected(row[a]) /\ g = Gutter(row[a], m))
              <=> \/ g = Gutter(row[u], m)
                  \/ \E a \in anc[u] : Connected(row[a]) /\ g = Gutter(row[a], m)
          BY <3>5, <3>7
        <5>2. QED
          BY <3>4, <4>3, <5>1
      <4>5. Guttered(anc, m, row, i)
        BY <4>1, <4>2, <4>4, Zenon DEF Guttered
      <4>6. QED
        BY <2>1, <4>5
    <3>8. QED
      BY <3>6, <3>7
  <2>4. QED
    BY <2>2, <2>3
<1>3. Bad \subseteq Nat
  OBVIOUS
<1>4. Bad = {}
  <2> HIDE DEF Bad
  <2> QED BY <1>2, <1>3, LeastOf
<1>5. QED
  BY <1>4

\* A gutter stands left of what hangs from its row.
LEMMA GutterFields ==
  ASSUME NEW r, r.indent \in Nat, r.indent >= 1, NEW m
  PROVE  /\ Gutter(r, m).position \in Nat /\ Gutter(r, m).position < r.indent
         /\ ~m => Gutter(r, m).position = r.indent - 1
         /\ Gutter(r, m).show <=> ~r.isLast
<1>1. Gutter(r, m).show <=> ~r.isLast
  BY DEF Gutter
<1>2. Gutter(r, m).position =
        AtLeastZero((IF m THEN AtLeastZero(r.indent - 1) ELSE r.indent) - 1)
  BY DEF Gutter
<1>3. /\ AtLeastZero(r.indent - 1) = r.indent - 1
      /\ AtLeastZero((r.indent - 1) - 1) \in Nat
      /\ AtLeastZero((r.indent - 1) - 1) < r.indent
  BY DEF AtLeastZero
<1>4. QED
  BY <1>1, <1>2, <1>3

-----------------------------------------------------------------------------
(* The columns of a row.                                                    *)

Display(r) == IF r.isVirtualRootChild THEN AtLeastZero(r.indent - 1) ELSE r.indent
GuttersAt(r, level) == {n \in 1 .. Len(r.gutters) : r.gutters[n].position = level}
Column(r, k) ==
  IF GuttersAt(r, k - 1) # {}
  THEN IF r.gutters[CHOOSE i \in GuttersAt(r, k - 1) : \A j \in GuttersAt(r, k - 1) : i <= j].show
       THEN "bar" ELSE "blank"
  ELSE IF Connected(r) /\ k - 1 = Display(r) - 1 THEN (IF r.isLast THEN "corner" ELSE "tee")
  ELSE "blank"

LEMMA PrefixColumns ==
  ASSUME NEW r, r.indent \in Nat
  PROVE  /\ IsSeq(TreePrefix(r)) /\ Len(TreePrefix(r)) = Display(r) /\ Display(r) \in Nat
         /\ \A k \in 1 .. Display(r) : TreePrefix(r)[k] = Column(r, k)
<1>1. Display(r) \in Nat
  BY DEF Display, AtLeastZero
<1>2. TreePrefix(r) = [k \in 1 .. Display(r) |-> Column(r, k)]
  BY DEF TreePrefix, Display, Column, GuttersAt, Connected
<1>3. TreePrefix(r) \in [1 .. Display(r) -> {"bar", "tee", "corner", "blank"}]
  <2>1. \A k \in 1 .. Display(r) : Column(r, k) \in {"bar", "tee", "corner", "blank"}
    BY DEF Column
  <2>2. QED
    BY <1>2, <2>1
<1>4. IsSeq(TreePrefix(r)) /\ Len(TreePrefix(r)) = Display(r)
  BY <1>1, <1>3, FunctionIsSeq
<1>5. QED
  BY <1>1, <1>2, <1>4

LEMMA ColumnOfGutter ==
  ASSUME NEW r, NEW k, Len(r.gutters) \in Nat, NEW n \in GuttersAt(r, k - 1),
         \A i \in GuttersAt(r, k - 1) : r.gutters[i].show <=> r.gutters[n].show
  PROVE  Column(r, k) = IF r.gutters[n].show THEN "bar" ELSE "blank"
<1> DEFINE S == GuttersAt(r, k - 1)
<1>1. S \subseteq Nat /\ S # {}
  BY DEF GuttersAt
<1> HIDE DEF S
<1>2. PICK c : c = CHOOSE i \in S : \A j \in S : i <= j
  OBVIOUS
<1>3. c \in S
  BY <1>1, <1>2, LeastOf
<1>4. Column(r, k) = IF r.gutters[c].show THEN "bar" ELSE "blank"
  BY <1>1, <1>2 DEF Column, S
<1>5. QED
  BY <1>3, <1>4 DEF S

LEMMA OwnColumn ==
  ASSUME NEW r, NEW k, GuttersAt(r, k - 1) = {}, k \in Nat, Display(r) \in Nat
  PROVE  /\ Connected(r) /\ k = Display(r) =>
              Column(r, k) = IF r.isLast THEN "corner" ELSE "tee"
         /\ ~(Connected(r) /\ k = Display(r)) => Column(r, k) = "blank"
<1>1. k - 1 = Display(r) - 1 <=> k = Display(r)
  OBVIOUS
<1>2. QED
  BY <1>1 DEF Column

Drawing(R, up, anc, multipleRoots, row) ==
  Nested(R, up, anc) /\ Drawn(R, up, multipleRoots, row)

LEMMA DrawingRows ==
  ASSUME NEW R, NEW up, NEW anc, NEW m, NEW row, Drawing(R, up, anc, m, row), NEW i \in 1 .. R
  PROVE  /\ Connected(row[i]) <=> Branch(R, up, i) /\ up[i] # 0
         /\ row[i].isLast <=> LastChild(R, up, i)
         /\ Display(row[i]) = IF up[i] = 0 THEN 0 ELSE row[i].indent
         /\ Indented(R, up, row, i) /\ row[i].indent \in Nat
         /\ Len(TreePrefix(row[i])) = Display(row[i])
         /\ \A k \in 1 .. Display(row[i]) : TreePrefix(row[i])[k] = Column(row[i], k)
<1>1. Nested(R, up, anc) /\ Drawn(R, up, m, row)
  BY DEF Drawing
<1>2. Fields(R, up, row, i) /\ Indented(R, up, row, i)
  BY <1>1, RowFields, RowIndents
<1>3. Connected(row[i]) <=> Branch(R, up, i) /\ up[i] # 0
  BY <1>2 DEF Fields, Connected
<1>4. row[i].isLast <=> LastChild(R, up, i)
  BY <1>2 DEF Fields
<1>5. row[i].indent \in Nat
  BY <1>2 DEF Indented
<1>6. Display(row[i]) = IF up[i] = 0 THEN 0 ELSE row[i].indent
  <2>1. CASE up[i] # 0
    BY <1>2, <2>1 DEF Fields, Display
  <2>2. CASE up[i] = 0 /\ Branch(R, up, i)
    <3>1. row[i].isVirtualRootChild /\ row[i].indent = 1
      BY <1>2, <2>2 DEF Fields, Indented
    <3>2. AtLeastZero(1 - 1) = 0
      BY DEF AtLeastZero
    <3>3. QED
      BY <2>2, <3>1, <3>2 DEF Display
  <2>3. CASE up[i] = 0 /\ ~Branch(R, up, i)
    BY <1>2, <2>3 DEF Fields, Indented, Display
  <2>4. QED
    BY <2>1, <2>2, <2>3
<1>7. QED
  BY <1>2, <1>3, <1>4, <1>5, <1>6, PrefixColumns

\* The gutters that a row has at a level.
LevelGutters(anc, m, row, i, level) ==
  /\ Len(row[i].gutters) \in Nat
  /\ \A n \in GuttersAt(row[i], level) :
       \E a \in anc[i] : /\ Connected(row[a]) /\ row[i].gutters[n] = Gutter(row[a], m)
                         /\ Gutter(row[a], m).position = level
  /\ \A a \in anc[i] :
       Connected(row[a]) /\ Gutter(row[a], m).position = level =>
         \E n \in GuttersAt(row[i], level) : row[i].gutters[n] = Gutter(row[a], m)

LEMMA GuttersOf ==
  ASSUME NEW R, NEW up, NEW anc, NEW m, NEW row, Drawing(R, up, anc, m, row),
         NEW i \in 1 .. R, NEW level
  PROVE  LevelGutters(anc, m, row, i, level)
<1>1. Nested(R, up, anc) /\ Drawn(R, up, m, row)
  BY DEF Drawing
<1>2. Guttered(anc, m, row, i)
  BY <1>1, RowGutters
<1>3. Len(row[i].gutters) \in Nat
  BY <1>2, IsSeqOf DEF Guttered, IsSeq
<1>4. \A g : (\E n \in 1 .. Len(row[i].gutters) : row[i].gutters[n] = g)
             <=> \E a \in anc[i] : Connected(row[a]) /\ g = Gutter(row[a], m)
  BY <1>2 DEF Guttered
<1>5. ASSUME NEW n \in GuttersAt(row[i], level)
      PROVE  \E a \in anc[i] : /\ Connected(row[a]) /\ row[i].gutters[n] = Gutter(row[a], m)
                               /\ Gutter(row[a], m).position = level
  <2>1. n \in 1 .. Len(row[i].gutters) /\ row[i].gutters[n].position = level
    BY DEF GuttersAt
  <2>2. PICK a \in anc[i] : Connected(row[a]) /\ row[i].gutters[n] = Gutter(row[a], m)
    BY <1>4, <2>1
  <2>3. QED
    BY <2>1, <2>2
<1>6. ASSUME NEW a \in anc[i], Connected(row[a]), Gutter(row[a], m).position = level
      PROVE  \E n \in GuttersAt(row[i], level) : row[i].gutters[n] = Gutter(row[a], m)
  <2>1. PICK n \in 1 .. Len(row[i].gutters) : row[i].gutters[n] = Gutter(row[a], m)
    BY <1>4, <1>6
  <2>2. n \in GuttersAt(row[i], level)
    BY <1>6, <2>1 DEF GuttersAt
  <2>3. QED
    BY <2>1, <2>2
<1>7. QED
  BY <1>3, <1>5, <1>6 DEF LevelGutters

\* A row begins with a connector when its parent has other children.
LEMMA Connectors ==
  ASSUME NEW R, NEW up, NEW anc, NEW m, NEW row, Drawing(R, up, anc, m, row),
         NEW i \in 1 .. R, up[i] # 0
  PROVE  /\ Branch(R, up, i) => /\ row[i].indent >= 1
                                /\ TreePrefix(row[i])[row[i].indent] \in {"tee", "corner"}
         /\ ~Branch(R, up, i) => \A k \in 1 .. row[i].indent :
                                   TreePrefix(row[i])[k] \notin {"tee", "corner"}
<1>1. /\ Connected(row[i]) <=> Branch(R, up, i)
      /\ Display(row[i]) = row[i].indent /\ row[i].indent \in Nat
      /\ Branch(R, up, i) => row[i].indent >= 1
      /\ \A k \in 1 .. row[i].indent : TreePrefix(row[i])[k] = Column(row[i], k)
  BY DrawingRows DEF Indented
<1>2. CASE Branch(R, up, i)
  <2> DEFINE k == row[i].indent
  <2>1. k \in 1 .. k /\ k \in Nat /\ k >= 1
    BY <1>1, <1>2
  <2>2. GuttersAt(row[i], k - 1) = {}
    <3> SUFFICES ASSUME NEW n \in GuttersAt(row[i], k - 1) PROVE FALSE
      OBVIOUS
    <3>0. \A x \in GuttersAt(row[i], k - 1) :
            \E a \in anc[i] : /\ Connected(row[a]) /\ row[i].gutters[x] = Gutter(row[a], m)
                              /\ Gutter(row[a], m).position = k - 1
      <4>1. LevelGutters(anc, m, row, i, k - 1)
        BY GuttersOf
      <4>2. QED
        BY <4>1 DEF LevelGutters
    <3>1. PICK a \in anc[i] : Connected(row[a]) /\ Gutter(row[a], m).position = k - 1
      BY <3>0
    <3>2. a \in 1 .. R
      BY DEF Drawing, Nested
    <3>3. Branch(R, up, a) /\ row[a].indent \in Nat /\ row[a].indent >= 1
      BY <3>1, <3>2, DrawingRows DEF Indented
    <3>4. row[a].indent < k
      <4>1. Nested(R, up, anc) /\ Drawn(R, up, m, row)
        BY DEF Drawing
      <4>2. QED
        BY <3>3, <4>1, DeeperBelow
    <3>5. Gutter(row[a], m).position \in Nat /\ Gutter(row[a], m).position < row[a].indent
      BY <3>3, GutterFields
    <3> HIDE DEF k
    <3>6. QED
      BY <2>1, <3>1, <3>3, <3>4, <3>5
  <2>3. Column(row[i], k) \in {"tee", "corner"}
    BY <1>1, <1>2, <2>1, <2>2, OwnColumn
  <2>4. QED
    BY <1>1, <1>2, <2>1, <2>3
<1>3. CASE ~Branch(R, up, i)
  <2>1. \A k \in 1 .. row[i].indent : Column(row[i], k) \notin {"tee", "corner"}
    BY <1>1, <1>3 DEF Column
  <2>2. QED
    BY <1>1, <1>3, <2>1
<1>4. QED
  BY <1>2, <1>3

\* The parent of a row can be found in what is drawn.
LEMMA ParentFound ==
  ASSUME NEW R, NEW up, NEW anc, NEW m, NEW row, Drawing(R, up, anc, m, row),
         NEW i \in 1 .. R, up[i] # 0
  PROVE  /\ ~Branch(R, up, i) => up[i] = i - 1
         /\ Branch(R, up, i) =>
              /\ Display(row[up[i]]) < Display(row[i])
              /\ \A j \in up[i] + 1 .. i - 1 : Display(row[i]) <= Display(row[j])
<1>1. R \in Nat /\ \A j \in 1 .. R :
        /\ up[j] \in Nat /\ up[j] < j
        /\ \A a : a \in anc[j] <=> up[j] # 0 /\ (a = up[j] \/ a \in anc[up[j]])
        /\ \A a \in anc[j] : a \in 1 .. R /\ a < j
  BY DEF Drawing, Nested
<1>2. \A j, k, l \in 1 .. R : j < k /\ k < l /\ j \in anc[l] => j \in anc[k]
  BY DEF Drawing, Nested
<1> DEFINE p == up[i]
<1>3. p \in 1 .. R /\ p < i /\ p \in anc[i]
  BY <1>1
<1>4. \A j \in p + 1 .. i - 1 : j \in 1 .. R /\ p \in anc[j]
  <2> SUFFICES ASSUME NEW j \in p + 1 .. i - 1 PROVE j \in 1 .. R /\ p \in anc[j]
    OBVIOUS
  <2>1. j \in 1 .. R /\ p < j /\ j < i
    BY <1>1, <1>3
  <2>2. QED
    BY <1>2, <1>3, <2>1
<1>5. CASE ~Branch(R, up, i)
  <2>1. ASSUME p # i - 1 PROVE FALSE
    <3> DEFINE j == p + 1
    <3>1. j \in p + 1 .. i - 1 /\ j # i
      BY <1>1, <1>3, <2>1
    <3>2. j \in 1 .. R /\ p \in anc[j]
      BY <1>4, <3>1
    <3>3. up[j] = p
      <4>1. p = up[j] \/ p \in anc[up[j]]
        BY <1>1, <3>2
      <4>2. ASSUME p \in anc[up[j]] PROVE FALSE
        <5>1. up[j] \in Nat /\ up[j] < j /\ up[j] # 0
          BY <1>1, <3>2
        <5>2. up[j] \in 1 .. R /\ up[j] <= p
          BY <1>1, <1>3, <3>2, <5>1
        <5>3. p < up[j]
          BY <1>1, <4>2, <5>2
        <5>4. QED
          BY <1>3, <5>1, <5>2, <5>3
      <4>3. QED
        BY <4>1, <4>2
    <3>4. QED
      BY <1>5, <3>1, <3>2, <3>3 DEF Branch
  <2>2. QED
    BY <1>5, <2>1
<1>6. CASE Branch(R, up, i)
  <2>1. /\ Display(row[i]) = row[i].indent /\ row[i].indent \in Nat
        /\ row[p].indent \in Nat /\ row[i].indent = row[p].indent + 1
    <3>1. Indented(R, up, row, i) /\ Display(row[i]) = row[i].indent
      BY DrawingRows
    <3>2. row[p].indent \in Nat /\ row[i].indent \in Nat
      BY <1>3, DrawingRows
    <3>3. QED
      BY <1>6, <3>1, <3>2 DEF Indented
  <2>2. Display(row[p]) <= row[p].indent
    BY <1>3, <2>1, DrawingRows
  <2>3. ASSUME NEW j \in p + 1 .. i - 1
        PROVE  Display(row[i]) <= Display(row[j])
    <3>1. j \in 1 .. R /\ p \in anc[j] /\ up[j] # 0 /\ j # i
      BY <1>1, <1>3, <1>4, <2>3
    <3>2. Nested(R, up, anc) /\ Drawn(R, up, m, row)
      BY DEF Drawing
    <3>3. PICK c \in 1 .. R : up[c] = p /\ (c = j \/ c \in anc[j])
      BY <3>1, <3>2, ChildToward
    <3>4. c # i
      BY <1>1, <1>3, <2>3, <3>1, <3>3
    <3>5. Branch(R, up, c)
      BY <3>3, <3>4 DEF Branch
    <3>6. Indented(R, up, row, c)
      BY DrawingRows
    <3>7. row[c].indent = row[p].indent + 1 /\ row[c].indent \in Nat
      BY <1>3, <3>3, <3>5, <3>6 DEF Indented
    <3>8. row[c].indent <= row[j].indent
      BY <3>2, <3>1, <3>3, <3>7, DeeperBelow
    <3>9. Display(row[j]) = row[j].indent
      BY <3>1, DrawingRows
    <3>10. QED
      BY <2>1, <3>7, <3>8, <3>9
  <2>4. Display(row[p]) \in Nat /\ Display(row[p]) < Display(row[i])
    BY <1>3, <2>1, <2>2, DrawingRows
  <2>5. QED
    BY <1>6, <2>3, <2>4
<1>7. QED
  BY <1>5, <1>6

\* Of a drawing with one root: what stands in column k of row i is the line of
\* a row a, which is i or above it.
LineOf(R, up, anc, row, i, k, a) ==
  /\ a = i \/ a \in anc[i]
  /\ Branch(R, up, a) /\ row[a].indent = k
OneRoot(R, up) == \A a \in 1 .. R : up[a] = 0 => ~Branch(R, up, a)

LEMMA Marks ==
  ASSUME NEW R, NEW up, NEW anc, NEW m, NEW row, Drawing(R, up, anc, m, row), ~m,
         OneRoot(R, up), NEW i \in 1 .. R, up[i] # 0, NEW k \in 1 .. row[i].indent
  PROVE  /\ TreePrefix(row[i])[k] \in {"bar", "tee"} <=>
              \E a \in 1 .. R : LineOf(R, up, anc, row, i, k, a) /\ ~LastChild(R, up, a)
         /\ TreePrefix(row[i])[k] # "blank" =>
              \E a \in 1 .. R : LineOf(R, up, anc, row, i, k, a)
                                /\ (a = i \/ ~LastChild(R, up, a))
<1>1. /\ R \in Nat
      /\ \A j \in 1 .. R : \A a \in anc[j] : a \in 1 .. R /\ a < j
      /\ \A a, b, j \in 1 .. R : a < b /\ b < j /\ a \in anc[j] => a \in anc[b]
      /\ Nested(R, up, anc) /\ Drawn(R, up, m, row)
  BY DEF Drawing, Nested
<1>2. /\ Display(row[i]) = row[i].indent /\ row[i].indent \in Nat /\ k \in Nat /\ k - 1 \in Nat
      /\ TreePrefix(row[i])[k] = Column(row[i], k)
      /\ row[i].isLast <=> LastChild(R, up, i)
      /\ Connected(row[i]) <=> Branch(R, up, i)
  BY DrawingRows
<1>3. ASSUME NEW a \in anc[i], Branch(R, up, a)
      PROVE  /\ a \in 1 .. R /\ row[a].indent \in Nat /\ row[a].indent < row[i].indent
             /\ Connected(row[a]) /\ (row[a].isLast <=> LastChild(R, up, a))
             /\ Gutter(row[a], m).position = row[a].indent - 1
             /\ Gutter(row[a], m).show <=> ~LastChild(R, up, a)
  <2>1. a \in 1 .. R /\ row[a].indent < row[i].indent
    BY <1>1, <1>3, DeeperBelow
  <2>2. /\ Indented(R, up, row, a) /\ (row[a].isLast <=> LastChild(R, up, a))
        /\ (Connected(row[a]) <=> Branch(R, up, a) /\ up[a] # 0)
    BY <2>1, DrawingRows
  <2>3. Connected(row[a])
    BY <1>3, <2>1, <2>2 DEF OneRoot
  <2>4. row[a].indent \in Nat /\ row[a].indent >= 1
    BY <1>3, <2>2 DEF Indented
  <2>5. /\ Gutter(row[a], m).position = row[a].indent - 1
        /\ Gutter(row[a], m).show <=> ~row[a].isLast
    BY <2>4, GutterFields
  <2>6. QED
    BY <2>1, <2>2, <2>3, <2>4, <2>5
<1>4. ASSUME NEW a \in anc[i], NEW b \in anc[i], Branch(R, up, a), Branch(R, up, b),
             row[a].indent = row[b].indent
      PROVE  a = b
  <2>1. a \in 1 .. R /\ b \in 1 .. R /\ a < i /\ b < i
    BY <1>1
  <2>2. row[a].indent \in Nat
    BY <1>3, <1>4
  <2>3. ASSUME a < b PROVE FALSE
    <3>1. a \in anc[b]
      BY <1>1, <2>1, <2>3
    <3>2. row[a].indent < row[b].indent
      BY <1>1, <1>4, <2>1, <3>1, DeeperBelow
    <3>3. QED
      BY <1>4, <2>2, <3>2
  <2>4. ASSUME b < a PROVE FALSE
    <3>1. b \in anc[a]
      BY <1>1, <2>1, <2>4
    <3>2. row[b].indent < row[a].indent
      BY <1>1, <1>4, <2>1, <3>1, DeeperBelow
    <3>3. QED
      BY <1>4, <2>2, <3>2
  <2>5. QED
    BY <2>1, <2>3, <2>4
<1>5. /\ Len(row[i].gutters) \in Nat
      /\ \A n \in GuttersAt(row[i], k - 1) :
           \E a \in anc[i] : /\ Connected(row[a]) /\ row[i].gutters[n] = Gutter(row[a], m)
                             /\ Gutter(row[a], m).position = k - 1
      /\ \A a \in anc[i] :
           Connected(row[a]) /\ Gutter(row[a], m).position = k - 1 =>
             \E n \in GuttersAt(row[i], k - 1) : row[i].gutters[n] = Gutter(row[a], m)
  <2>1. LevelGutters(anc, m, row, i, k - 1)
    BY GuttersOf
  <2>2. QED
    BY <2>1 DEF LevelGutters
<1>6. ASSUME NEW n \in GuttersAt(row[i], k - 1)
      PROVE  \E a \in anc[i] : /\ Branch(R, up, a) /\ row[a].indent = k
                               /\ row[i].gutters[n] = Gutter(row[a], m)
  <2>1. PICK a \in anc[i] : /\ Connected(row[a]) /\ row[i].gutters[n] = Gutter(row[a], m)
                            /\ Gutter(row[a], m).position = k - 1
    BY <1>5
  <2>2. Branch(R, up, a)
    BY <1>1, <2>1, DrawingRows
  <2>3. row[a].indent - 1 = k - 1 /\ row[a].indent \in Nat
    BY <1>3, <2>1, <2>2
  <2>4. row[a].indent = k
    BY <1>2, <2>3
  <2>5. QED
    BY <2>1, <2>2, <2>4
<1>7. CASE \E a \in anc[i] : Branch(R, up, a) /\ row[a].indent = k
  <2>1. PICK a \in anc[i] : Branch(R, up, a) /\ row[a].indent = k
    BY <1>7
  <2>2. PICK n \in GuttersAt(row[i], k - 1) : row[i].gutters[n] = Gutter(row[a], m)
    BY <1>3, <1>5, <2>1
  <2>3. \A x \in GuttersAt(row[i], k - 1) : row[i].gutters[x] = row[i].gutters[n]
    BY <1>4, <1>6, <2>1, <2>2
  <2>4. Column(row[i], k) = IF row[i].gutters[n].show THEN "bar" ELSE "blank"
    BY <1>5, <2>3, ColumnOfGutter
  <2>5. row[i].gutters[n].show <=> ~LastChild(R, up, a)
    BY <1>3, <2>1, <2>2
  <2>6. \A b : LineOf(R, up, anc, row, i, k, b) => b = a
    BY <1>2, <1>3, <1>4, <2>1 DEF LineOf
  <2>7. a \in 1 .. R /\ LineOf(R, up, anc, row, i, k, a)
    BY <1>1, <2>1 DEF LineOf
  <2>8. QED
    BY <1>2, <2>4, <2>5, <2>6, <2>7
<1>8. CASE ~ \E a \in anc[i] : Branch(R, up, a) /\ row[a].indent = k
  <2>1. GuttersAt(row[i], k - 1) = {}
    BY <1>6, <1>8
  <2>2. /\ Branch(R, up, i) /\ k = row[i].indent =>
             Column(row[i], k) = IF LastChild(R, up, i) THEN "corner" ELSE "tee"
        /\ ~(Branch(R, up, i) /\ k = row[i].indent) => Column(row[i], k) = "blank"
    BY <1>2, <2>1, OwnColumn
  <2>3. \A b : LineOf(R, up, anc, row, i, k, b) <=>
                 b = i /\ Branch(R, up, i) /\ row[i].indent = k
    BY <1>8 DEF LineOf
  <2>4. QED
    BY <1>2, <2>2, <2>3
<1>9. QED
  BY <1>7, <1>8

\* Where the line of a row that is not the last is seen.
LEMMA LineSeen ==
  ASSUME NEW R, NEW up, NEW anc, NEW m, NEW row, Drawing(R, up, anc, m, row), ~m,
         OneRoot(R, up), NEW j \in 1 .. R, NEW a \in 1 .. R, NEW k,
         LineOf(R, up, anc, row, j, k, a), ~LastChild(R, up, a)
  PROVE  Display(row[j]) >= k /\ TreePrefix(row[j])[k] \in {"bar", "tee"}
<1>1. /\ \A b : b \in anc[j] => up[j] # 0
      /\ Nested(R, up, anc) /\ Drawn(R, up, m, row)
  BY DEF Drawing, Nested
<1>2. up[a] # 0 /\ Branch(R, up, a) /\ row[a].indent = k
  BY DEF OneRoot, LineOf
<1>3. up[j] # 0
  BY <1>1, <1>2 DEF LineOf
<1>4. k \in Nat /\ k >= 1
  BY <1>2, DrawingRows DEF Indented
<1>5. Display(row[j]) = row[j].indent /\ row[j].indent \in Nat
  BY <1>3, DrawingRows
<1>6. k <= row[j].indent
  <2>1. CASE a = j
    BY <1>2, <1>5, <2>1
  <2>2. CASE a \in anc[j]
    BY <1>1, <1>2, <2>2, DeeperBelow
  <2>3. QED
    BY <2>1, <2>2 DEF LineOf
<1>7. k \in 1 .. row[j].indent
  BY <1>4, <1>5, <1>6
<1>8. TreePrefix(row[j])[k] \in {"bar", "tee"}
  BY <1>3, <1>7, Marks
<1>9. QED
  BY <1>4, <1>5, <1>6, <1>8

LEMMA LinesJoin ==
  ASSUME NEW R, NEW up, NEW anc, NEW m, NEW row, Drawing(R, up, anc, m, row), ~m,
         OneRoot(R, up), NEW i \in 1 .. R, NEW k \in 1 .. Display(row[i]),
         TreePrefix(row[i])[k] # "blank"
  PROVE  /\ up[i] # 0 /\ i - 1 \in 1 .. R
         /\ \/ Display(row[i - 1]) = k - 1
            \/ Display(row[i - 1]) >= k /\ TreePrefix(row[i - 1])[k] \in {"bar", "tee"}
         /\ TreePrefix(row[i])[k] \in {"bar", "tee"} =>
              /\ i < R /\ Display(row[i + 1]) >= k
              /\ TreePrefix(row[i + 1])[k] \in {"bar", "tee", "corner"}
<1>1. /\ R \in Nat /\ Nested(R, up, anc) /\ Drawn(R, up, m, row)
      /\ \A j \in 1 .. R :
           /\ up[j] \in Nat /\ up[j] < j
           /\ \A a : a \in anc[j] <=> up[j] # 0 /\ (a = up[j] \/ a \in anc[up[j]])
           /\ \A a \in anc[j] : a \in 1 .. R /\ a < j
      /\ \A a, b, j \in 1 .. R : a < b /\ b < j /\ a \in anc[j] => a \in anc[b]
  BY DEF Drawing, Nested
<1>2. up[i] # 0 /\ Display(row[i]) = row[i].indent /\ row[i].indent \in Nat
  <2>1. Display(row[i]) = IF up[i] = 0 THEN 0 ELSE row[i].indent
    BY DrawingRows
  <2>2. Display(row[i]) # 0
    OBVIOUS
  <2>3. QED
    BY <2>1, <2>2, DrawingRows
<1>3. k \in 1 .. row[i].indent /\ k \in Nat
  BY <1>2
\* Of the rows with one parent all are branches of one indentation.
<1>4. ASSUME NEW a \in 1 .. R, Branch(R, up, a), row[a].indent = k, NEW c \in 1 .. R, up[c] = up[a]
      PROVE  Branch(R, up, c) /\ row[c].indent = k
  <2>1. Branch(R, up, c)
    BY <1>4 DEF Branch
  <2>2. up[a] # 0
    BY <1>4 DEF OneRoot
  <2>3. up[a] \in 1 .. R
    BY <1>1, <1>4, <2>2
  <2>4. Indented(R, up, row, a) /\ Indented(R, up, row, c)
    BY DrawingRows
  <2>5. QED
    BY <1>4, <2>1, <2>2, <2>4 DEF Indented
\* Below p and before a child of it, a sibling's line is seen.
<1>5. ASSUME NEW a \in 1 .. R, Branch(R, up, a), row[a].indent = k, NEW j \in 1 .. R,
             up[a] \in anc[j], NEW s \in 1 .. R, up[s] = up[a], j < s
      PROVE  Display(row[j]) >= k /\ TreePrefix(row[j])[k] \in {"bar", "tee"}
  <2>1. PICK c \in 1 .. R : up[c] = up[a] /\ (c = j \/ c \in anc[j])
    BY <1>1, <1>5, ChildToward
  <2>2. c < s
    BY <1>1, <1>5, <2>1
  <2>3. ~LastChild(R, up, c)
    BY <1>5, <2>1, <2>2 DEF LastChild
  <2>4. LineOf(R, up, anc, row, j, k, c)
    BY <1>4, <1>5, <2>1 DEF LineOf
  <2>5. QED
    BY <2>3, <2>4, LineSeen
<1>6. i - 1 \in 1 .. R
  BY <1>1, <1>2
<1>7. \/ Display(row[i - 1]) = k - 1
      \/ Display(row[i - 1]) >= k /\ TreePrefix(row[i - 1])[k] \in {"bar", "tee"}
  <2>1. PICK a \in 1 .. R : /\ LineOf(R, up, anc, row, i, k, a)
                            /\ a = i \/ ~LastChild(R, up, a)
    BY <1>2, <1>3, Marks
  <2>2. CASE a = i
    <3> DEFINE p == up[i]
    <3>1. Branch(R, up, i) /\ row[i].indent = k
      BY <2>1, <2>2 DEF LineOf
    <3>2. p \in 1 .. R /\ p < i /\ p \in anc[i]
      BY <1>1, <1>2
    <3>3. CASE p = i - 1
      <4>1. Indented(R, up, row, i) /\ Indented(R, up, row, p)
        BY <3>2, DrawingRows
      <4>2. row[i].indent = row[p].indent + 1 /\ row[p].indent \in Nat
        BY <1>2, <3>1, <4>1 DEF Indented
      <4>3. up[p] = 0 => row[p].indent = 0
        BY <3>2, <4>1 DEF Indented, OneRoot
      <4>4. Display(row[p]) = row[p].indent
        BY <3>2, <4>3, DrawingRows
      <4>5. QED
        BY <3>1, <3>3, <4>2, <4>4
    <3>4. CASE p # i - 1
      <4>1. p < i - 1 /\ i - 1 < i
        BY <1>1, <3>2, <3>4
      <4>2. p \in anc[i - 1]
        BY <1>1, <1>6, <3>2, <4>1
      <4>3. QED
        BY <1>5, <1>6, <3>1, <4>1, <4>2
    <3>5. QED
      BY <3>3, <3>4
  <2>3. CASE a # i
    <3>1. a \in anc[i] /\ ~LastChild(R, up, a) /\ a < i /\ Branch(R, up, a) /\ row[a].indent = k
      BY <1>1, <2>1, <2>3 DEF LineOf
    <3>2. a = i - 1 \/ a < i - 1
      BY <3>1
    <3>3. a = i - 1 \/ a \in anc[i - 1]
      BY <1>1, <1>6, <3>1, <3>2
    <3>4. LineOf(R, up, anc, row, i - 1, k, a)
      BY <3>1, <3>3 DEF LineOf
    <3>5. QED
      BY <1>6, <3>1, <3>4, LineSeen
  <2>4. QED
    BY <2>2, <2>3
<1>8. ASSUME TreePrefix(row[i])[k] \in {"bar", "tee"}
      PROVE  /\ i < R /\ Display(row[i + 1]) >= k
             /\ TreePrefix(row[i + 1])[k] \in {"bar", "tee", "corner"}
  <2>1. PICK a \in 1 .. R : LineOf(R, up, anc, row, i, k, a) /\ ~LastChild(R, up, a)
    BY <1>2, <1>3, <1>8, Marks
  <2>2. Branch(R, up, a) /\ row[a].indent = k /\ (a = i \/ a \in anc[i])
    BY <2>1 DEF LineOf
  <2>3. PICK s \in 1 .. R : up[s] = up[a] /\ a < s
    BY <2>1 DEF LastChild
  <2>4. up[a] # 0 /\ up[a] < a /\ up[a] \in 1 .. R
    BY <1>1, <2>2 DEF OneRoot
  <2>5. a \notin anc[s]
    <3>1. ASSUME a \in anc[s] PROVE FALSE
      <4>1. a = up[a] \/ a \in anc[up[a]]
        BY <1>1, <2>3, <3>1
      <4>2. QED
        BY <1>1, <2>4, <4>1
    <3>2. QED
      BY <3>1
  <2>6. i < s
    <3>1. CASE a = i
      BY <2>3, <3>1
    <3>2. CASE a \in anc[i]
      <4>1. s # i
        BY <2>5, <3>2
      <4>2. ~(s < i)
        BY <1>1, <2>3, <2>5, <3>2
      <4>3. QED
        BY <4>1, <4>2
    <3>3. QED
      BY <2>2, <3>1, <3>2
  <2>7. i < R /\ i + 1 \in 1 .. R
    BY <1>1, <2>6
  <2>8. CASE s = i + 1
    <3>1. Branch(R, up, s) /\ row[s].indent = k /\ up[s] # 0
      BY <1>4, <2>2, <2>3, <2>4
    <3>2. TreePrefix(row[s])[k] \in {"tee", "corner"} /\ Display(row[s]) = k
      BY <3>1, Connectors, DrawingRows
    <3>3. QED
      BY <1>3, <2>7, <2>8, <3>2
  <2>9. CASE s # i + 1
    <3>1. up[a] < i + 1 /\ i + 1 < s
      BY <1>1, <2>2, <2>4, <2>6, <2>9
    <3>2. up[a] \in anc[s]
      BY <1>1, <2>3, <2>4
    <3>3. up[a] \in anc[i + 1]
      BY <1>1, <2>4, <2>7, <3>1, <3>2
    <3>4. QED
      BY <1>5, <2>2, <2>3, <2>7, <3>1, <3>3
  <2>10. QED
    BY <2>8, <2>9
<1>9. QED
  BY <1>2, <1>6, <1>7, <1>8

-----------------------------------------------------------------------------
(* Climb obeys its equation.                                                *)

ClimbTable(entries, id, n, up) ==
  up = [k \in 0 .. n |-> IF k = 0 THEN id ELSE ParentOf(entries, up[k - 1])]

LEMMA ClimbTableExists ==
  ASSUME NEW entries, NEW id, NEW n \in Nat
  PROVE  \E up : ClimbTable(entries, id, n, up)
<1> DEFINE Bad == {k \in Nat : ~ \E up : ClimbTable(entries, id, k, up)}
<1>1. \E up : ClimbTable(entries, id, 0, up)
  <2>1. ClimbTable(entries, id, 0, [k \in 0 .. 0 |-> id])
    BY DEF ClimbTable
  <2> QED BY <2>1
<1>2. ASSUME NEW k \in Nat, k # 0, NEW up, ClimbTable(entries, id, k - 1, up)
      PROVE  \E more : ClimbTable(entries, id, k, more)
  <2> DEFINE more == [j \in 0 .. k |-> IF j = k THEN ParentOf(entries, up[k - 1]) ELSE up[j]]
  <2>1. \A j \in 0 .. k - 1 : up[j] = IF j = 0 THEN id ELSE ParentOf(entries, up[j - 1])
    BY <1>2 DEF ClimbTable
  <2>2. more[0] = id /\ \A j \in 1 .. k : more[j] = ParentOf(entries, more[j - 1])
    <3>1. more[0] = id /\ more[k] = ParentOf(entries, more[k - 1])
      BY <1>2, <2>1
    <3>2. \A j \in 1 .. k - 1 : more[j] = up[j] /\ more[j - 1] = up[j - 1]
      BY <1>2
    <3>3. \A j \in 1 .. k - 1 : up[j] = ParentOf(entries, up[j - 1])
      BY <1>2, <2>1
    <3>4. \A j \in 1 .. k : j = k \/ j \in 1 .. k - 1
      BY <1>2
    <3> HIDE DEF more
    <3>5. QED
      BY <3>1, <3>2, <3>3, <3>4
  <2>3. more = [j \in 0 .. k |-> IF j = 0 THEN id ELSE ParentOf(entries, more[j - 1])]
    <3> HIDE DEF more
    <3>1. \A j \in 0 .. k : more[j] = IF j = 0 THEN id ELSE ParentOf(entries, more[j - 1])
      BY <2>2
    <3>2. more = [j \in 0 .. k |-> more[j]]
      BY DEF more
    <3> QED BY <3>1, <3>2, Zenon
  <2>4. ClimbTable(entries, id, k, more)
    BY <2>3, Zenon DEF ClimbTable
  <2> QED BY <2>4
<1>3. ASSUME NEW k \in Bad, \A j \in Bad : k <= j PROVE FALSE
  <2>1. k \in Nat /\ k # 0
    BY <1>1, <1>3
  <2>2. k - 1 \in Nat /\ k - 1 \notin Bad
    BY <1>3, <2>1
  <2>3. QED
    BY <1>2, <1>3, <2>1, <2>2
<1>4. Bad \subseteq Nat
  OBVIOUS
<1>5. Bad = {}
  <2> HIDE DEF Bad
  <2> QED BY <1>3, <1>4, LeastOf
<1>6. QED
  BY <1>5

\* Any finite sequence of entries with distinct ids: what formatEntriesTree
\* does not refuse.
SessionFile(entries) ==
  IsSeq(entries) /\ ~DuplicateId(entries) /\ None \notin Ids(entries)

LEMMA ClimbSteps ==
  ASSUME NEW entries, IsSeq(entries), NEW id
  PROVE  /\ Len(entries) \in Nat /\ Climb(entries, id)[0] = id
         /\ \A k \in 1 .. Len(entries) :
              Climb(entries, id)[k] = ParentOf(entries, Climb(entries, id)[k - 1])
<1>1. Len(entries) \in Nat
  BY IsSeqOf DEF IsSeq
<1> DEFINE up == CHOOSE up : ClimbTable(entries, id, Len(entries), up)
<1>2. ClimbTable(entries, id, Len(entries), up)
  BY <1>1, ClimbTableExists
<1>3. Climb(entries, id) = up
  BY DEF Climb, ClimbTable
<1> HIDE DEF up
<1>4. up[0] = id /\ \A k \in 1 .. Len(entries) : up[k] = ParentOf(entries, up[k - 1])
  BY <1>1, <1>2 DEF ClimbTable
<1>5. QED
  BY <1>1, <1>3, <1>4

LEMMA ParentIs ==
  ASSUME NEW entries, SessionFile(entries), NEW id
  PROVE  /\ ParentOf(entries, id) \in Ids(entries) \cup {None}
         /\ id \notin Ids(entries) => ParentOf(entries, id) = None
         /\ ParentOf(entries, None) = None
BY DEF ParentOf, SessionFile

\* Who is met on the way up.
LEMMA ClimbValues ==
  ASSUME NEW entries, SessionFile(entries), NEW id
  PROVE  /\ \A k \in 1 .. Len(entries) : Climb(entries, id)[k] \in Ids(entries) \cup {None}
         /\ Above(entries, id) \subseteq Ids(entries)
         /\ \A a : a \in Above(entries, id) <=>
                     a # None /\ \E k \in 1 .. Len(entries) : Climb(entries, id)[k] = a
<1>1. \A k \in 1 .. Len(entries) : Climb(entries, id)[k] \in Ids(entries) \cup {None}
  BY ClimbSteps, ParentIs DEF SessionFile
<1>2. \A a : a \in Above(entries, id) <=>
                     a # None /\ \E k \in 1 .. Len(entries) : Climb(entries, id)[k] = a
  BY DEF Above
<1>3. QED
  BY <1>1, <1>2

\* The way up from an ancestor is the rest of the way.
LEMMA ClimbShift ==
  ASSUME NEW entries, IsSeq(entries), NEW id, NEW i \in 0 .. Len(entries)
  PROVE  \A k \in 0 .. Len(entries) - i :
           Climb(entries, Climb(entries, id)[i])[k] = Climb(entries, id)[i + k]
<1> DEFINE n == Len(entries)
           up == Climb(entries, id)
           on == Climb(entries, up[i])
           Bad == {k \in 0 .. n - i : on[k] # up[i + k]}
<1>1. /\ n \in Nat /\ on[0] = up[i]
      /\ \A k \in 1 .. n : up[k] = ParentOf(entries, up[k - 1])
      /\ \A k \in 1 .. n : on[k] = ParentOf(entries, on[k - 1])
  BY ClimbSteps
<1> HIDE DEF n, up, on
<1>2. i \in 0 .. n
  BY DEF n
<1>3. ASSUME NEW k \in Bad, \A j \in Bad : k <= j PROVE FALSE
  <2>1. k \in 0 .. n - i /\ on[k] # up[i + k] /\ i \in Nat
    BY <1>2
  <2>2. k # 0
    BY <1>1, <2>1
  <2>3. k \in 1 .. n /\ i + k \in 1 .. n /\ k - 1 \in 0 .. n - i /\ (i + k) - 1 = i + (k - 1)
    BY <1>1, <1>2, <2>1, <2>2
  <2>4. k - 1 \notin Bad
    BY <1>3, <2>3
  <2>5. on[k - 1] = up[i + (k - 1)]
    BY <2>3, <2>4
  <2>6. QED
    BY <1>1, <2>1, <2>3, <2>5
<1>4. Bad \subseteq Nat
  BY <1>1, <1>2
<1>5. Bad = {}
  <2> HIDE DEF Bad
  <2> QED BY <1>3, <1>4, LeastOf
<1>6. QED
  BY <1>5 DEF n, up, on

\* From the first root on there is nobody.
LEMMA ClimbNone ==
  ASSUME NEW entries, SessionFile(entries), NEW id, NEW i \in 0 .. Len(entries),
         Climb(entries, id)[i] = None
  PROVE  \A k \in i .. Len(entries) : Climb(entries, id)[k] = None
<1> DEFINE n == Len(entries)
           up == Climb(entries, id)
           Bad == {k \in i .. n : up[k] # None}
<1>1. /\ n \in Nat /\ up[i] = None
      /\ \A k \in 1 .. n : up[k] = ParentOf(entries, up[k - 1])
  BY ClimbSteps DEF SessionFile
<1>2. ParentOf(entries, None) = None
  BY ParentIs
<1> HIDE DEF n, up
<1>3. i \in 0 .. n
  BY DEF n
<1>4. ASSUME NEW k \in Bad, \A j \in Bad : k <= j PROVE FALSE
  <2>1. k \in i .. n /\ k # i
    BY <1>1
  <2>2. k \in 1 .. n /\ k - 1 \in i .. n /\ k - 1 \notin Bad
    BY <1>1, <1>3, <1>4, <2>1
  <2>3. QED
    BY <1>1, <1>2, <2>2
<1>5. Bad \subseteq Nat
  BY <1>1, <1>3
<1>6. Bad = {}
  <2> HIDE DEF Bad
  <2> QED BY <1>4, <1>5, LeastOf
<1>7. QED
  BY <1>6 DEF n, up

LEMMA IntervalSize ==
  ASSUME NEW n \in Nat
  PROVE  /\ IsFiniteSet(1 .. n) /\ Cardinality(1 .. n) = n
         /\ IsFiniteSet(0 .. n) /\ Cardinality(0 .. n) = n + 1
<1>1. /\ 0 \in Int /\ 1 \in Int /\ n \in Int
      /\ (IF 1 > n THEN 0 ELSE n - 1 + 1) = n
      /\ (IF 0 > n THEN 0 ELSE n - 0 + 1) = n + 1
  OBVIOUS
<1>2. QED
  BY <1>1, FS_Interval

LEMMA IdsFinite ==
  ASSUME NEW entries, IsSeq(entries)
  PROVE  /\ Len(entries) \in Nat /\ IsFiniteSet(Ids(entries))
         /\ Cardinality(Ids(entries)) \in Nat /\ Cardinality(Ids(entries)) <= Len(entries)
         /\ ~DuplicateId(entries) =>
              \A i, j \in 1 .. Len(entries) : entries[i].id = entries[j].id => i = j
<1> DEFINE n == Len(entries)
           f == [i \in 1 .. n |-> entries[i].id]
<1>1. n \in Nat
  BY IsSeqOf DEF IsSeq
<1>2. f \in Surjection(1 .. n, Ids(entries))
  BY DEF Surjection, Ids
<1>3. IsFiniteSet(1 .. n) /\ Cardinality(1 .. n) = n
  BY <1>1, IntervalSize
<1> HIDE DEF f
<1>4. /\ IsFiniteSet(Ids(entries)) /\ Cardinality(Ids(entries)) <= n
      /\ Cardinality(Ids(entries)) = n <=> f \in Injection(1 .. n, Ids(entries))
  BY <1>2, <1>3, FS_Surjection
<1>5. Cardinality(Ids(entries)) \in Nat
  BY <1>4, FS_CardinalityType
<1>6. ASSUME ~DuplicateId(entries)
      PROVE  \A i, j \in 1 .. n : entries[i].id = entries[j].id => i = j
  <2>1. f \in Injection(1 .. n, Ids(entries))
    BY <1>1, <1>4, <1>5, <1>6 DEF DuplicateId
  <2>2. QED
    BY <2>1 DEF Injection, IsInjective, f
<1>7. QED
  BY <1>1, <1>4, <1>5, <1>6

-----------------------------------------------------------------------------
(* Ancestors.                                                               *)

\* A session file in which no entry is above itself.
Forest(entries) ==
  SessionFile(entries) /\ \A id \in Ids(entries) : id \notin Above(entries, id)

\* The way up ends.
LEMMA ClimbEnds ==
  ASSUME NEW entries, Forest(entries), NEW id
  PROVE  \/ id \notin Ids(entries)
         \/ Climb(entries, id)[Len(entries)] = None
<1> SUFFICES ASSUME id \in Ids(entries), Climb(entries, id)[Len(entries)] # None
             PROVE  FALSE
  OBVIOUS
<1> DEFINE n == Len(entries)
           up == Climb(entries, id)
<1>0. SessionFile(entries) /\ IsSeq(entries)
  BY DEF Forest, SessionFile
<1>1. n \in Nat /\ up[0] = id
  BY <1>0, ClimbSteps
<1>2. \A k \in 0 .. n : up[k] \in Ids(entries)
  <2> SUFFICES ASSUME NEW k \in 0 .. n PROVE up[k] \in Ids(entries)
    OBVIOUS
  <2>1. CASE up[k] = None
    <3>1. up[n] = None
      BY <1>0, <1>1, <2>1, ClimbNone
    <3>2. QED
      BY <3>1
  <2>2. CASE up[k] # None
    <3>1. k = 0 \/ k \in 1 .. n
      OBVIOUS
    <3>2. QED
      BY <1>0, <1>1, <2>2, <3>1, ClimbValues
  <2>3. QED
    BY <2>1, <2>2
<1> DEFINE f == [k \in 0 .. n |-> up[k]]
<1> HIDE DEF n
<1>3. PICK i, j \in 0 .. n : i # j /\ up[i] = up[j]
  <2>1. IsFiniteSet(0 .. n) /\ Cardinality(0 .. n) = n + 1
    BY <1>1, IntervalSize
  <2>2. /\ IsFiniteSet(Ids(entries)) /\ Cardinality(Ids(entries)) \in Nat
        /\ Cardinality(Ids(entries)) <= n
    BY <1>0, IdsFinite DEF n
  <2>3. f \in [0 .. n -> Ids(entries)]
    BY <1>2
  <2> HIDE DEF f
  <2>4. \E i, j \in 0 .. n : i # j /\ f[i] = f[j]
    <3>1. Cardinality(Ids(entries)) < Cardinality(0 .. n)
      BY <1>1, <2>1, <2>2
    <3>2. QED
      BY <2>1, <2>2, <2>3, <3>1, FS_PigeonHole
  <2>5. QED
    BY <2>4 DEF f
<1>4. ASSUME NEW a \in 0 .. n, NEW b \in 0 .. n, a < b, up[a] = up[b]
      PROVE  FALSE
  <2>1. b - a \in 0 .. n - a /\ b - a \in 1 .. n /\ a + (b - a) = b
    BY <1>1, <1>4
  <2>2. Climb(entries, up[a])[b - a] = up[b]
    <3>1. \A k \in 0 .. n - a : Climb(entries, up[a])[k] = up[a + k]
      BY <1>0, ClimbShift DEF n
    <3>2. QED
      BY <2>1, <3>1
  <2>3. up[a] \in Above(entries, up[a])
    <3>1. up[a] # None
      BY <1>0, <1>2 DEF SessionFile
    <3>2. QED
      BY <1>0, <1>4, <2>1, <2>2, <3>1, ClimbValues DEF n
  <2>4. QED
    BY <1>2, <2>3 DEF Forest
<1>5. QED
  BY <1>1, <1>3, <1>4

\* The ancestors of an id: its parent and those of its parent.
LEMMA AboveIs ==
  ASSUME NEW entries, Forest(entries), NEW id
  PROVE  \A a : a \in Above(entries, id) <=>
                  /\ ParentOf(entries, id) # None
                  /\ \/ a = ParentOf(entries, id)
                     \/ a \in Above(entries, ParentOf(entries, id))
<1> DEFINE n == Len(entries)
           up == Climb(entries, id)
           p == ParentOf(entries, id)
<1>0. SessionFile(entries) /\ IsSeq(entries)
  BY DEF Forest, SessionFile
<1>1. n \in Nat /\ up[0] = id /\ \A k \in 1 .. n : up[k] = ParentOf(entries, up[k - 1])
  BY <1>0, ClimbSteps
<1>2. \A a : a \in Above(entries, id) <=> a # None /\ \E k \in 1 .. n : up[k] = a
  BY <1>0, ClimbValues
<1>3. p \in Ids(entries) \cup {None} /\ (n = 0 => p = None)
  <2>1. n = 0 => Ids(entries) = {}
    BY DEF Ids
  <2>2. QED
    BY <1>0, <2>1, ParentIs
<1>4. n >= 1 => up[1] = p
  BY <1>1
<1>5. CASE p = None
  <2>1. \A k \in 1 .. n : up[k] = None
    <3> SUFFICES ASSUME NEW k \in 1 .. n PROVE up[k] = None
      OBVIOUS
    <3>1. 1 \in 0 .. n /\ up[1] = None /\ k \in 1 .. n
      BY <1>1, <1>4, <1>5
    <3>2. \A j \in 1 .. n : up[j] = None
      BY <1>0, <3>1, ClimbNone
    <3>3. QED
      BY <3>2
  <2>2. QED
    BY <1>2, <1>5, <2>1
<1>6. CASE p # None
  <2> DEFINE on == Climb(entries, p)
  <2>1. n >= 1 /\ p \in Ids(entries) /\ up[1] = p /\ 1 \in 0 .. n
    BY <1>1, <1>3, <1>4, <1>6
  <2>2. \A k \in 0 .. n - 1 : on[k] = up[1 + k]
    BY <1>0, <2>1, ClimbShift
  <2>3. on[n] = None
    BY <2>1, ClimbEnds
  <2>4. \A a : a \in Above(entries, p) <=> a # None /\ \E k \in 1 .. n : on[k] = a
    BY <1>0, ClimbValues
  <2> HIDE DEF n, up, on, p
  <2>5. ASSUME NEW a, a # None, NEW k \in 1 .. n, up[k] = a
        PROVE  a = p \/ \E j \in 1 .. n : on[j] = a
    <3>1. CASE k = 1
      BY <2>1, <2>5, <3>1
    <3>2. CASE k # 1
      <4>1. k - 1 \in 0 .. n - 1 /\ k - 1 \in 1 .. n /\ 1 + (k - 1) = k
        BY <1>1, <3>2
      <4>2. on[k - 1] = a
        BY <2>2, <2>5, <4>1
      <4>3. QED
        BY <4>1, <4>2
    <3>3. QED
      BY <3>1, <3>2
  <2>6. ASSUME NEW a, a # None, NEW k \in 1 .. n, on[k] = a
        PROVE  \E j \in 1 .. n : up[j] = a
    <3>1. k # n
      BY <2>3, <2>6
    <3>2. k \in 0 .. n - 1 /\ 1 + k \in 1 .. n
      BY <1>1, <3>1
    <3>3. QED
      BY <2>2, <2>6, <3>2
  <2>7. 1 \in 1 .. n
    BY <2>1
  <2>8. QED
    BY <1>2, <1>6, <2>1, <2>4, <2>5, <2>6, <2>7 DEF p
<1>7. QED
  BY <1>5, <1>6

\* Who is met later is above who is met before.
LEMMA ClimbAbove ==
  ASSUME NEW entries, Forest(entries), NEW id, NEW i \in 0 .. Len(entries),
         NEW j \in 1 .. Len(entries), i < j, Climb(entries, id)[j] # None
  PROVE  Climb(entries, id)[j] \in Above(entries, Climb(entries, id)[i])
<1>0. SessionFile(entries) /\ IsSeq(entries)
  BY DEF Forest, SessionFile
<1> DEFINE n == Len(entries)
           up == Climb(entries, id)
<1>1. n \in Nat
  BY <1>0, ClimbSteps
<1>2. j - i \in 0 .. n - i /\ j - i \in 1 .. n /\ i + (j - i) = j
  BY <1>1
<1>3. \A k \in 0 .. n - i : Climb(entries, up[i])[k] = up[i + k]
  BY <1>0, ClimbShift
<1>4. Climb(entries, up[i])[j - i] = up[j]
  BY <1>2, <1>3
<1>5. QED
  BY <1>0, <1>2, <1>4, ClimbValues

LEMMA AboveTrans ==
  ASSUME NEW entries, Forest(entries), NEW id, NEW a \in Above(entries, id)
  PROVE  Above(entries, a) \subseteq Above(entries, id)
<1>0. SessionFile(entries) /\ IsSeq(entries)
  BY DEF Forest, SessionFile
<1> DEFINE n == Len(entries)
           up == Climb(entries, id)
           Bad == {k \in 1 .. n : up[k] # None /\ ~(Above(entries, up[k]) \subseteq Above(entries, id))}
<1>1. n \in Nat /\ up[0] = id /\ \A k \in 1 .. n : up[k] = ParentOf(entries, up[k - 1])
  BY <1>0, ClimbSteps
<1>2. ParentOf(entries, None) = None
  BY <1>0, ParentIs
<1> HIDE DEF n, up
<1>3. ASSUME NEW k \in Bad, \A j \in Bad : k <= j PROVE FALSE
  <2>1. k \in 1 .. n /\ up[k] # None /\ up[k] = ParentOf(entries, up[k - 1])
    BY <1>1
  <2>2. Above(entries, up[k]) \subseteq Above(entries, up[k - 1])
    <3>1. \A b : b \in Above(entries, up[k - 1]) <=>
                  /\ ParentOf(entries, up[k - 1]) # None
                  /\ \/ b = ParentOf(entries, up[k - 1])
                     \/ b \in Above(entries, ParentOf(entries, up[k - 1]))
      BY AboveIs, Zenon
    <3>2. QED
      BY <2>1, <3>1
  <2>3. CASE k = 1
    BY <1>1, <1>3, <2>2, <2>3
  <2>4. CASE k # 1
    <3>1. k - 1 \in 1 .. n /\ k - 1 \notin Bad
      BY <1>1, <1>3, <2>1, <2>4
    <3>2. up[k - 1] # None
      BY <1>2, <2>1
    <3>3. QED
      BY <1>3, <2>2, <3>1, <3>2
  <2>5. QED
    BY <2>3, <2>4
<1>4. Bad \subseteq Nat
  BY <1>1
<1>5. Bad = {}
  <2> HIDE DEF Bad
  <2> QED BY <1>3, <1>4, LeastOf
<1>6. PICK k \in 1 .. n : up[k] = a /\ a # None
  BY <1>0, ClimbValues DEF n, up
<1>7. QED
  BY <1>5, <1>6

\* Of two ancestors one is above the other.
LEMMA AboveChain ==
  ASSUME NEW entries, Forest(entries), NEW id,
         NEW a \in Above(entries, id), NEW b \in Above(entries, id), a # b
  PROVE  a \in Above(entries, b) \/ b \in Above(entries, a)
<1>0. SessionFile(entries) /\ IsSeq(entries)
  BY DEF Forest, SessionFile
<1> DEFINE n == Len(entries)
           up == Climb(entries, id)
<1>1. n \in Nat
  BY <1>0, ClimbSteps
<1>2. /\ a # None /\ b # None
      /\ \E k \in 1 .. n : up[k] = a
      /\ \E k \in 1 .. n : up[k] = b
  BY <1>0, ClimbValues
<1>3. PICK i \in 1 .. n : up[i] = a
  BY <1>2
<1>4. PICK j \in 1 .. n : up[j] = b
  BY <1>2
<1>5. i \in 0 .. n /\ j \in 0 .. n /\ (i < j \/ j < i)
  BY <1>1, <1>3, <1>4
<1>6. QED
  BY <1>2, <1>3, <1>4, <1>5, ClimbAbove

-----------------------------------------------------------------------------
(* The children of an entry.                                                *)

\* s holds every element of S once; those on the path stand first.
Lists(s, S) ==
  /\ IsSeq(s)
  /\ \A i \in 1 .. Len(s) : s[i] \in S
  /\ \A x \in S : \E i \in 1 .. Len(s) : s[i] = x
  /\ \A i, j \in 1 .. Len(s) : s[i] = s[j] => i = j
PathFirst(s, path) ==
  \A i, j \in 1 .. Len(s) : i < j /\ s[j] \in path => s[i] \in path

LEMMA SubsequenceLists ==
  ASSUME NEW s, NEW S, Lists(s, S), NEW I, I \subseteq 1 .. Len(s)
  PROVE  Lists(Subsequence(s, I), {s[i] : i \in I})
<1> DEFINE t == Subsequence(s, I)
<1>1. IsSeq(s)
  BY DEF Lists
<1>2. IsSeq(t) /\ \E pos : Embeds(s, I, t, pos)
  BY <1>1, SubsequenceEmbeds
<1>3. PICK pos : Embeds(s, I, t, pos)
  BY <1>2
<1>4. Len(t) \in Nat
  BY <1>2, IsSeqOf DEF IsSeq
<1> HIDE DEF t
<1>5. /\ \A k \in 1 .. Len(t) : pos[k] \in I /\ t[k] = s[pos[k]]
      /\ \A k, l \in 1 .. Len(t) : k < l => pos[k] < pos[l]
      /\ \A i \in I : \E k \in 1 .. Len(t) : pos[k] = i
  BY <1>3 DEF Embeds
<1>6. \A k, l \in 1 .. Len(t) : t[k] = t[l] => k = l
  <2> SUFFICES ASSUME NEW k \in 1 .. Len(t), NEW l \in 1 .. Len(t), t[k] = t[l]
               PROVE  k = l
    OBVIOUS
  <2>0. /\ pos[k] \in 1 .. Len(s) /\ pos[l] \in 1 .. Len(s)
        /\ s[pos[k]] = s[pos[l]]
    BY <1>5
  <2>1. pos[k] = pos[l]
    BY <2>0 DEF Lists
  <2>2. ~(k < l) /\ ~(l < k)
    BY <1>5, <2>0, <2>1
  <2>3. QED
    BY <1>4, <2>2
<1>7. \A k \in 1 .. Len(t) : t[k] \in {s[i] : i \in I}
  BY <1>5
<1>8. \A x \in {s[i] : i \in I} : \E k \in 1 .. Len(t) : t[k] = x
  BY <1>5
<1>9. QED
  BY <1>2, <1>6, <1>7, <1>8 DEF Lists, t

LEMMA ActiveFirstLists ==
  ASSUME NEW ids, NEW S, Lists(ids, S), NEW path
  PROVE  Lists(ActiveFirst(ids, path), S) /\ PathFirst(ActiveFirst(ids, path), path)
<1> DEFINE I == {i \in 1 .. Len(ids) : ids[i] \in path}
           J == {i \in 1 .. Len(ids) : ids[i] \notin path}
           s == Subsequence(ids, I)
           t == Subsequence(ids, J)
           r == s \o t
<1>1. Lists(s, {ids[i] : i \in I}) /\ Lists(t, {ids[i] : i \in J})
  BY SubsequenceLists
<1>2. ActiveFirst(ids, path) = r
  BY DEF ActiveFirst
<1>3. /\ {ids[i] : i \in I} = S \cap path
      /\ {ids[i] : i \in J} = S \ path
  BY DEF Lists
<1> HIDE DEF s, t
<1>4. Lists(s, S \cap path) /\ Lists(t, S \ path)
  BY <1>1, <1>3
<1>5. /\ IsSeq(r) /\ Len(s) \in Nat /\ Len(t) \in Nat /\ Len(r) = Len(s) + Len(t)
      /\ \A i \in 1 .. Len(s) : r[i] = s[i]
      /\ \A i \in Len(s) + 1 .. Len(s) + Len(t) : r[i] = t[i - Len(s)]
  BY <1>4, ConcatAny DEF Lists
<1> HIDE DEF r
<1>6. /\ \A i \in 1 .. Len(s) : s[i] \in S \cap path
      /\ \A x \in S \cap path : \E i \in 1 .. Len(s) : s[i] = x
      /\ \A i, j \in 1 .. Len(s) : s[i] = s[j] => i = j
  BY <1>4 DEF Lists
<1>7. /\ \A i \in 1 .. Len(t) : t[i] \in S \ path
      /\ \A x \in S \ path : \E i \in 1 .. Len(t) : t[i] = x
      /\ \A i, j \in 1 .. Len(t) : t[i] = t[j] => i = j
  BY <1>4 DEF Lists
<1>8. \A i \in 1 .. Len(r) : \/ i \in 1 .. Len(s) /\ r[i] = s[i] /\ r[i] \in S \cap path
                             \/ /\ i \in Len(s) + 1 .. Len(s) + Len(t)
                                /\ i - Len(s) \in 1 .. Len(t)
                                /\ r[i] = t[i - Len(s)] /\ r[i] \in S \ path
  <2> SUFFICES ASSUME NEW i \in 1 .. Len(r)
               PROVE  \/ i \in 1 .. Len(s) /\ r[i] = s[i] /\ r[i] \in S \cap path
                      \/ /\ i \in Len(s) + 1 .. Len(s) + Len(t)
                         /\ i - Len(s) \in 1 .. Len(t)
                         /\ r[i] = t[i - Len(s)] /\ r[i] \in S \ path
    OBVIOUS
  <2>1. CASE i <= Len(s)
    <3>1. i \in 1 .. Len(s)
      BY <1>5, <2>1
    <3>2. QED
      BY <1>5, <1>6, <3>1
  <2>2. CASE ~(i <= Len(s))
    <3>1. i \in Len(s) + 1 .. Len(s) + Len(t) /\ i - Len(s) \in 1 .. Len(t)
      BY <1>5, <2>2
    <3>2. QED
      BY <1>5, <1>7, <3>1
  <2>3. QED
    BY <2>1, <2>2
<1>9. \A x \in S : \E i \in 1 .. Len(r) : r[i] = x
  <2> SUFFICES ASSUME NEW x \in S PROVE \E i \in 1 .. Len(r) : r[i] = x
    OBVIOUS
  <2>1. CASE x \in path
    <3>1. PICK i \in 1 .. Len(s) : s[i] = x
      BY <1>6, <2>1
    <3>2. i \in 1 .. Len(r)
      BY <1>5
    <3>3. QED
      BY <1>5, <3>1, <3>2
  <2>2. CASE x \notin path
    <3>1. PICK i \in 1 .. Len(t) : t[i] = x
      BY <1>7, <2>2
    <3>2. /\ Len(s) + i \in 1 .. Len(r) /\ Len(s) + i \in Len(s) + 1 .. Len(s) + Len(t)
          /\ (Len(s) + i) - Len(s) = i
      BY <1>5
    <3>3. r[Len(s) + i] = x
      BY <1>5, <3>1, <3>2
    <3>4. QED
      BY <3>2, <3>3
  <2>3. QED
    BY <2>1, <2>2
<1>10. \A i, j \in 1 .. Len(r) : r[i] = r[j] => i = j
  <2> SUFFICES ASSUME NEW i \in 1 .. Len(r), NEW j \in 1 .. Len(r), r[i] = r[j]
               PROVE  i = j
    OBVIOUS
  <2>1. CASE r[i] \in path
    BY <1>6, <1>8, <2>1
  <2>2. CASE r[i] \notin path
    <3>1. i - Len(s) = j - Len(s)
      BY <1>7, <1>8, <2>2
    <3>2. QED
      BY <1>5, <3>1
  <2>3. QED
    BY <2>1, <2>2
<1>11. PathFirst(r, path)
  <2> SUFFICES ASSUME NEW i \in 1 .. Len(r), NEW j \in 1 .. Len(r), i < j, r[j] \in path
               PROVE  r[i] \in path
    BY DEF PathFirst
  <2>1. j \in 1 .. Len(s)
    BY <1>8
  <2>2. ~(i \in Len(s) + 1 .. Len(s) + Len(t))
    BY <1>5, <2>1
  <2>3. QED
    BY <1>8, <2>2
<1>12. \A i \in 1 .. Len(r) : r[i] \in S
  BY <1>8
<1>13. QED
  BY <1>2, <1>5, <1>9, <1>10, <1>11, <1>12 DEF Lists

\* What the loop puts on the stack.
Kids(entries, id) == {c \in Ids(entries) : ParentOf(entries, c) = id}

LEMMA BelowLists ==
  ASSUME NEW entries, SessionFile(entries), NEW leaf, NEW id
  PROVE  /\ Lists(Below(entries, leaf, id), Kids(entries, id))
         /\ PathFirst(Below(entries, leaf, id), ActivePath(entries, leaf))
<1> DEFINE n == Len(entries)
           ids == [i \in 1 .. n |-> entries[i].id]
           I == {i \in 1 .. n : ParentOf(entries, entries[i].id) = id}
<1>1. n \in Nat /\ \A i, j \in 1 .. n : entries[i].id = entries[j].id => i = j
  BY IdsFinite DEF SessionFile
<1>2. ids \in [1 .. n -> Ids(entries)]
  BY DEF Ids
<1>3. IsSeq(ids) /\ Len(ids) = n
  BY <1>1, <1>2, FunctionIsSeq
<1>4. Lists(ids, Ids(entries))
  <2>1. \A i \in 1 .. n : ids[i] = entries[i].id
    OBVIOUS
  <2>2. \A x \in Ids(entries) : \E i \in 1 .. n : ids[i] = x
    BY DEF Ids
  <2> HIDE DEF ids
  <2>3. \A i, j \in 1 .. n : ids[i] = ids[j] => i = j
    BY <1>1, <2>1
  <2>4. QED
    BY <1>2, <1>3, <2>2, <2>3 DEF Lists
<1>5. Lists(Subsequence(ids, I), {ids[i] : i \in I})
  BY <1>3, <1>4, SubsequenceLists
<1>6. {ids[i] : i \in I} = Kids(entries, id)
  BY DEF Kids, Ids
<1>7. ChildrenIn(entries, id) = Subsequence(ids, I)
  BY DEF ChildrenIn
<1>8. Lists(ChildrenIn(entries, id), Kids(entries, id))
  BY <1>5, <1>6, <1>7
<1>9. QED
  BY <1>8, ActiveFirstLists DEF Below

-----------------------------------------------------------------------------
(* The order in which flattenAll takes the entries.                         *)

LEMMA PathIs ==
  ASSUME NEW entries, Forest(entries), NEW leaf
  PROVE  /\ \A x \in ActivePath(entries, leaf) : Above(entries, x) \subseteq ActivePath(entries, leaf)
         /\ \A x, y \in ActivePath(entries, leaf) :
              x = y \/ x \in Above(entries, y) \/ y \in Above(entries, x)
<1> DEFINE path == ActivePath(entries, leaf)
<1>1. \A x : x \in path <=> x # None /\ (x = leaf \/ x \in Above(entries, leaf))
  BY DEF ActivePath
<1>2. \A x : None \notin Above(entries, x)
  BY DEF Above
<1>3. ASSUME NEW x \in path PROVE Above(entries, x) \subseteq path
  BY <1>1, <1>2, AboveTrans
<1>4. ASSUME NEW x \in path, NEW y \in path
      PROVE  x = y \/ x \in Above(entries, y) \/ y \in Above(entries, x)
  BY <1>1, AboveChain
<1>5. QED
  BY <1>3, <1>4

Distinct(s) == \A i, j \in 1 .. Len(s) : s[i] = s[j] => i = j

\* Ancestors come first, what is between two entries one of which is above the
\* other is below it too, and the path comes first.
Preorder(entries, path, flat) ==
  /\ IsSeq(flat) /\ Distinct(flat)
  /\ \A i \in 1 .. Len(flat) : flat[i] \in Ids(entries)
  /\ \A i \in 1 .. Len(flat) : \A a \in Above(entries, flat[i]) :
       \E j \in 1 .. Len(flat) : j < i /\ flat[j] = a
  /\ \A i, j, k \in 1 .. Len(flat) :
       i < j /\ j < k /\ flat[i] \in Above(entries, flat[k]) => flat[i] \in Above(entries, flat[j])
  /\ PathFirst(flat, path)

\* The entries on the stack, of which the first comes next: all that hang from
\* those taken.
Ahead(entries, path, flat, stack) ==
  /\ IsSeq(stack) /\ Distinct(stack)
  /\ \A k \in 1 .. Len(stack) :
       /\ stack[k] \in Ids(entries)
       /\ \A i \in 1 .. Len(flat) : flat[i] # stack[k]
       /\ \A a \in Above(entries, stack[k]) : \E i \in 1 .. Len(flat) : flat[i] = a
  /\ \A id \in Ids(entries) :
       \/ \E i \in 1 .. Len(flat) : flat[i] = id
       \/ \E k \in 1 .. Len(stack) : stack[k] = id
       \/ /\ ParentOf(entries, id) # None
          /\ \A i \in 1 .. Len(flat) : flat[i] # ParentOf(entries, id)
  /\ PathFirst(stack, path)

\* The two together.
Between(entries, path, flat, stack) ==
  /\ \A i, j \in 1 .. Len(flat), k \in 1 .. Len(stack) :
       i < j /\ flat[i] \in Above(entries, stack[k]) => flat[i] \in Above(entries, flat[j])
  /\ \A i \in 1 .. Len(flat), j, k \in 1 .. Len(stack) :
       j < k /\ flat[i] \in Above(entries, stack[k]) => flat[i] \in Above(entries, stack[j])
  /\ \A i \in 1 .. Len(flat), k \in 1 .. Len(stack) : stack[k] \in path => flat[i] \in path

Planted(entries, path, loop) ==
  /\ Preorder(entries, path, loop.flat)
  /\ Ahead(entries, path, loop.flat, loop.stack)
  /\ Between(entries, path, loop.flat, loop.stack)

\* The stack after a visit: the children of its head, then the rest.
Replaced(entries, path, stack, rest, c) ==
  /\ c \in Nat /\ IsSeq(rest)
  /\ \A k \in 1 .. Len(rest) :
       \/ k \in 1 .. c /\ rest[k] \in Kids(entries, stack[1])
       \/ k \notin 1 .. c /\ k - c + 1 \in 2 .. Len(stack) /\ rest[k] = stack[k - c + 1]
  /\ \A x \in Kids(entries, stack[1]) : \E k \in 1 .. Len(rest) : rest[k] = x
  /\ \A k \in 2 .. Len(stack) : \E l \in 1 .. Len(rest) : rest[l] = stack[k]
  /\ \A k, l \in 1 .. c : rest[k] = rest[l] => k = l
  /\ \A k, l \in 1 .. c : k < l /\ rest[l] \in path => rest[k] \in path

LEMMA StackReplaced ==
  ASSUME NEW entries, SessionFile(entries), NEW leaf, NEW stack, IsSeq(stack), stack # <<>>
  PROVE  /\ Head(stack) = stack[1] /\ Len(stack) >= 1 /\ Len(stack) \in Nat
         /\ \E c : Replaced(entries, ActivePath(entries, leaf), stack,
                            Below(entries, leaf, Head(stack)) \o Tail(stack), c)
<1> DEFINE path == ActivePath(entries, leaf)
           h == Head(stack)
           C == Below(entries, leaf, h)
           T == Tail(stack)
           c == Len(C)
           rest == C \o T
<1>1. PICK S : stack \in Seq(S)
  BY DEF IsSeq
<1>2. h = stack[1] /\ Len(stack) \in Nat /\ Len(stack) >= 1
  <2>1. Len(stack) \in Nat
    BY <1>1, IsSeqOf
  <2>2. Len(stack) # 0
    BY <1>1, EmptySeq
  <2>3. h = stack[1]
    BY <1>1 DEF Head
  <2>4. QED
    BY <2>1, <2>2, <2>3
<1>3. /\ T \in Seq(S) /\ Len(T) = Len(stack) - 1
      /\ \A i \in 1 .. Len(T) : T[i] = stack[i + 1]
  BY <1>1, HeadTailProperties
<1>4. IsSeq(T)
  BY <1>3, IsSeqOf
<1>5. Lists(C, Kids(entries, h)) /\ PathFirst(C, path)
  BY BelowLists
<1>6. /\ IsSeq(rest) /\ c \in Nat /\ Len(rest) = c + Len(T)
      /\ \A i \in 1 .. c : rest[i] = C[i]
      /\ \A i \in c + 1 .. c + Len(T) : rest[i] = T[i - c]
  <2>1. IsSeq(C)
    BY <1>5 DEF Lists
  <2> HIDE DEF C, T
  <2>2. QED
    BY <1>4, <2>1, ConcatAny
<1> HIDE DEF h, C, T, c, rest
<1>7. /\ \A k \in 1 .. c : C[k] \in Kids(entries, h)
      /\ \A x \in Kids(entries, h) : \E k \in 1 .. c : C[k] = x
      /\ \A k, l \in 1 .. c : C[k] = C[l] => k = l
      /\ \A k, l \in 1 .. c : k < l /\ C[l] \in path => C[k] \in path
  BY <1>5 DEF Lists, PathFirst, c
<1>8. ASSUME NEW k \in 1 .. Len(rest)
      PROVE  \/ k \in 1 .. c /\ rest[k] \in Kids(entries, h)
             \/ k \notin 1 .. c /\ k - c + 1 \in 2 .. Len(stack) /\ rest[k] = stack[k - c + 1]
  <2>1. CASE k \in 1 .. c
    BY <1>6, <1>7, <2>1
  <2>2. CASE k \notin 1 .. c
    <3>1. k \in c + 1 .. c + Len(T) /\ k - c \in 1 .. Len(T) /\ k - c + 1 \in 2 .. Len(stack)
      BY <1>2, <1>3, <1>6, <2>2
    <3>2. QED
      BY <1>3, <1>6, <2>2, <3>1
  <2>3. QED
    BY <2>1, <2>2
<1>9. \A x \in Kids(entries, h) : \E k \in 1 .. Len(rest) : rest[k] = x
  <2>1. \A k \in 1 .. c : k \in 1 .. Len(rest)
    BY <1>2, <1>3, <1>6
  <2>2. QED
    BY <1>6, <1>7, <2>1
<1>10. ASSUME NEW k \in 2 .. Len(stack)
       PROVE  \E l \in 1 .. Len(rest) : rest[l] = stack[k]
  <2>1. /\ c + k - 1 \in 1 .. Len(rest) /\ c + k - 1 \in c + 1 .. c + Len(T)
        /\ (c + k - 1) - c = k - 1 /\ k - 1 \in 1 .. Len(T) /\ (k - 1) + 1 = k
    BY <1>2, <1>3, <1>6
  <2>2. rest[c + k - 1] = stack[k]
    BY <1>3, <1>6, <2>1
  <2>3. QED
    BY <2>1, <2>2
<1>11. /\ \A k, l \in 1 .. c : rest[k] = rest[l] => k = l
       /\ \A k, l \in 1 .. c : k < l /\ rest[l] \in path => rest[k] \in path
  BY <1>6, <1>7
<1>12. Replaced(entries, path, stack, rest, c)
  BY <1>2, <1>6, <1>8, <1>9, <1>10, <1>11 DEF Replaced
<1>13. QED
  BY <1>2, <1>12 DEF h, C, T, rest

\* A visit keeps what is planted.
LEMMA PreorderVisited ==
  ASSUME NEW entries, NEW path, NEW flat, NEW stack, NEW new,
         Preorder(entries, path, flat), Ahead(entries, path, flat, stack),
         Between(entries, path, flat, stack), 1 \in 1 .. Len(stack),
         new = Append(flat, stack[1])
  PROVE  /\ Preorder(entries, path, new)
         /\ Len(flat) \in Nat /\ Len(new) = Len(flat) + 1 /\ new[Len(flat) + 1] = stack[1]
         /\ \A i \in 1 .. Len(flat) : new[i] = flat[i]
<1> DEFINE n == Len(flat)
           h == stack[1]
<1>1. /\ IsSeq(new) /\ n \in Nat /\ Len(new) = n + 1 /\ new[n + 1] = h
      /\ \A i \in 1 .. n : new[i] = flat[i]
  BY AppendAny DEF Preorder
<1>2. /\ h \in Ids(entries)
      /\ \A i \in 1 .. n : flat[i] # h
      /\ \A a \in Above(entries, h) : \E i \in 1 .. n : flat[i] = a
  BY DEF Ahead
<1>3. /\ \A i, j \in 1 .. n : flat[i] = flat[j] => i = j
      /\ \A i \in 1 .. n : flat[i] \in Ids(entries)
      /\ \A i \in 1 .. n : \A a \in Above(entries, flat[i]) :
           \E j \in 1 .. n : j < i /\ flat[j] = a
      /\ \A i, j, k \in 1 .. n :
           i < j /\ j < k /\ flat[i] \in Above(entries, flat[k]) => flat[i] \in Above(entries, flat[j])
      /\ \A i, j \in 1 .. n : i < j /\ flat[j] \in path => flat[i] \in path
  BY DEF Preorder, Distinct, PathFirst
<1>4. /\ \A i, j \in 1 .. n : i < j /\ flat[i] \in Above(entries, h) => flat[i] \in Above(entries, flat[j])
      /\ \A i \in 1 .. n : h \in path => flat[i] \in path
  BY DEF Between
<1> HIDE DEF n, h
<1>5. \A i \in 1 .. Len(new) : i \in 1 .. n \/ i = n + 1
  BY <1>1
<1>6. \A i, j \in 1 .. Len(new) : i < j => i \in 1 .. n
  BY <1>1
<1>7. Distinct(new)
  <2> SUFFICES ASSUME NEW i \in 1 .. Len(new), NEW j \in 1 .. Len(new), new[i] = new[j]
               PROVE  i = j
    BY DEF Distinct
  <2>1. CASE i \in 1 .. n /\ j \in 1 .. n
    BY <1>1, <1>3, <2>1
  <2>2. CASE i = n + 1 \/ j = n + 1
    BY <1>1, <1>2, <1>5, <2>2
  <2>3. QED
    BY <1>5, <2>1, <2>2
<1>8. \A i \in 1 .. Len(new) : new[i] \in Ids(entries)
  BY <1>1, <1>2, <1>3, <1>5
<1>9. \A i \in 1 .. Len(new) : \A a \in Above(entries, new[i]) :
        \E j \in 1 .. Len(new) : j < i /\ new[j] = a
  <2> SUFFICES ASSUME NEW i \in 1 .. Len(new), NEW a \in Above(entries, new[i])
               PROVE  \E j \in 1 .. Len(new) : j < i /\ new[j] = a
    OBVIOUS
  <2>1. \E j \in 1 .. n : j < i /\ flat[j] = a
    <3>1. CASE i \in 1 .. n
      BY <1>1, <1>3, <3>1
    <3>2. CASE i = n + 1
      <4>1. PICK j \in 1 .. n : flat[j] = a
        BY <1>1, <1>2, <3>2
      <4>2. j < i
        BY <1>1, <3>2
      <4>3. QED
        BY <4>1, <4>2
    <3>3. QED
      BY <1>5, <3>1, <3>2
  <2>2. \A j \in 1 .. n : j \in 1 .. Len(new)
    BY <1>1
  <2>3. QED
    BY <1>1, <2>1, <2>2
<1>10. \A i, j, k \in 1 .. Len(new) :
         i < j /\ j < k /\ new[i] \in Above(entries, new[k]) => new[i] \in Above(entries, new[j])
  <2> SUFFICES ASSUME NEW i \in 1 .. Len(new), NEW j \in 1 .. Len(new), NEW k \in 1 .. Len(new),
                      i < j, j < k, new[i] \in Above(entries, new[k])
               PROVE  new[i] \in Above(entries, new[j])
    OBVIOUS
  <2>1. i \in 1 .. n /\ j \in 1 .. n /\ new[i] = flat[i] /\ new[j] = flat[j]
    BY <1>1, <1>6
  <2>2. CASE k \in 1 .. n
    BY <1>1, <1>3, <2>1, <2>2
  <2>3. CASE k = n + 1
    BY <1>1, <1>4, <2>1, <2>3
  <2>4. QED
    BY <1>5, <2>2, <2>3
<1>11. PathFirst(new, path)
  <2> SUFFICES ASSUME NEW i \in 1 .. Len(new), NEW j \in 1 .. Len(new), i < j, new[j] \in path
               PROVE  new[i] \in path
    BY DEF PathFirst
  <2>1. i \in 1 .. n /\ new[i] = flat[i]
    BY <1>1, <1>6
  <2>2. CASE j \in 1 .. n
    BY <1>1, <1>3, <2>1, <2>2
  <2>3. CASE j = n + 1
    BY <1>1, <1>4, <2>1, <2>3
  <2>4. QED
    BY <1>5, <2>2, <2>3
<1>12. Preorder(entries, path, new)
  BY <1>1, <1>7, <1>8, <1>9, <1>10, <1>11 DEF Preorder
<1>13. QED
  BY <1>1, <1>12 DEF n, h

LEMMA AheadVisited ==
  ASSUME NEW entries, Forest(entries), NEW leaf, NEW path, path = ActivePath(entries, leaf),
         NEW flat, NEW stack, NEW new, NEW rest, NEW c,
         Preorder(entries, path, flat), Ahead(entries, path, flat, stack),
         Between(entries, path, flat, stack), 1 \in 1 .. Len(stack), Len(stack) \in Nat,
         new = Append(flat, stack[1]), Replaced(entries, path, stack, rest, c)
  PROVE  Ahead(entries, path, new, rest) /\ Between(entries, path, new, rest)
<1> DEFINE n == Len(flat)
           h == stack[1]
           Up(id) == Above(entries, id)
<1>1. /\ n \in Nat /\ Len(new) = n + 1 /\ new[n + 1] = h
      /\ \A i \in 1 .. n : new[i] = flat[i]
  BY PreorderVisited
<1>2. /\ \A i, j \in 1 .. n : flat[i] = flat[j] => i = j
      /\ \A i \in 1 .. n : flat[i] \in Ids(entries)
      /\ \A i \in 1 .. n : \A a \in Up(flat[i]) : \E j \in 1 .. n : j < i /\ flat[j] = a
  BY DEF Preorder, Distinct
<1>3. /\ IsSeq(stack)
      /\ \A k, l \in 1 .. Len(stack) : stack[k] = stack[l] => k = l
      /\ \A k \in 1 .. Len(stack) :
           /\ stack[k] \in Ids(entries)
           /\ \A i \in 1 .. n : flat[i] # stack[k]
           /\ \A a \in Up(stack[k]) : \E i \in 1 .. n : flat[i] = a
      /\ \A id \in Ids(entries) :
           \/ \E i \in 1 .. n : flat[i] = id
           \/ \E k \in 1 .. Len(stack) : stack[k] = id
           \/ /\ ParentOf(entries, id) # None
              /\ \A i \in 1 .. n : flat[i] # ParentOf(entries, id)
      /\ \A k, l \in 1 .. Len(stack) : k < l /\ stack[l] \in path => stack[k] \in path
  BY DEF Ahead, Distinct, PathFirst
<1>4. /\ \A i, j \in 1 .. n, k \in 1 .. Len(stack) :
           i < j /\ flat[i] \in Up(stack[k]) => flat[i] \in Up(flat[j])
      /\ \A i \in 1 .. n, j, k \in 1 .. Len(stack) :
           j < k /\ flat[i] \in Up(stack[k]) => flat[i] \in Up(stack[j])
      /\ \A i \in 1 .. n, k \in 1 .. Len(stack) : stack[k] \in path => flat[i] \in path
  BY DEF Between
<1>5. /\ c \in Nat /\ IsSeq(rest) /\ Len(rest) \in Nat
      /\ \A k \in 1 .. Len(rest) :
           \/ k \in 1 .. c /\ rest[k] \in Kids(entries, h)
           \/ k \notin 1 .. c /\ k - c + 1 \in 2 .. Len(stack) /\ rest[k] = stack[k - c + 1]
      /\ \A x \in Kids(entries, h) : \E k \in 1 .. Len(rest) : rest[k] = x
      /\ \A k \in 2 .. Len(stack) : \E l \in 1 .. Len(rest) : rest[l] = stack[k]
      /\ \A k, l \in 1 .. c : rest[k] = rest[l] => k = l
      /\ \A k, l \in 1 .. c : k < l /\ rest[l] \in path => rest[k] \in path
  BY IsSeqOf DEF Replaced, IsSeq
\* The ancestors of a child, and of those that stay on the stack.
<1>6. ASSUME NEW x \in Kids(entries, h)
      PROVE  /\ x \in Ids(entries) /\ x # h /\ \A i \in 1 .. n : flat[i] # x
             /\ \A a : a \in Up(x) <=> a = h \/ a \in Up(h)
             /\ \A k \in 1 .. Len(stack) : stack[k] # x
             /\ x \in path => h \in path
  <2>1. x \in Ids(entries) /\ ParentOf(entries, x) = h /\ h # None
    <3>1. h \in Ids(entries)
      BY <1>3
    <3>2. QED
      BY <3>1 DEF Kids, Forest, SessionFile
  <2>2. \A a : a \in Up(x) <=> a = h \/ a \in Up(h)
    <3>1. \A a : a \in Up(x) <=>
                  /\ ParentOf(entries, x) # None
                  /\ \/ a = ParentOf(entries, x)
                     \/ a \in Above(entries, ParentOf(entries, x))
      BY AboveIs, Zenon
    <3>2. QED
      BY <2>1, <3>1
  <2>3. h \in Up(x) /\ \A i \in 1 .. n : flat[i] # h
    BY <1>3, <2>2
  <2>4. x # h
    BY <2>1, <2>3 DEF Forest
  <2>5. \A i \in 1 .. n : flat[i] # x
    BY <1>2, <2>3
  <2>6. \A k \in 1 .. Len(stack) : stack[k] # x
    BY <1>3, <2>3
  <2>7. x \in path => h \in path
    BY <2>3, PathIs
  <2>8. QED
    BY <2>1, <2>2, <2>4, <2>5, <2>6, <2>7
<1>7. ASSUME NEW k \in 2 .. Len(stack)
      PROVE  stack[k] # h /\ h \notin Up(stack[k]) /\ stack[k] \notin path /\ k \in 1 .. Len(stack)
  <2>1. k \in 1 .. Len(stack) /\ k # 1 /\ 1 < k
    OBVIOUS
  <2>2. stack[k] # h
    BY <1>3, <2>1
  <2>3. h \notin Up(stack[k])
    BY <1>3, <2>1
  <2>4. stack[k] \notin Up(h)
    <3>1. \A a \in Up(stack[1]) : \E i \in 1 .. n : flat[i] = a
      BY <1>3
    <3>2. \A i \in 1 .. n : flat[i] # stack[k]
      BY <1>3, <2>1
    <3>3. QED
      BY <3>1, <3>2
  <2>5. ASSUME stack[k] \in path PROVE FALSE
    <3>1. h \in path
      BY <1>3, <2>1, <2>5
    <3>2. QED
      BY <2>2, <2>3, <2>4, <2>5, <3>1, PathIs
  <2>6. QED
    BY <2>1, <2>2, <2>3, <2>5
<1> HIDE DEF n, h, Up
<1>8. \A i \in 1 .. Len(new) : \/ i \in 1 .. n /\ new[i] = flat[i]
                               \/ i = n + 1 /\ new[i] = h
  BY <1>1
<1>9. \A k, l \in 1 .. Len(rest) :
        k < l /\ l \in 1 .. c => k \in 1 .. c
  BY <1>5
<1>10. Distinct(rest)
  <2> SUFFICES ASSUME NEW k \in 1 .. Len(rest), NEW l \in 1 .. Len(rest), rest[k] = rest[l]
               PROVE  k = l
    BY DEF Distinct
  <2>1. CASE k \in 1 .. c /\ l \in 1 .. c
    BY <1>5, <2>1
  <2>2. CASE k \notin 1 .. c /\ l \notin 1 .. c
    <3>1. k - c + 1 \in 1 .. Len(stack) /\ l - c + 1 \in 1 .. Len(stack)
      BY <1>5, <1>7, <2>2
    <3>2. PICK a, b \in 1 .. Len(stack) : a = k - c + 1 /\ b = l - c + 1
      BY <3>1
    <3>3. stack[a] = stack[b]
      BY <1>5, <2>2, <3>2
    <3>4. a = b
      BY <1>3, <3>3
    <3>5. QED
      BY <1>5, <3>2, <3>4
  <2>3. CASE k \in 1 .. c /\ l \notin 1 .. c
    BY <1>5, <1>6, <1>7, <2>3
  <2>4. CASE k \notin 1 .. c /\ l \in 1 .. c
    BY <1>5, <1>6, <1>7, <2>4
  <2>5. QED
    BY <2>1, <2>2, <2>3, <2>4
<1>11. ASSUME NEW k \in 1 .. Len(rest)
       PROVE  /\ rest[k] \in Ids(entries)
              /\ \A i \in 1 .. Len(new) : new[i] # rest[k]
              /\ \A a \in Up(rest[k]) : \E i \in 1 .. Len(new) : new[i] = a
  <2>0. /\ \A i \in 1 .. n : i \in 1 .. Len(new)
        /\ n + 1 \in 1 .. Len(new)
        /\ 1 \in 1 .. Len(stack)
    BY <1>1
  <2>1. CASE k \in 1 .. c
    <3>1. rest[k] \in Kids(entries, h)
      BY <1>5, <2>1
    <3>2. /\ rest[k] \in Ids(entries) /\ rest[k] # h /\ \A i \in 1 .. n : flat[i] # rest[k]
          /\ \A a \in Up(rest[k]) : a = h \/ a \in Up(h)
      BY <1>6, <3>1
    <3>3. \A i \in 1 .. Len(new) : new[i] # rest[k]
      BY <1>8, <3>2
    <3>4. \A a \in Up(h) : \E i \in 1 .. n : flat[i] = a
      BY <1>3, <2>0 DEF h
    <3>5. \A a \in Up(rest[k]) : \E i \in 1 .. Len(new) : new[i] = a
      BY <1>1, <2>0, <3>2, <3>4
    <3>6. QED
      BY <3>2, <3>3, <3>5
  <2>2. CASE k \notin 1 .. c
    <3> DEFINE l == k - c + 1
    <3>1. l \in 2 .. Len(stack) /\ rest[k] = stack[l]
      BY <1>5, <2>2
    <3> HIDE DEF l
    <3>2. stack[l] # h /\ l \in 1 .. Len(stack)
      BY <1>7, <3>1
    <3>3. \A i \in 1 .. Len(new) : new[i] # rest[k]
      BY <1>3, <1>8, <3>1, <3>2
    <3>4. \A a \in Up(rest[k]) : \E i \in 1 .. Len(new) : new[i] = a
      BY <1>1, <1>3, <2>0, <3>1, <3>2
    <3>5. QED
      BY <1>3, <3>1, <3>2, <3>3, <3>4
  <2>3. QED
    BY <2>1, <2>2
<1>12. ASSUME NEW id \in Ids(entries)
       PROVE  \/ \E i \in 1 .. Len(new) : new[i] = id
              \/ \E k \in 1 .. Len(rest) : rest[k] = id
              \/ /\ ParentOf(entries, id) # None
                 /\ \A i \in 1 .. Len(new) : new[i] # ParentOf(entries, id)
  <2>0. (\A i \in 1 .. n : i \in 1 .. Len(new)) /\ n + 1 \in 1 .. Len(new)
    BY <1>1
  <2>1. CASE \E i \in 1 .. n : flat[i] = id
    BY <1>1, <2>0, <2>1
  <2>2. CASE \E k \in 1 .. Len(stack) : stack[k] = id
    <3>1. PICK k \in 1 .. Len(stack) : stack[k] = id
      BY <2>2
    <3>2. CASE k = 1
      BY <1>1, <2>0, <3>1, <3>2 DEF h
    <3>3. CASE k # 1
      <4>1. k \in 2 .. Len(stack)
        BY <3>3
      <4>2. QED
        BY <1>5, <3>1, <4>1
    <3>4. QED
      BY <3>2, <3>3
  <2>3. CASE /\ ParentOf(entries, id) # None
             /\ \A i \in 1 .. n : flat[i] # ParentOf(entries, id)
    <3>1. CASE ParentOf(entries, id) = h
      <4>1. id \in Kids(entries, h)
        BY <3>1 DEF Kids
      <4>2. QED
        BY <1>5, <4>1
    <3>2. CASE ParentOf(entries, id) # h
      BY <1>8, <2>3, <3>2
    <3>3. QED
      BY <3>1, <3>2
  <2>4. QED
    BY <1>3, <2>1, <2>2, <2>3
<1>13. \A k \in 1 .. Len(rest) : rest[k] \in path => k \in 1 .. c /\ h \in path
  BY <1>5, <1>6, <1>7
<1>14. PathFirst(rest, path)
  <2> SUFFICES ASSUME NEW k \in 1 .. Len(rest), NEW l \in 1 .. Len(rest), k < l, rest[l] \in path
               PROVE  rest[k] \in path
    BY DEF PathFirst
  <2>1. l \in 1 .. c /\ k \in 1 .. c
    BY <1>9, <1>13
  <2>2. QED
    BY <1>5, <2>1
<1>15. Ahead(entries, path, new, rest)
  BY <1>5, <1>10, <1>11, <1>12, <1>14 DEF Ahead, Up
<1>16. 1 \in 1 .. Len(stack) /\ stack[1] = h
  BY DEF h
<1>17. ASSUME NEW i \in 1 .. Len(new), NEW j \in 1 .. Len(new), NEW k \in 1 .. Len(rest),
              i < j, new[i] \in Up(rest[k])
       PROVE  new[i] \in Up(new[j])
  <2>1. i \in 1 .. n /\ new[i] = flat[i]
    BY <1>1, <1>17
  <2>2. new[i] \in Up(h) => new[i] \in Up(new[j])
    <3>1. CASE j \in 1 .. n
      BY <1>1, <1>4, <1>16, <1>17, <2>1, <3>1
    <3>2. CASE j = n + 1
      BY <1>1, <3>2
    <3>3. QED
      BY <1>8, <3>1, <3>2
  <2>3. CASE k \in 1 .. c
    <3>1. new[i] # h
      BY <1>3, <1>16, <2>1
    <3>2. new[i] \in Up(h)
      BY <1>5, <1>6, <1>17, <2>3, <3>1
    <3>3. QED
      BY <2>2, <3>2
  <2>4. CASE k \notin 1 .. c
    <3> DEFINE l == k - c + 1
    <3>1. l \in 2 .. Len(stack) /\ rest[k] = stack[l]
      BY <1>5, <2>4
    <3> HIDE DEF l
    <3>2. l \in 1 .. Len(stack) /\ 1 < l
      BY <3>1
    <3>3. CASE j \in 1 .. n
      BY <1>1, <1>4, <1>17, <2>1, <3>1, <3>2, <3>3
    <3>4. CASE j = n + 1
      BY <1>1, <1>4, <1>16, <1>17, <2>1, <3>1, <3>2, <3>4
    <3>5. QED
      BY <1>8, <3>3, <3>4
  <2>5. QED
    BY <2>3, <2>4
<1>18. ASSUME NEW i \in 1 .. Len(new), NEW k \in 1 .. Len(rest), NEW l \in 1 .. Len(rest),
              k < l, new[i] \in Up(rest[l])
       PROVE  new[i] \in Up(rest[k])
  <2>1. CASE l \in 1 .. c
    <3>1. k \in 1 .. c
      BY <1>9, <1>18, <2>1
    <3>2. QED
      BY <1>5, <1>6, <1>18, <2>1, <3>1
  <2>2. CASE l \notin 1 .. c
    <3> DEFINE m == l - c + 1
    <3>1. m \in 2 .. Len(stack) /\ rest[l] = stack[m]
      BY <1>5, <2>2
    <3>2. i \in 1 .. n /\ new[i] = flat[i]
      <4> HIDE DEF m
      <4>1. new[i] # h
        BY <1>7, <1>18, <3>1
      <4>2. QED
        BY <1>8, <4>1
    <3>3. CASE k \in 1 .. c
      <4>1. new[i] \in Up(h)
        <5> HIDE DEF m
        <5>1. m \in 1 .. Len(stack) /\ 1 < m
          BY <3>1
        <5>2. QED
          BY <1>4, <1>16, <1>18, <3>1, <3>2, <5>1
      <4>2. QED
        BY <1>5, <1>6, <3>3, <4>1
    <3>4. CASE k \notin 1 .. c
      <4> DEFINE p == k - c + 1
      <4>1. p \in 2 .. Len(stack) /\ rest[k] = stack[p] /\ p < m
        BY <1>5, <1>18, <3>4
      <4>2. p \in 1 .. Len(stack) /\ m \in 1 .. Len(stack)
        BY <3>1, <4>1
      <4> HIDE DEF p, m
      <4>3. QED
        BY <1>4, <1>18, <3>1, <3>2, <4>1, <4>2
    <3>5. QED
      BY <3>3, <3>4
  <2>3. QED
    BY <2>1, <2>2
<1>19. ASSUME NEW i \in 1 .. Len(new), NEW k \in 1 .. Len(rest), rest[k] \in path
       PROVE  new[i] \in path
  <2>1. h \in path
    BY <1>13, <1>19
  <2>2. QED
    BY <1>4, <1>8, <1>16, <2>1
<1>20. Between(entries, path, new, rest)
  BY <1>17, <1>18, <1>19, Zenon DEF Between, Up
<1>21. QED
  BY <1>15, <1>20

Start(entries, leaf) == [flat |-> <<>>, stack |-> Below(entries, leaf, None)]
LoopTable(entries, leaf, n, loop) ==
  loop = [k \in 0 .. n |-> IF k = 0 THEN Start(entries, leaf)
                           ELSE Visit(entries, leaf, loop[k - 1])]

LEMMA LoopTableExists ==
  ASSUME NEW entries, NEW leaf, NEW n \in Nat
  PROVE  \E loop : LoopTable(entries, leaf, n, loop)
<1> DEFINE Bad == {k \in Nat : ~ \E loop : LoopTable(entries, leaf, k, loop)}
<1>1. \E loop : LoopTable(entries, leaf, 0, loop)
  <2>1. LoopTable(entries, leaf, 0, [k \in 0 .. 0 |-> Start(entries, leaf)])
    BY DEF LoopTable
  <2> QED BY <2>1
<1>2. ASSUME NEW k \in Nat, k # 0, NEW loop, LoopTable(entries, leaf, k - 1, loop)
      PROVE  \E more : LoopTable(entries, leaf, k, more)
  <2> DEFINE more == [j \in 0 .. k |-> IF j = k THEN Visit(entries, leaf, loop[k - 1]) ELSE loop[j]]
  <2>1. \A j \in 0 .. k - 1 : loop[j] = IF j = 0 THEN Start(entries, leaf)
                                        ELSE Visit(entries, leaf, loop[j - 1])
    BY <1>2 DEF LoopTable
  <2>2. more[0] = Start(entries, leaf) /\ \A j \in 1 .. k : more[j] = Visit(entries, leaf, more[j - 1])
    <3>1. more[0] = Start(entries, leaf) /\ more[k] = Visit(entries, leaf, more[k - 1])
      BY <1>2, <2>1
    <3>2. \A j \in 1 .. k - 1 : more[j] = loop[j] /\ more[j - 1] = loop[j - 1]
      BY <1>2
    <3>3. \A j \in 1 .. k - 1 : loop[j] = Visit(entries, leaf, loop[j - 1])
      BY <1>2, <2>1
    <3>4. \A j \in 1 .. k : j = k \/ j \in 1 .. k - 1
      BY <1>2
    <3> HIDE DEF more
    <3>5. QED
      BY <3>1, <3>2, <3>3, <3>4
  <2>3. more = [j \in 0 .. k |-> IF j = 0 THEN Start(entries, leaf)
                                 ELSE Visit(entries, leaf, more[j - 1])]
    <3> HIDE DEF more
    <3>1. \A j \in 0 .. k : more[j] = IF j = 0 THEN Start(entries, leaf)
                                      ELSE Visit(entries, leaf, more[j - 1])
      BY <2>2
    <3>2. more = [j \in 0 .. k |-> more[j]]
      BY DEF more
    <3> QED BY <3>1, <3>2, Zenon
  <2>4. LoopTable(entries, leaf, k, more)
    BY <2>3, Zenon DEF LoopTable
  <2> QED BY <2>4
<1>3. ASSUME NEW k \in Bad, \A j \in Bad : k <= j PROVE FALSE
  <2>1. k \in Nat /\ k # 0
    BY <1>1, <1>3
  <2>2. k - 1 \in Nat /\ k - 1 \notin Bad
    BY <1>3, <2>1
  <2>3. QED
    BY <1>2, <1>3, <2>1, <2>2
<1>4. Bad \subseteq Nat
  OBVIOUS
<1>5. Bad = {}
  <2> HIDE DEF Bad
  <2> QED BY <1>3, <1>4, LeastOf
<1>6. QED
  BY <1>5

LEMMA FlattenSteps ==
  ASSUME NEW entries, IsSeq(entries), NEW leaf
  PROVE  \E loop : /\ FlattenAll(entries, leaf) = loop[Len(entries)].flat
                   /\ loop[0] = Start(entries, leaf)
                   /\ \A k \in 1 .. Len(entries) : loop[k] = Visit(entries, leaf, loop[k - 1])
<1>1. Len(entries) \in Nat
  BY IsSeqOf DEF IsSeq
<1> DEFINE loop == CHOOSE loop : LoopTable(entries, leaf, Len(entries), loop)
<1>2. LoopTable(entries, leaf, Len(entries), loop)
  BY <1>1, LoopTableExists
<1>3. FlattenAll(entries, leaf) = loop[Len(entries)].flat
  BY DEF FlattenAll, LoopTable, Start
<1> HIDE DEF loop
<1>4. /\ loop[0] = Start(entries, leaf)
      /\ \A k \in 1 .. Len(entries) : loop[k] = Visit(entries, leaf, loop[k - 1])
  BY <1>1, <1>2 DEF LoopTable
<1>5. QED
  BY <1>3, <1>4

LEMMA StartPlanted ==
  ASSUME NEW entries, Forest(entries), NEW leaf
  PROVE  Planted(entries, ActivePath(entries, leaf), Start(entries, leaf))
<1> DEFINE path == ActivePath(entries, leaf)
           stack == Below(entries, leaf, None)
<1>1. Start(entries, leaf).flat = <<>> /\ Start(entries, leaf).stack = stack
  BY DEF Start
<1>2. Lists(stack, Kids(entries, None)) /\ PathFirst(stack, path)
  BY BelowLists DEF Forest
<1>3. IsSeq(<<>>) /\ Len(<<>>) = 0
  BY ShortSeqs
<1> HIDE DEF path, stack
<1>4. \A i \in 1 .. Len(<<>>) : FALSE
  BY <1>3
<1>5. Preorder(entries, path, <<>>)
  BY <1>3, <1>4 DEF Preorder, Distinct, PathFirst
<1>6. /\ IsSeq(stack)
      /\ \A k \in 1 .. Len(stack) : stack[k] \in Kids(entries, None)
      /\ \A x \in Kids(entries, None) : \E k \in 1 .. Len(stack) : stack[k] = x
      /\ \A i, j \in 1 .. Len(stack) : stack[i] = stack[j] => i = j
  BY <1>2 DEF Lists
<1>7. \A x \in Kids(entries, None) : x \in Ids(entries) /\ Above(entries, x) = {}
  <2> SUFFICES ASSUME NEW x \in Kids(entries, None)
               PROVE  x \in Ids(entries) /\ Above(entries, x) = {}
    OBVIOUS
  <2>1. x \in Ids(entries) /\ ParentOf(entries, x) = None
    BY DEF Kids
  <2>2. \A a : a \in Above(entries, x) <=>
                  /\ ParentOf(entries, x) # None
                  /\ \/ a = ParentOf(entries, x)
                     \/ a \in Above(entries, ParentOf(entries, x))
    BY AboveIs, Zenon
  <2>3. QED
    BY <2>1, <2>2
<1>8. \A id \in Ids(entries) : ParentOf(entries, id) = None =>
        \E k \in 1 .. Len(stack) : stack[k] = id
  BY <1>6 DEF Kids
<1>9. Ahead(entries, path, <<>>, stack)
  BY <1>2, <1>4, <1>6, <1>7, <1>8 DEF Ahead, Distinct
<1>10. Between(entries, path, <<>>, stack)
  BY <1>4 DEF Between
<1>11. QED
  BY <1>1, <1>5, <1>9, <1>10 DEF Planted, path

LEMMA VisitPlanted ==
  ASSUME NEW entries, Forest(entries), NEW leaf, NEW before,
         Planted(entries, ActivePath(entries, leaf), before)
  PROVE  /\ Planted(entries, ActivePath(entries, leaf), Visit(entries, leaf, before))
         /\ before.stack = <<>> => Visit(entries, leaf, before) = before
         /\ before.stack # <<>> =>
              Len(Visit(entries, leaf, before).flat) = Len(before.flat) + 1
<1> DEFINE path == ActivePath(entries, leaf)
           flat == before.flat
           stack == before.stack
           new == Append(flat, Head(stack))
           rest == Below(entries, leaf, Head(stack)) \o Tail(stack)
<1>1. CASE stack = <<>>
  BY <1>1 DEF Visit
<1>2. CASE stack # <<>>
  <2>1. Visit(entries, leaf, before).flat = new /\ Visit(entries, leaf, before).stack = rest
    BY <1>2 DEF Visit
  <2>2. /\ Preorder(entries, path, flat) /\ Ahead(entries, path, flat, stack)
        /\ Between(entries, path, flat, stack)
    BY DEF Planted
  <2>3. IsSeq(stack)
    BY <2>2 DEF Ahead
  <2>4. /\ Head(stack) = stack[1] /\ Len(stack) >= 1 /\ Len(stack) \in Nat
        /\ \E c : Replaced(entries, path, stack, rest, c)
    <3>1. SessionFile(entries)
      BY DEF Forest
    <3> HIDE DEF stack
    <3>2. QED
      BY <1>2, <2>3, <3>1, StackReplaced
  <2>5. PICK c : Replaced(entries, path, stack, rest, c)
    BY <2>4
  <2>6. new = Append(flat, stack[1]) /\ 1 \in 1 .. Len(stack)
    BY <2>4
  <2>10. PICK p : p = path
    OBVIOUS
  <2> HIDE DEF path, flat, stack, new, rest
  <2>7. Preorder(entries, path, new) /\ Len(new) = Len(flat) + 1
    <3>1. 1 \in 1 .. Len(stack) /\ new = Append(flat, stack[1])
      BY <2>6
    <3>2. Preorder(entries, path, new)
      BY <2>2, <3>1, PreorderVisited
    <3>3. Len(new) = Len(flat) + 1
      BY <2>2, <3>1, PreorderVisited
    <3>4. QED
      BY <3>2, <3>3
  <2>8. Ahead(entries, p, new, rest) /\ Between(entries, p, new, rest)
    BY <2>2, <2>4, <2>5, <2>6, <2>10, AheadVisited DEF path
  <2>9. QED
    BY <1>2, <2>1, <2>7, <2>8, <2>10 DEF Planted, path, flat, stack
<1>3. QED
  BY <1>1, <1>2

\* All entries are taken, ancestors first.
LEMMA Flattened ==
  ASSUME NEW entries, Forest(entries), NEW leaf
  PROVE  /\ Preorder(entries, ActivePath(entries, leaf), FlattenAll(entries, leaf))
         /\ Lists(FlattenAll(entries, leaf), Ids(entries))
<1> DEFINE n == Len(entries)
           path == ActivePath(entries, leaf)
           flat == FlattenAll(entries, leaf)
<1>0. SessionFile(entries) /\ IsSeq(entries)
  BY DEF Forest, SessionFile
<1>1. /\ n \in Nat /\ IsFiniteSet(Ids(entries)) /\ Cardinality(Ids(entries)) \in Nat
      /\ Cardinality(Ids(entries)) <= n
  BY <1>0, IdsFinite
<1>2. PICK loop : /\ flat = loop[n].flat /\ loop[0] = Start(entries, leaf)
                  /\ \A k \in 1 .. n : loop[k] = Visit(entries, leaf, loop[k - 1])
  BY <1>0, FlattenSteps
<1> DEFINE Good(k) == /\ Planted(entries, path, loop[k])
                      /\ loop[k].stack = <<>> \/ Len(loop[k].flat) = k
           Bad == {k \in 0 .. n : ~Good(k)}
<1> HIDE DEF n, path, flat
<1>3. Good(0)
  <2>1. Planted(entries, path, loop[0])
    BY <1>2, StartPlanted DEF path
  <2>2. loop[0].flat = <<>> /\ Len(<<>>) = 0
    BY <1>2, ShortSeqs DEF Start
  <2>3. QED
    BY <2>1, <2>2
<1>4. ASSUME NEW k \in Bad, \A j \in Bad : k <= j PROVE FALSE
  <2>1. k \in 1 .. n /\ k - 1 \in 0 .. n
    BY <1>1, <1>3
  <2>2. Good(k - 1)
    BY <1>4, <2>1
  <2>3. loop[k] = Visit(entries, leaf, loop[k - 1])
    BY <1>2, <2>1
  <2> DEFINE before == loop[k - 1]
  <2> HIDE DEF before
  <2>4. /\ Planted(entries, path, before)
        /\ before.stack = <<>> \/ Len(before.flat) = k - 1
        /\ loop[k] = Visit(entries, leaf, before)
    BY <2>2, <2>3 DEF before
  <2>5. /\ Planted(entries, path, loop[k])
        /\ before.stack = <<>> => loop[k] = before
        /\ before.stack # <<>> => Len(loop[k].flat) = Len(before.flat) + 1
    BY <2>4, VisitPlanted DEF path
  <2>6. Good(k)
    BY <2>1, <2>4, <2>5
  <2>7. QED
    BY <2>6
<1>5. Bad \subseteq Nat
  BY <1>1
<1>6. Bad = {}
  <2> HIDE DEF Bad
  <2> QED BY <1>4, <1>5, LeastOf
<1>7. Good(n)
  BY <1>1, <1>6
<1> DEFINE stack == loop[n].stack
<1>8. /\ Preorder(entries, path, flat) /\ Ahead(entries, path, flat, stack)
      /\ stack = <<>> \/ Len(flat) = n
  BY <1>2, <1>7 DEF Planted
<1> HIDE DEF stack, Bad, Good
<1>9. /\ IsSeq(flat) /\ Len(flat) \in Nat /\ \A i \in 1 .. Len(flat) : flat[i] \in Ids(entries)
      /\ \A i, j \in 1 .. Len(flat) : flat[i] = flat[j] => i = j
  BY <1>8, IsSeqOf DEF Preorder, Distinct, IsSeq
<1>10. /\ IsSeq(stack) /\ Len(stack) \in Nat
       /\ \A k \in 1 .. Len(stack) : stack[k] \in Ids(entries) /\ \A i \in 1 .. Len(flat) : flat[i] # stack[k]
  BY <1>8, IsSeqOf DEF Ahead, IsSeq
<1>11. Len(stack) = 0
  <2>1. ASSUME Len(stack) # 0 PROVE FALSE
    <3>1. stack # <<>> /\ 1 \in 1 .. Len(stack)
      BY <1>10, <2>1, ShortSeqs
    <3>2. Len(flat) = n
      BY <1>8, <3>1
    <3> DEFINE f == [i \in 1 .. n + 1 |-> IF i = n + 1 THEN stack[1] ELSE flat[i]]
    <3>3. f \in Injection(1 .. n + 1, Ids(entries))
      <4>1. \A i \in 1 .. n + 1 : i = n + 1 \/ i \in 1 .. n
        BY <1>1
      <4>2. f \in [1 .. n + 1 -> Ids(entries)]
        BY <1>9, <1>10, <3>1, <3>2, <4>1
      <4>3. \A i, j \in 1 .. n + 1 : f[i] = f[j] => i = j
        <5>1. \A i \in 1 .. n : f[i] = flat[i] /\ i # n + 1
          BY <1>1
        <5>2. f[n + 1] = stack[1]
          BY <1>1
        <5> HIDE DEF f
        <5>3. QED
          BY <1>9, <1>10, <3>1, <3>2, <4>1, <5>1, <5>2
      <4> HIDE DEF f
      <4>4. QED
        BY <4>2, <4>3 DEF Injection, IsInjective
    <3>4. Cardinality(1 .. n + 1) = n + 1
      <4>1. n + 1 \in Nat
        BY <1>1
      <4>2. QED
        BY <4>1, IntervalSize
    <3>5. Cardinality(1 .. n + 1) <= Cardinality(Ids(entries))
      BY <1>1, <3>3, FS_Injection
    <3>6. QED
      BY <1>1, <3>4, <3>5
  <2>2. QED
    BY <2>1
<1>12. \A id \in Ids(entries) :
         \/ \E i \in 1 .. Len(flat) : flat[i] = id
         \/ /\ ParentOf(entries, id) # None
            /\ \A i \in 1 .. Len(flat) : flat[i] # ParentOf(entries, id)
  BY <1>8, <1>11 DEF Ahead
\* From one that were not taken the way up would not end.
<1>13. ASSUME NEW id \in Ids(entries), \A i \in 1 .. Len(flat) : flat[i] # id
       PROVE  FALSE
  <2> DEFINE up == Climb(entries, id)
             Left(k) == up[k] \in Ids(entries) /\ \A i \in 1 .. Len(flat) : flat[i] # up[k]
             Wrong == {k \in 0 .. n : ~Left(k)}
  <2>1. up[0] = id /\ \A k \in 1 .. n : up[k] = ParentOf(entries, up[k - 1])
    BY <1>0, ClimbSteps DEF n
  <2>2. up[n] = None
    BY ClimbEnds DEF n
  <2> HIDE DEF up
  <2>3. ASSUME NEW k \in Wrong, \A j \in Wrong : k <= j PROVE FALSE
    <3>1. k # 0
      BY <1>13, <2>1
    <3>2. k \in 1 .. n /\ k - 1 \in 0 .. n /\ k - 1 \notin Wrong
      BY <1>1, <2>3, <3>1
    <3>3. Left(k - 1)
      BY <3>2
    <3>4. up[k] # None /\ \A i \in 1 .. Len(flat) : flat[i] # up[k]
      BY <1>12, <2>1, <3>2, <3>3
    <3>5. up[k] \in Ids(entries)
      BY <1>0, <2>1, <3>2, <3>4, ParentIs
    <3>6. QED
      BY <3>4, <3>5
  <2>4. Wrong \subseteq Nat
    BY <1>1
  <2>5. Wrong = {}
    <3> HIDE DEF Wrong
    <3> QED BY <2>3, <2>4, LeastOf
  <2>6. up[n] \in Ids(entries)
    BY <1>1, <2>5
  <2>7. QED
    BY <1>0, <2>2, <2>6 DEF SessionFile
<1>14. QED
  BY <1>8, <1>9, <1>13 DEF Lists, flat, path

-----------------------------------------------------------------------------
(* What is shown, and the rows by their positions.                          *)

Shown(entries, path, shown, S) ==
  /\ Lists(shown, S) /\ PathFirst(shown, path)
  /\ \A i \in 1 .. Len(shown) : \A a \in Above(entries, shown[i]) \cap S :
       \E j \in 1 .. Len(shown) : j < i /\ shown[j] = a
  /\ \A i, j, k \in 1 .. Len(shown) :
       i < j /\ j < k /\ shown[i] \in Above(entries, shown[k])
         => shown[i] \in Above(entries, shown[j])

LEMMA SubsequenceShown ==
  ASSUME NEW entries, NEW path, NEW flat, Preorder(entries, path, flat),
         NEW I, I \subseteq 1 .. Len(flat)
  PROVE  Shown(entries, path, Subsequence(flat, I), {flat[i] : i \in I})
<1> DEFINE n == Len(flat)
           shown == Subsequence(flat, I)
           S == {flat[i] : i \in I}
<1>1. /\ IsSeq(flat)
      /\ \A i, j \in 1 .. n : flat[i] = flat[j] => i = j
      /\ \A i \in 1 .. n : \A a \in Above(entries, flat[i]) : \E j \in 1 .. n : j < i /\ flat[j] = a
      /\ \A i, j, k \in 1 .. n :
           i < j /\ j < k /\ flat[i] \in Above(entries, flat[k]) => flat[i] \in Above(entries, flat[j])
      /\ \A i, j \in 1 .. n : i < j /\ flat[j] \in path => flat[i] \in path
  BY DEF Preorder, Distinct, PathFirst
<1>2. Lists(shown, S)
  <2>1. Lists(flat, {flat[i] : i \in 1 .. n})
    BY <1>1 DEF Lists
  <2> HIDE DEF n
  <2>2. QED
    BY <2>1, SubsequenceLists
<1>3. PICK pos : Embeds(flat, I, shown, pos)
  BY <1>1, SubsequenceEmbeds
<1> HIDE DEF shown
<1>4. /\ \A k \in 1 .. Len(shown) : pos[k] \in I /\ pos[k] \in 1 .. n /\ shown[k] = flat[pos[k]]
      /\ \A k, l \in 1 .. Len(shown) : k < l => pos[k] < pos[l]
      /\ \A i \in I : \E k \in 1 .. Len(shown) : pos[k] = i
  BY <1>3 DEF Embeds
<1>5. Len(shown) \in Nat /\ n \in Nat
  BY <1>1, <1>2, IsSeqOf DEF Lists, IsSeq
<1> HIDE DEF n
<1>6. PathFirst(shown, path)
  BY <1>1, <1>4 DEF PathFirst
<1>7. ASSUME NEW i \in 1 .. Len(shown), NEW a \in Above(entries, shown[i]) \cap S
      PROVE  \E j \in 1 .. Len(shown) : j < i /\ shown[j] = a
  <2>1. PICK p \in I : flat[p] = a
    OBVIOUS
  <2>2. PICK j \in 1 .. Len(shown) : pos[j] = p
    BY <1>4, <2>1
  <2>3. PICK q \in 1 .. n : q < pos[i] /\ flat[q] = a
    BY <1>1, <1>4
  <2>4. p = q
    BY <1>1, <1>4, <2>1, <2>2, <2>3
  <2>5. ~(i <= j)
    <3>1. CASE i = j
      BY <1>4, <2>2, <2>3, <2>4, <3>1
    <3>2. CASE i < j
      <4>1. pos[i] < pos[j] /\ pos[i] \in 1 .. n /\ pos[j] \in 1 .. n
        BY <1>4, <3>2
      <4>2. QED
        BY <1>5, <2>2, <2>3, <2>4, <4>1
    <3>3. QED
      BY <1>5, <3>1, <3>2
  <2>6. j < i /\ shown[j] = a
    BY <1>4, <1>5, <2>1, <2>2, <2>5
  <2>7. QED
    BY <2>6
<1>8. ASSUME NEW i \in 1 .. Len(shown), NEW j \in 1 .. Len(shown), NEW k \in 1 .. Len(shown),
             i < j, j < k, shown[i] \in Above(entries, shown[k])
      PROVE  shown[i] \in Above(entries, shown[j])
  <2>1. pos[i] < pos[j] /\ pos[j] < pos[k]
    BY <1>4, <1>8
  <2>2. /\ pos[i] \in 1 .. n /\ pos[j] \in 1 .. n /\ pos[k] \in 1 .. n
        /\ shown[i] = flat[pos[i]] /\ shown[j] = flat[pos[j]] /\ shown[k] = flat[pos[k]]
    BY <1>4
  <2>3. flat[pos[i]] \in Above(entries, flat[pos[k]])
    BY <1>8, <2>2
  <2>4. flat[pos[i]] \in Above(entries, flat[pos[j]])
    BY <1>1, <2>1, <2>2, <2>3
  <2>5. QED
    BY <2>2, <2>4
<1>9. QED
  BY <1>2, <1>6, <1>7, <1>8 DEF Shown, shown

LEMMA VisibleParentIs ==
  ASSUME NEW entries, Forest(entries), NEW S, S \subseteq Ids(entries), NEW id, NEW v,
         v = VisibleParent(entries, S, id)
  PROVE  /\ v = None => Above(entries, id) \cap S = {}
         /\ v # None => /\ v \in Above(entries, id) \cap S
                        /\ Above(entries, id) \cap S = {v} \cup (Above(entries, v) \cap S)
<1>0. SessionFile(entries) /\ IsSeq(entries) /\ None \notin S
  BY DEF Forest, SessionFile
<1> DEFINE n == Len(entries)
           up == Climb(entries, id)
           at == {k \in 1 .. n : up[k] \in S}
<1>1. /\ n \in Nat
      /\ \A a : a \in Above(entries, id) <=> a # None /\ \E k \in 1 .. n : up[k] = a
  BY <1>0, ClimbValues, ClimbSteps
<1>2. v = IF at = {} THEN None ELSE up[CHOOSE k \in at : \A j \in at : k <= j]
  BY DEF VisibleParent
<1>3. CASE at = {}
  BY <1>0, <1>1, <1>2, <1>3
<1>4. CASE at # {}
  <2>1. PICK k \in at : \A j \in at : k <= j
    <3>1. at \subseteq Nat
      OBVIOUS
    <3> HIDE DEF at
    <3>2. QED
      BY <1>4, <3>1, LeastOf
  <2>2. k = CHOOSE l \in at : \A j \in at : l <= j
    <3>1. \A l \in at : (\A j \in at : l <= j) => l = k
      BY <2>1
    <3> HIDE DEF at
    <3>2. QED
      BY <2>1, <3>1
  <2>3. v = up[k] /\ k \in 1 .. n /\ up[k] \in S
    BY <1>2, <1>4, <2>2
  <2>4. v # None /\ v \in Above(entries, id)
    BY <1>0, <1>1, <2>3
  <2>5. Above(entries, v) \subseteq Above(entries, id)
    BY <2>4, AboveTrans
  <2>6. ASSUME NEW a \in Above(entries, id), a \in S
        PROVE  a = v \/ a \in Above(entries, v)
    <3>1. PICK j \in 1 .. n : up[j] = a /\ a # None
      BY <1>1
    <3>2. j \in at
      BY <2>6, <3>1
    <3>3. k = j \/ k < j
      BY <1>1, <2>1, <3>2
    <3>4. k < j => a \in Above(entries, v)
      <4>1. k \in 0 .. n
        BY <2>3
      <4>2. QED
        BY <2>3, <3>1, <4>1, ClimbAbove
    <3>5. QED
      BY <2>3, <3>1, <3>3, <3>4
  <2>7. QED
    BY <2>3, <2>4, <2>5, <2>6
<1>5. QED
  BY <1>3, <1>4

\* The position of x among what is shown.
PlaceOf(shown, R, x) == CHOOSE j \in 1 .. R : shown[j] = x
LayoutTable(parent, shown, R, n, row) ==
  row = [i \in 1 .. n |-> RowAt(parent, i, row[PlaceOf(shown, R, parent[i])])]

LEMMA LayoutTableExists ==
  ASSUME NEW parent, NEW shown, NEW R \in Nat,
         \A i \in 1 .. R : parent[i] # None =>
           /\ PlaceOf(shown, R, parent[i]) \in 1 .. R
           /\ PlaceOf(shown, R, parent[i]) < i
  PROVE  \E row : LayoutTable(parent, shown, R, R, row)
<1> DEFINE up(i) == PlaceOf(shown, R, parent[i])
           Bad == {k \in 0 .. R : ~ \E row : LayoutTable(parent, shown, R, k, row)}
<1>0. \A i : parent[i] = None => \A x, y : RowAt(parent, i, x) = RowAt(parent, i, y)
  BY DEF RowAt
<1>00. \A i \in 1 .. R : parent[i] # None => up(i) \in 1 .. R /\ up(i) < i
  OBVIOUS
<1> HIDE DEF up
<1>1. \E row : LayoutTable(parent, shown, R, 0, row)
  <2>1. \A i \in 1 .. 0 : FALSE
    OBVIOUS
  <2>2. LayoutTable(parent, shown, R, 0, [i \in 1 .. 0 |-> None])
    BY <2>1 DEF LayoutTable
  <2>3. QED
    BY <2>2
<1>2. ASSUME NEW k \in 1 .. R, NEW row, LayoutTable(parent, shown, R, k - 1, row)
      PROVE  \E more : LayoutTable(parent, shown, R, k, more)
  <2> DEFINE more == [i \in 1 .. k |-> IF i = k THEN RowAt(parent, k, row[up(k)]) ELSE row[i]]
  <2>1. \A i \in 1 .. k - 1 : row[i] = RowAt(parent, i, row[up(i)])
    BY <1>2 DEF LayoutTable, up
  <2>2. \A i \in 1 .. k : i = k \/ i \in 1 .. k - 1
    BY <1>2
  <2>3. more[k] = RowAt(parent, k, row[up(k)])
    BY <1>2
  <2>4. \A i \in 1 .. k - 1 : more[i] = row[i]
    BY <1>2
  <2>5. more = [i \in 1 .. k |-> more[i]]
    OBVIOUS
  <2> HIDE DEF more
  <2>6. ASSUME NEW i \in 1 .. k
        PROVE  more[i] = RowAt(parent, i, more[up(i)])
    <3>1. more[i] = RowAt(parent, i, row[up(i)])
      BY <2>1, <2>2, <2>3, <2>4
    <3>2. CASE parent[i] = None
      BY <1>0, <3>1, <3>2, Zenon
    <3>3. CASE parent[i] # None
      <4>1. up(i) \in 1 .. k - 1
        BY <1>00, <3>3
      <4>2. QED
        BY <2>4, <3>1, <4>1
    <3>4. QED
      BY <3>2, <3>3
  <2>7. more = [i \in 1 .. k |-> RowAt(parent, i, more[up(i)])]
    BY <2>5, <2>6, Zenon
  <2>8. LayoutTable(parent, shown, R, k, more)
    BY <2>7, Zenon DEF LayoutTable, up
  <2>9. QED
    BY <2>8
<1>3. ASSUME NEW k \in Bad, \A j \in Bad : k <= j PROVE FALSE
  <2>1. k \in 0 .. R /\ k # 0
    BY <1>1
  <2>2. k \in 1 .. R /\ k - 1 \in 0 .. R /\ k - 1 \notin Bad
    BY <1>3, <2>1
  <2>3. PICK row : LayoutTable(parent, shown, R, k - 1, row)
    BY <2>2
  <2>4. QED
    BY <1>2, <2>2, <2>3
<1>4. Bad \subseteq Nat
  OBVIOUS
<1>5. Bad = {}
  <2> HIDE DEF Bad
  <2> QED BY <1>3, <1>4, LeastOf
<1>6. QED
  BY <1>5

\* The positions of the visible parents, and of all shown above.
Positions(entries, shown, S, up, anc) ==
  /\ up = [i \in 1 .. Len(shown) |->
             IF VisibleParent(entries, S, shown[i]) = None THEN 0
             ELSE PlaceOf(shown, Len(shown), VisibleParent(entries, S, shown[i]))]
  /\ anc = [i \in 1 .. Len(shown) |->
              {j \in 1 .. Len(shown) : shown[j] \in Above(entries, shown[i])}]

LEMMA PlaceIs ==
  ASSUME NEW shown, NEW S, Lists(shown, S), NEW x \in S
  PROVE  /\ PlaceOf(shown, Len(shown), x) \in 1 .. Len(shown)
         /\ shown[PlaceOf(shown, Len(shown), x)] = x
         /\ \A j \in 1 .. Len(shown) : shown[j] = x => j = PlaceOf(shown, Len(shown), x)
<1>1. PICK j \in 1 .. Len(shown) : shown[j] = x
  BY DEF Lists
<1>2. \A l \in 1 .. Len(shown) : shown[l] = x => l = j
  BY <1>1 DEF Lists
<1>3. j = PlaceOf(shown, Len(shown), x)
  BY <1>1, <1>2 DEF PlaceOf
<1>4. QED
  BY <1>1, <1>2, <1>3

LEMMA UpIs ==
  ASSUME NEW entries, Forest(entries), NEW path, NEW shown, NEW S, S \subseteq Ids(entries),
         Shown(entries, path, shown, S), NEW up, NEW anc, Positions(entries, shown, S, up, anc),
         NEW i \in 1 .. Len(shown), NEW v, v = VisibleParent(entries, S, shown[i])
  PROVE  /\ Len(shown) \in Nat /\ shown[i] \in S
         /\ v = None => up[i] = 0 /\ Above(entries, shown[i]) \cap S = {}
         /\ v # None => /\ up[i] \in 1 .. Len(shown) /\ up[i] < i /\ shown[up[i]] = v
                        /\ up[i] = PlaceOf(shown, Len(shown), v)
                        /\ v \in Above(entries, shown[i])
                        /\ Above(entries, shown[i]) \cap S = {v} \cup (Above(entries, v) \cap S)
<1>1. /\ Lists(shown, S)
      /\ \A a \in Above(entries, shown[i]) \cap S : \E j \in 1 .. Len(shown) : j < i /\ shown[j] = a
  BY DEF Shown
<1>2. Len(shown) \in Nat /\ shown[i] \in S
  BY <1>1, IsSeqOf DEF Lists, IsSeq
<1>3. /\ v = None => Above(entries, shown[i]) \cap S = {}
      /\ v # None => /\ v \in Above(entries, shown[i]) \cap S
                     /\ Above(entries, shown[i]) \cap S = {v} \cup (Above(entries, v) \cap S)
  BY VisibleParentIs
<1>4. up[i] = IF v = None THEN 0 ELSE PlaceOf(shown, Len(shown), v)
  BY DEF Positions
<1>5. CASE v = None
  BY <1>2, <1>3, <1>4, <1>5
<1>6. CASE v # None
  <2>1. /\ up[i] \in 1 .. Len(shown) /\ shown[up[i]] = v
        /\ \A j \in 1 .. Len(shown) : shown[j] = v => j = up[i]
    BY <1>1, <1>3, <1>4, <1>6, PlaceIs
  <2>2. up[i] < i
    BY <1>1, <1>3, <1>6, <2>1
  <2>3. QED
    BY <1>2, <1>3, <1>4, <1>6, <2>1, <2>2
<1>7. QED
  BY <1>5, <1>6

LEMMA RowsNested ==
  ASSUME NEW entries, Forest(entries), NEW path, NEW shown, NEW S, S \subseteq Ids(entries),
         Shown(entries, path, shown, S), NEW up, NEW anc, Positions(entries, shown, S, up, anc)
  PROVE  Nested(Len(shown), up, anc)
<1> DEFINE R == Len(shown)
<1>1. R \in Nat /\ \A i \in 1 .. R : shown[i] \in S
  BY IsSeqOf DEF Shown, Lists, IsSeq
<1>2. \A i \in 1 .. R : anc[i] = {j \in 1 .. R : shown[j] \in Above(entries, shown[i])}
  BY DEF Positions
<1>3. /\ \A i, j \in 1 .. R : shown[i] = shown[j] => i = j
      /\ \A i \in 1 .. R : \A a \in Above(entries, shown[i]) \cap S :
           \E j \in 1 .. R : j < i /\ shown[j] = a
      /\ \A i, j, k \in 1 .. R :
           i < j /\ j < k /\ shown[i] \in Above(entries, shown[k]) => shown[i] \in Above(entries, shown[j])
  BY DEF Shown, Lists
<1> HIDE DEF R
<1>4. ASSUME NEW i \in 1 .. R
      PROVE  /\ up[i] \in Nat /\ up[i] < i
             /\ \A a : a \in anc[i] <=> up[i] # 0 /\ (a = up[i] \/ a \in anc[up[i]])
             /\ \A a \in anc[i] : a \in 1 .. R /\ a < i
  <2>1. PICK v : v = VisibleParent(entries, S, shown[i])
    OBVIOUS
  <2>2. /\ v = None => up[i] = 0 /\ Above(entries, shown[i]) \cap S = {}
        /\ v # None => /\ up[i] \in 1 .. R /\ up[i] < i /\ shown[up[i]] = v
                       /\ v \in Above(entries, shown[i])
                       /\ Above(entries, shown[i]) \cap S = {v} \cup (Above(entries, v) \cap S)
    BY <2>1, UpIs DEF R
  <2>3. up[i] \in Nat /\ up[i] < i
    BY <1>1, <2>2
  <2>4. ASSUME NEW a \in anc[i]
        PROVE  a \in 1 .. R /\ a < i
    <3>1. a \in 1 .. R /\ shown[a] \in Above(entries, shown[i]) \cap S
      BY <1>1, <1>2
    <3>2. PICK j \in 1 .. R : j < i /\ shown[j] = shown[a]
      BY <1>3, <3>1
    <3>3. QED
      BY <1>3, <3>1, <3>2
  <2>5. ASSUME NEW a
        PROVE  a \in anc[i] <=> up[i] # 0 /\ (a = up[i] \/ a \in anc[up[i]])
    <3>1. CASE v = None
      <4>1. up[i] = 0 /\ \A j \in 1 .. R : shown[j] \notin Above(entries, shown[i])
        BY <1>1, <2>2, <3>1
      <4>2. QED
        BY <1>2, <4>1
    <3>2. CASE v # None
      <4>1. up[i] # 0 /\ up[i] \in 1 .. R
        BY <1>1, <2>2, <3>2
      <4>2. \A j \in 1 .. R : shown[j] \in Above(entries, shown[i]) <=>
                                j = up[i] \/ shown[j] \in Above(entries, v)
        <5> SUFFICES ASSUME NEW j \in 1 .. R
                     PROVE  shown[j] \in Above(entries, shown[i]) <=>
                              j = up[i] \/ shown[j] \in Above(entries, v)
          OBVIOUS
        <5>1. shown[j] \in S /\ (shown[j] = v <=> j = up[i])
          BY <1>1, <1>3, <2>2, <3>2, <4>1
        <5>2. shown[j] \in Above(entries, shown[i]) <=>
                shown[j] = v \/ shown[j] \in Above(entries, v)
          BY <2>2, <3>2, <5>1
        <5>3. QED
          BY <5>1, <5>2
      <4>3. a \in anc[i] <=> a \in 1 .. R /\ shown[a] \in Above(entries, shown[i])
        BY <1>2
      <4>4. a \in anc[up[i]] <=> a \in 1 .. R /\ shown[a] \in Above(entries, v)
        BY <1>2, <2>2, <3>2, <4>1
      <4>5. QED
        BY <4>1, <4>2, <4>3, <4>4
    <3>3. QED
      BY <3>1, <3>2
  <2>6. QED
    BY <2>3, <2>4, <2>5
<1>5. ASSUME NEW i \in 1 .. R, NEW j \in 1 .. R, NEW k \in 1 .. R, i < j, j < k, i \in anc[k]
      PROVE  i \in anc[j]
  BY <1>2, <1>3, <1>5
<1>6. QED
  BY <1>1, <1>4, <1>5 DEF Nested, R

\* Whether the drawing shows several roots.
SeveralRoots(R, up) == \E i \in 1 .. R : up[i] = 0 /\ Branch(R, up, i)

LEMMA RowsDrawn ==
  ASSUME NEW entries, Forest(entries), NEW path, NEW shown, NEW S, S \subseteq Ids(entries),
         Shown(entries, path, shown, S), NEW up, NEW anc, Positions(entries, shown, S, up, anc)
  PROVE  \E m : /\ m <=> SeveralRoots(Len(shown), up)
                /\ Drawing(Len(shown), up, anc, m, Layout(entries, shown))
<1> DEFINE R == Len(shown)
           parent == [i \in 1 .. R |-> VisibleParent(entries, {shown[j] : j \in 1 .. R}, shown[i])]
           row == Layout(entries, shown)
<1>1. {shown[j] : j \in 1 .. R} = S
  BY DEF Shown, Lists
<1>2. R \in Nat
  BY IsSeqOf DEF Shown, Lists, IsSeq
<1>3. ASSUME NEW i \in 1 .. R
      PROVE  /\ parent[i] = None <=> up[i] = 0
             /\ parent[i] # None => /\ PlaceOf(shown, R, parent[i]) = up[i]
                                    /\ up[i] \in 1 .. R /\ up[i] < i /\ shown[up[i]] = parent[i]
  <2>1. PICK v : v = VisibleParent(entries, S, shown[i])
    OBVIOUS
  <2>2. parent[i] = v
    BY <1>1, <2>1
  <2>3. /\ v = None => up[i] = 0
        /\ v # None => /\ up[i] \in 1 .. R /\ up[i] < i /\ shown[up[i]] = v
                       /\ up[i] = PlaceOf(shown, R, v)
    BY <2>1, UpIs
  <2> HIDE DEF parent, R
  <2>4. QED
    BY <1>2, <2>2, <2>3
<1>4. DOMAIN parent = 1 .. R
  OBVIOUS
<1>5. row = CHOOSE r : LayoutTable(parent, shown, R, R, r)
  BY DEF Layout, LayoutTable, PlaceOf
<1> HIDE DEF parent, row
<1>6. LayoutTable(parent, shown, R, R, row)
  <2> HIDE DEF R
  <2>1. \A i \in 1 .. R : parent[i] # None =>
           /\ PlaceOf(shown, R, parent[i]) \in 1 .. R
           /\ PlaceOf(shown, R, parent[i]) < i
    BY <1>3
  <2>2. \E r : LayoutTable(parent, shown, R, R, r)
    BY <1>2, <2>1, LayoutTableExists
  <2>3. QED
    BY <1>5, <2>2
<1> HIDE DEF R
<1>7. \A i \in 1 .. R : row[i] = RowAt(parent, i, row[PlaceOf(shown, R, parent[i])])
  BY <1>6 DEF LayoutTable
<1>8. \A i, j \in 1 .. R : parent[i] = parent[j] <=> up[i] = up[j]
  <2> SUFFICES ASSUME NEW i \in 1 .. R, NEW j \in 1 .. R
               PROVE  parent[i] = parent[j] <=> up[i] = up[j]
    OBVIOUS
  <2>1. CASE parent[i] = None \/ parent[j] = None
    BY <1>3, <2>1
  <2>2. CASE parent[i] # None /\ parent[j] # None
    BY <1>3, <2>2
  <2>3. QED
    BY <2>1, <2>2
<1>9. ASSUME NEW i \in 1 .. R
      PROVE  /\ Siblings(parent, i) # {i} <=> Branch(R, up, i)
             /\ (\A j \in Siblings(parent, i) : j <= i) <=> LastChild(R, up, i)
  <2>1. \A j : j \in Siblings(parent, i) <=> j \in 1 .. R /\ up[j] = up[i]
    BY <1>4, <1>8 DEF Siblings
  <2>2. QED
    BY <2>1 DEF Branch, LastChild
<1>10. PICK m : m = MultipleRoots(parent)
  OBVIOUS
<1>11. m <=> SeveralRoots(R, up)
  <2>1. \A i \in 1 .. R : /\ parent[i] = None <=> up[i] = 0
                          /\ Siblings(parent, i) # {i} <=> Branch(R, up, i)
    BY <1>3, <1>9
  <2>2. QED
    BY <1>4, <1>10, <2>1 DEF MultipleRoots, SeveralRoots
<1>12. Drawn(R, up, m, row)
  <2> SUFFICES ASSUME NEW i \in 1 .. R
               PROVE  row[i] = IF up[i] = 0 THEN RootRow(Branch(R, up, i), LastChild(R, up, i))
                               ELSE ChildRow(row[up[i]], Branch(R, up, i), LastChild(R, up, i), m)
    BY DEF Drawn
  <2>1. PICK b, l : b = (Siblings(parent, i) # {i}) /\ l = (\A j \in Siblings(parent, i) : j <= i)
    OBVIOUS
  <2>2. b = Branch(R, up, i) /\ l = LastChild(R, up, i)
    BY <1>9, <2>1 DEF Branch, LastChild
  <2>3. RowAt(parent, i, row[PlaceOf(shown, R, parent[i])]) =
          IF parent[i] = None THEN RootRow(b, l)
          ELSE ChildRow(row[PlaceOf(shown, R, parent[i])], b, l, m)
    BY <1>10, <2>1 DEF RowAt
  <2>4. QED
    BY <1>3, <1>7, <2>2, <2>3
<1>13. Nested(R, up, anc)
  BY RowsNested DEF R
<1>14. Drawing(R, up, anc, m, row)
  BY <1>12, <1>13 DEF Drawing
<1>15. QED
  BY <1>11, <1>14 DEF R, row

\* A drawing of a forest, with what it is made from.
DrawingOf(entries, leaf, filter, t, S, shown, up, anc, m, row) ==
  /\ S = {id \in Ids(entries) :
            PassesFilter(EntryOf(entries, id), LabelOf(entries, id), leaf, filter)}
  /\ Shown(entries, ActivePath(entries, leaf), shown, S)
  /\ Positions(entries, shown, S, up, anc)
  /\ m <=> SeveralRoots(Len(shown), up)
  /\ Drawing(Len(shown), up, anc, m, row)
  /\ t.cursor = leaf /\ Len(t.rows) = Len(shown)
  /\ \A i \in 1 .. Len(shown) : t.rows[i].id = shown[i] /\ t.rows[i].prefix = TreePrefix(row[i])

LEMMA TreeDrawn ==
  ASSUME NEW entries, Forest(entries), NEW leaf, NEW filter, NEW t,
         t = FormatEntriesTree(entries, leaf, filter)
  PROVE  \E S, shown, up, anc, m, row :
           DrawingOf(entries, leaf, filter, t, S, shown, up, anc, m, row)
<1> DEFINE passes(id) == PassesFilter(EntryOf(entries, id), LabelOf(entries, id), leaf, filter)
           path == ActivePath(entries, leaf)
           flat == FlattenAll(entries, leaf)
           I == {i \in 1 .. Len(flat) : passes(flat[i])}
           shown == Subsequence(flat, I)
           row == Layout(entries, shown)
           S == {id \in Ids(entries) : passes(id)}
           rows == [i \in 1 .. Len(shown) |->
                      [id |-> shown[i], prefix |-> TreePrefix(row[i]),
                       marker |-> IF shown[i] = leaf THEN "leaf"
                                  ELSE IF shown[i] \in path THEN "active" ELSE None]]
<1>1. t = [rows |-> rows, cursor |-> leaf]
  BY DEF FormatEntriesTree
<1>2. Preorder(entries, path, flat) /\ Lists(flat, Ids(entries))
  BY Flattened
<1>3. t.cursor = leaf /\ t.rows = rows
  BY <1>1
<1> HIDE DEF path, flat, passes
<1>4. Shown(entries, path, shown, {flat[i] : i \in I})
  BY <1>2, SubsequenceShown
<1>5. {flat[i] : i \in I} = S
  BY <1>2 DEF Lists
<1> HIDE DEF I, shown, row
<1>6. Shown(entries, path, shown, S) /\ Len(shown) \in Nat
  BY <1>4, <1>5, IsSeqOf DEF Shown, Lists, IsSeq
<1>7. \A i \in 1 .. Len(shown) : rows[i].id = shown[i] /\ rows[i].prefix = TreePrefix(row[i])
  OBVIOUS
<1>8. Len(rows) = Len(shown)
  <2>1. rows \in [1 .. Len(shown) -> {rows[i] : i \in 1 .. Len(shown)}]
    OBVIOUS
  <2> HIDE DEF rows
  <2>2. QED
    BY <1>6, <2>1, FunctionIsSeq
<1> HIDE DEF rows
<1>9. PICK up, anc : Positions(entries, shown, S, up, anc)
  BY DEF Positions
<1>10. PICK m : /\ m <=> SeveralRoots(Len(shown), up)
                /\ Drawing(Len(shown), up, anc, m, row)
  <2>1. S \subseteq Ids(entries)
    OBVIOUS
  <2> HIDE DEF S
  <2>2. QED
    BY <1>6, <1>9, <2>1, RowsDrawn DEF row
<1>11. DrawingOf(entries, leaf, filter, t, S, shown, up, anc, m, row)
  BY <1>3, <1>6, <1>7, <1>8, <1>9, <1>10 DEF DrawingOf, path, passes
<1>12. QED
  BY <1>11
=============================================================================
