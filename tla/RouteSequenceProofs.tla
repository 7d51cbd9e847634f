------------------------- MODULE RouteSequenceProofs -------------------------
(***************************************************************************)
(* A version of a route holds the points of the list, through every        *)
(* insertion, split, move, removal and merge, for any capacity of a chunk  *)
(* and any number of points; and the difference of two versions, computed  *)
(* chunk by chunk, is that of their lists.                                 *)
(*                                                                         *)
(* Holds(r, s) says that the version r is well formed (Good) and holds the *)
(* sequence s.  FromVectorGood, InsertHolds, MoveHolds and RemoveHolds say *)
(* that the operations of the class keep it; DifferenceIs needs only it.   *)
(***************************************************************************)
EXTENDS RouteSequence, FiniteSetTheorems, SequenceTheorems, NaturalsInduction,
        WellFoundedInduction, TLAPS

-----------------------------------------------------------------------------
(* Induction over numbers and sequences                                    *)

LEMMA Induct ==
    ASSUME NEW N \in Nat, NEW T, 0 \in T, \A n \in 0..N : n < N /\ n \in T => n + 1 \in T
    PROVE  \A n \in 0..N : n \in T
<1> DEFINE R == OpToRel(<, Nat)
           Out == {n \in 0..N : n \notin T}
<1>1. IsWellFoundedOn(R, Nat)
  BY NatLessThanWellFounded
<1>2. \A m, n \in Nat : <<n, m>> \in R <=> n < m
  BY DEF OpToRel
<1> HIDE DEF R
<1> SUFFICES ASSUME Out # {} PROVE FALSE
  OBVIOUS
<1>3. PICK m \in Out : \A n \in Out : ~(<<n, m>> \in R)
  <2>1. Out \subseteq Nat
    OBVIOUS
  <2> HIDE DEF Out
  <2> QED
    BY <1>1, <2>1, WFMin
<1>4. m \in Nat /\ m <= N /\ m # 0 /\ m \notin T
  OBVIOUS
<1> DEFINE p == m - 1
<1>5. p \in 0..N /\ p < N /\ p + 1 = m /\ p < m /\ p \in Nat
  BY <1>4
<1>6. p \notin Out
  <2> HIDE DEF Out, p
  <2> QED
    BY <1>2, <1>3, <1>4, <1>5
<1>7. p \in T
  BY <1>5, <1>6
<1> HIDE DEF p
<1> QED
  BY <1>4, <1>5, <1>7

LEMMA Least ==
    ASSUME NEW S \in SUBSET Nat, S # {}
    PROVE  \E m \in S : \A n \in S : m <= n
<1> DEFINE R == OpToRel(<, Nat)
<1>1. IsWellFoundedOn(R, Nat)
  BY NatLessThanWellFounded
<1>2. \A m, n \in Nat : <<n, m>> \in R <=> n < m
  BY DEF OpToRel
<1> HIDE DEF R
<1>3. PICK m \in S : \A n \in S : ~(<<n, m>> \in R)
  BY <1>1, WFMin
<1>4. m \in Nat /\ \A n \in S : n \in Nat /\ ~(n < m)
  BY <1>2, <1>3
<1> QED
  BY <1>4

LEMMA SeqInduct ==
    ASSUME NEW T, NEW D, <<>> \in D,
           \A s \in Seq(T) : \A x \in T : s \in D => Append(s, x) \in D
    PROVE  \A s \in Seq(T) : s \in D
<1> SUFFICES ASSUME NEW s \in Seq(T) PROVE s \in D
  OBVIOUS
<1> DEFINE E == {n \in 0..Len(s) : SubSeq(s, 1, n) \in D}
<1>1. Len(s) \in Nat
  BY LenProperties
<1>2. 0 \in E
  <2>1. SubSeq(s, 1, 0) = <<>>
    BY SubSeqEmpty
  <2>2. SubSeq(s, 1, 0) \in D
    BY <2>1, Zenon
  <2>3. 0 \in 0..Len(s)
    BY <1>1
  <2> QED
    BY <2>2, <2>3, Zenon
<1>3. ASSUME NEW n \in 0..Len(s), n < Len(s), n \in E
      PROVE  n + 1 \in E
  <2>1. n \in Nat /\ n + 1 \in 1..Len(s) /\ n + 1 \in 0..Len(s)
    BY <1>1, <1>3
  <2> DEFINE a == SubSeq(s, 1, n)
             x == s[n + 1]
  <2>2. x \in T
    BY <2>1, ElementOfSeq
  <2>3. a \in Seq(T) /\ a \in D
    <3>1. \A i \in 1..n : s[i] \in T
      BY <1>1, <2>1, ElementOfSeq
    <3> QED
      BY <1>1, <1>3, <2>1, <3>1, SubSeqProperties
  <2>4. SubSeq(s, 1, n + 1) = SubSeq(s, 1, (n + 1) - 1) \o <<x>>
    BY <1>1, <2>1, SubSeqRecursiveSecond
  <2>5. SubSeq(s, 1, n + 1) = a \o <<x>>
    BY <2>1, <2>4
  <2>6. SubSeq(s, 1, n + 1) = Append(a, x)
    BY <2>2, <2>3, <2>5, AppendIsConcat
  <2> HIDE DEF a, x
  <2>7. Append(a, x) \in D
    BY <1>3, <2>2, <2>3
  <2> QED
    BY <2>1, <2>6, <2>7
<1> HIDE DEF E
<1>4. \A n \in 0..Len(s) : n \in E
  BY <1>1, <1>2, <1>3, Induct
<1>5. Len(s) \in E
  BY <1>1, <1>4
<1>6. SubSeq(s, 1, Len(s)) \in D
  BY <1>5 DEF E
<1> QED
  BY <1>6, SubSeqFull

LEMMA AppendIs ==
    ASSUME NEW T, NEW s \in Seq(T), NEW x \in T
    PROVE  /\ Append(s, x) \in Seq(T)
           /\ Len(Append(s, x)) = Len(s) + 1
           /\ Append(s, x) # <<>>
           /\ \A i \in 1..Len(s) : Append(s, x)[i] = s[i]
           /\ Append(s, x)[Len(s) + 1] = x
           /\ Append(s, x) = s \o <<x>>
BY AppendProperties, AppendIsConcat

LEMMA One ==
    ASSUME NEW T, NEW x \in T
    PROVE  /\ <<x>> \in Seq(T) /\ Len(<<x>>) = 1 /\ <<x>>[1] = x
           /\ Append(<<>>, x) = <<x>>
OBVIOUS

(***************************************************************************)
(* FlattenSeq                                                              *)
(***************************************************************************)

-----------------------------------------------------------------------------
(* FlattenSeq: it appends and concatenates                                 *)

\* f[i] is the concatenation of the first i sequences (FlattenSeq's recursion).
Chain(ss, f) ==
    f = [i \in 1..Len(ss) |-> IF i = 1 THEN ss[i] ELSE f[i - 1] \o ss[i]]

LEMMA ChainExists ==
    ASSUME NEW T, NEW ss \in Seq(T)
    PROVE  \E f : Chain(ss, f)
<1> DEFINE B(f, n) == f = [i \in 1..n |-> IF i = 1 THEN ss[i] ELSE f[i - 1] \o ss[i]]
           E == {n \in 0..Len(ss) : \E f : B(f, n)}
<1>1. Len(ss) \in Nat
  BY LenProperties
<1>2. 0 \in E
  <2> DEFINE f == [i \in 1..0 |-> i]
  <2>1. B(f, 0)
    OBVIOUS
  <2> HIDE DEF f, B
  <2>2. \E h : B(h, 0)
    BY <2>1
  <2> QED
    BY <1>1, <2>2
<1>3. ASSUME NEW n \in 0..Len(ss), n < Len(ss), n \in E
      PROVE  n + 1 \in E
  <2>1. PICK f : B(f, n)
    BY <1>3
  <2>2. n \in Nat /\ n + 1 \in 0..Len(ss)
    BY <1>1, <1>3
  <2> DEFINE g == [i \in 1..n + 1 |->
                     IF i <= n THEN f[i] ELSE IF i = 1 THEN ss[i] ELSE f[i - 1] \o ss[i]]
  <2>3. \A i \in 1..n : f[i] = IF i = 1 THEN ss[i] ELSE f[i - 1] \o ss[i]
    BY <2>1, <2>2
  <2>4. \A i \in 1..n + 1 : g[i] = IF i = 1 THEN ss[i] ELSE g[i - 1] \o ss[i]
    <3> SUFFICES ASSUME NEW i \in 1..n + 1
                 PROVE  g[i] = IF i = 1 THEN ss[i] ELSE g[i - 1] \o ss[i]
      OBVIOUS
    <3>1. i = 1 \/ (i - 1 \in 1..n /\ i - 1 \in 1..n + 1)
      BY <2>2
    <3>2. i - 1 \in 1..n => g[i - 1] = f[i - 1]
      BY <2>2
    <3>3. CASE i <= n
      BY <2>2, <2>3, <3>1, <3>2, <3>3
    <3>4. CASE ~(i <= n)
      BY <2>2, <3>1, <3>2, <3>4
    <3> QED
      BY <3>3, <3>4
  <2>5. g = [i \in 1..n + 1 |-> IF i = 1 THEN ss[i] ELSE g[i - 1] \o ss[i]]
    <3>1. g = [i \in 1..n + 1 |-> g[i]]
      OBVIOUS
    <3> HIDE DEF g
    <3> QED
      BY <2>4, <3>1
  <2> QED
    BY <2>2, <2>5
<1> HIDE DEF E
<1>4. \A n \in 0..Len(ss) : n \in E
  BY <1>1, <1>2, <1>3, Induct
<1>5. Len(ss) \in E
  BY <1>1, <1>4
<1> QED
  BY <1>5 DEF E, Chain

LEMMA FlattenIs ==
    ASSUME NEW T, NEW ss \in Seq(T), ss # <<>>
    PROVE  \E f : Chain(ss, f) /\ FlattenSeq(ss) = f[Len(ss)]
<1> DEFINE f == CHOOSE g : Chain(ss, g)
<1>1. Chain(ss, f)
  BY ChainExists
<1>2. Len(ss) # 0
  BY EmptySeq, LenProperties
<1>3. FlattenSeq(ss) = f[Len(ss)]
  BY <1>2 DEF FlattenSeq, Chain
<1> QED
  BY <1>1, <1>3

LEMMA FlattenEmpty == FlattenSeq(<<>>) = <<>>
BY DEF FlattenSeq

LEMMA ChainStep ==
    ASSUME NEW T, NEW ss \in Seq(T), NEW f, Chain(ss, f), NEW i \in 1..Len(ss)
    PROVE  f[i] = IF i = 1 THEN ss[i] ELSE f[i - 1] \o ss[i]
BY DEF Chain

LEMMA FlattenAppend ==
    ASSUME NEW T, NEW ss \in Seq(Seq(T)), NEW s \in Seq(T)
    PROVE  FlattenSeq(Append(ss, s)) = FlattenSeq(ss) \o s
<1> DEFINE tt == Append(ss, s)
<1>1. /\ tt \in Seq(Seq(T)) /\ tt # <<>> /\ Len(tt) = Len(ss) + 1
      /\ \A i \in 1..Len(ss) : tt[i] = ss[i]
      /\ tt[Len(ss) + 1] = s
      /\ Len(ss) \in Nat
  BY AppendProperties, LenProperties
<1> HIDE DEF tt
<1>2. PICK g : Chain(tt, g) /\ FlattenSeq(tt) = g[Len(tt)]
  BY <1>1, FlattenIs
<1>3. CASE ss = <<>>
  <2>1. Len(tt) = 1 /\ tt[1] = s
    BY <1>1, <1>3, EmptySeq
  <2>2. g[1] = s
    BY <1>1, <1>2, <2>1, ChainStep
  <2> QED
    BY <1>2, <1>3, <2>1, <2>2, FlattenEmpty, ConcatEmptySeq DEF tt
<1>4. CASE ss # <<>>
  <2>1. PICK f : Chain(ss, f) /\ FlattenSeq(ss) = f[Len(ss)]
    BY <1>4, FlattenIs
  <2>2. Len(ss) \in Nat \ {0}
    BY <1>4, EmptySeq
  <2> DEFINE E == {i \in 0..Len(ss) : i = 0 \/ f[i] = g[i]}
  <2>3. 0 \in E
    BY <1>1
  <2>4. ASSUME NEW i \in 0..Len(ss), i < Len(ss), i \in E
        PROVE  i + 1 \in E
    <3>1. i \in Nat /\ i + 1 \in 1..Len(ss) /\ i + 1 \in 1..Len(tt) /\ i + 1 \in 0..Len(ss)
      BY <1>1, <2>4
    <3>2. f[i + 1] = IF i + 1 = 1 THEN ss[i + 1] ELSE f[(i + 1) - 1] \o ss[i + 1]
      BY <2>1, <3>1, ChainStep
    <3>3. g[i + 1] = IF i + 1 = 1 THEN tt[i + 1] ELSE g[(i + 1) - 1] \o tt[i + 1]
      BY <1>1, <1>2, <3>1, ChainStep
    <3>4. tt[i + 1] = ss[i + 1] /\ (i + 1) - 1 = i
      BY <1>1, <3>1
    <3>5. i + 1 = 1 \/ f[i] = g[i]
      BY <2>4, <3>1
    <3>6. f[i + 1] = g[i + 1]
      BY <3>2, <3>3, <3>4, <3>5
    <3> QED
      BY <3>1, <3>6
  <2> HIDE DEF E
  <2>5. \A i \in 0..Len(ss) : i \in E
    BY <1>1, <2>3, <2>4, Induct
  <2>6. Len(ss) \in E
    BY <1>1, <2>5
  <2>7. f[Len(ss)] = g[Len(ss)]
    BY <2>2, <2>6 DEF E
  <2>8. Len(tt) \in 1..Len(tt) /\ Len(tt) # 1 /\ Len(tt) - 1 = Len(ss) /\ tt[Len(tt)] = s
    BY <1>1, <2>2
  <2>9. g[Len(tt)] = g[Len(tt) - 1] \o tt[Len(tt)]
    BY <1>1, <1>2, <2>8, ChainStep
  <2> QED
    BY <1>2, <2>1, <2>7, <2>8, <2>9 DEF tt
<1> QED
  BY <1>3, <1>4

LEMMA FlattenType ==
    ASSUME NEW T
    PROVE  \A ss \in Seq(Seq(T)) : FlattenSeq(ss) \in Seq(T)
<1> DEFINE D == {ss \in Seq(Seq(T)) : FlattenSeq(ss) \in Seq(T)}
<1>1. <<>> \in D
  BY FlattenEmpty, EmptySeq
<1>2. ASSUME NEW ss \in Seq(Seq(T)), NEW s \in Seq(T), ss \in D
      PROVE  Append(ss, s) \in D
  BY <1>2, FlattenAppend, AppendProperties, ConcatProperties
<1> HIDE DEF D
<1>3. \A ss \in Seq(Seq(T)) : ss \in D
  BY <1>1, <1>2, SeqInduct
<1> QED
  BY <1>3 DEF D

-----------------------------------------------------------------------------
(* The points of a sequence of chunks                                      *)

LEMMA ConcatAppend ==
    ASSUME NEW T, NEW a \in Seq(T), NEW b \in Seq(T), NEW x \in T
    PROVE  a \o Append(b, x) = Append(a \o b, x)
<1>1. Append(b, x) = b \o <<x>> /\ <<x>> \in Seq(T)
  BY AppendIs, One
<1>2. a \o b \in Seq(T)
  BY ConcatProperties
<1>3. Append(a \o b, x) = (a \o b) \o <<x>>
  BY <1>2, AppendIs
<1> QED
  BY <1>1, <1>3, ConcatAssociative

LEMMA FlattenConcat ==
    ASSUME NEW T, NEW a \in Seq(Seq(T))
    PROVE  \A b \in Seq(Seq(T)) : FlattenSeq(a \o b) = FlattenSeq(a) \o FlattenSeq(b)
<1> DEFINE D == {b \in Seq(Seq(T)) : FlattenSeq(a \o b) = FlattenSeq(a) \o FlattenSeq(b)}
<1>1. <<>> \in D
  <2>1. FlattenSeq(a) \in Seq(T)
    BY FlattenType
  <2>2. FlattenSeq(a) \o <<>> = FlattenSeq(a) /\ a \o <<>> = a
    BY <2>1, ConcatEmptySeq
  <2> QED
    BY <2>2, FlattenEmpty, EmptySeq
<1>2. ASSUME NEW b \in Seq(Seq(T)), NEW s \in Seq(T), b \in D
      PROVE  Append(b, s) \in D
  <2>1. a \o Append(b, s) = Append(a \o b, s)
    BY ConcatAppend
  <2>2. a \o b \in Seq(Seq(T)) /\ Append(b, s) \in Seq(Seq(T))
    BY ConcatProperties, AppendProperties
  <2>3. FlattenSeq(Append(a \o b, s)) = FlattenSeq(a \o b) \o s
    BY <2>2, FlattenAppend
  <2>4. FlattenSeq(Append(b, s)) = FlattenSeq(b) \o s
    BY FlattenAppend
  <2>5. FlattenSeq(a) \in Seq(T) /\ FlattenSeq(b) \in Seq(T)
    BY FlattenType
  <2>6. (FlattenSeq(a) \o FlattenSeq(b)) \o s = FlattenSeq(a) \o (FlattenSeq(b) \o s)
    BY <2>5, ConcatAssociative
  <2> QED
    BY <1>2, <2>1, <2>2, <2>3, <2>4, <2>6
<1> HIDE DEF D
<1>3. \A b \in Seq(Seq(T)) : b \in D
  BY <1>1, <1>2, SeqInduct
<1> QED
  BY <1>3 DEF D

(***************************************************************************)
(* The points of a sequence of chunks                                      *)
(***************************************************************************)

\* The points of the chunks, one sequence each.
Parts(cs) == [i \in DOMAIN cs |-> cs[i].points]

LEMMA PartsType ==
    ASSUME NEW cs \in Seq(Chunks)
    PROVE  /\ Parts(cs) \in Seq(Seq(Points))
           /\ Len(Parts(cs)) = Len(cs) /\ DOMAIN Parts(cs) = 1..Len(cs)
           /\ \A i \in 1..Len(cs) : Parts(cs)[i] = cs[i].points
<1>1. Len(cs) \in Nat /\ DOMAIN cs = 1..Len(cs)
  BY LenProperties
<1>2. \A i \in 1..Len(cs) : cs[i] \in Chunks
  BY ElementOfSeq
<1>3. \A i \in 1..Len(cs) : cs[i].points \in Seq(Points)
  BY <1>2 DEF Chunks
<1> QED
  BY <1>1, <1>3 DEF Parts

LEMMA PartsConcat ==
    ASSUME NEW a \in Seq(Chunks), NEW b \in Seq(Chunks)
    PROVE  Parts(a \o b) = Parts(a) \o Parts(b)
<1>1. a \o b \in Seq(Chunks) /\ Len(a \o b) = Len(a) + Len(b)
      /\ \A i \in 1..Len(a) + Len(b) : (a \o b)[i] = IF i <= Len(a) THEN a[i] ELSE b[i - Len(a)]
  BY ConcatProperties
<1>2. Len(a) \in Nat /\ Len(b) \in Nat
  BY LenProperties
<1>3. /\ Parts(a \o b) \in Seq(Seq(Points)) /\ Len(Parts(a \o b)) = Len(a) + Len(b)
      /\ \A i \in 1..Len(a) + Len(b) : Parts(a \o b)[i] = (a \o b)[i].points
  BY <1>1, PartsType
<1>4. /\ Parts(a) \in Seq(Seq(Points)) /\ Len(Parts(a)) = Len(a)
      /\ \A i \in 1..Len(a) : Parts(a)[i] = a[i].points
      /\ Parts(b) \in Seq(Seq(Points)) /\ Len(Parts(b)) = Len(b)
      /\ \A i \in 1..Len(b) : Parts(b)[i] = b[i].points
  BY PartsType
<1> DEFINE u == Parts(a) \o Parts(b)
<1>5. /\ u \in Seq(Seq(Points)) /\ Len(u) = Len(a) + Len(b)
      /\ \A i \in 1..Len(a) + Len(b) :
           u[i] = IF i <= Len(a) THEN Parts(a)[i] ELSE Parts(b)[i - Len(a)]
  <2>1. \A x, y \in Seq(Seq(Points)) :
          /\ x \o y \in Seq(Seq(Points)) /\ Len(x \o y) = Len(x) + Len(y)
          /\ \A i \in 1..Len(x) + Len(y) :
               (x \o y)[i] = IF i <= Len(x) THEN x[i] ELSE y[i - Len(x)]
    BY ConcatProperties
  <2>2. /\ u \in Seq(Seq(Points)) /\ Len(u) = Len(Parts(a)) + Len(Parts(b))
        /\ \A i \in 1..Len(Parts(a)) + Len(Parts(b)) :
             u[i] = IF i <= Len(Parts(a)) THEN Parts(a)[i] ELSE Parts(b)[i - Len(Parts(a))]
    BY <1>4, <2>1, Zenon
  <2> QED
    BY <1>4, <2>2
<1> HIDE DEF u
<1>6. \A i \in 1..Len(a) + Len(b) : Parts(a \o b)[i] = u[i]
  <2> SUFFICES ASSUME NEW i \in 1..Len(a) + Len(b)
               PROVE  Parts(a \o b)[i] = u[i]
    OBVIOUS
  <2>1. CASE i <= Len(a)
    <3>1. i \in 1..Len(a)
      BY <1>2, <2>1
    <3> QED
      BY <1>1, <1>3, <1>4, <1>5, <2>1, <3>1
  <2>2. CASE ~(i <= Len(a))
    <3>1. i - Len(a) \in 1..Len(b)
      BY <1>2, <2>2
    <3> QED
      BY <1>1, <1>3, <1>4, <1>5, <2>2, <3>1
  <2> QED
    BY <2>1, <2>2
<1>7. Parts(a \o b) = u
  BY <1>3, <1>5, <1>6, SeqEqual
<1> QED
  BY <1>7 DEF u

LEMMA PointsOfIs ==
    ASSUME NEW cs
    PROVE  PointsOf(cs) = FlattenSeq(Parts(cs))
BY DEF PointsOf, Parts

LEMMA PointsType ==
    ASSUME NEW cs \in Seq(Chunks)
    PROVE  PointsOf(cs) \in Seq(Points)
BY PartsType, FlattenType, PointsOfIs

LEMMA PointsConcat ==
    ASSUME NEW a \in Seq(Chunks), NEW b \in Seq(Chunks)
    PROVE  PointsOf(a \o b) = PointsOf(a) \o PointsOf(b)
<1>1. Parts(a) \in Seq(Seq(Points)) /\ Parts(b) \in Seq(Seq(Points))
  BY PartsType
<1> QED
  BY <1>1, PartsConcat, FlattenConcat, PointsOfIs

LEMMA PointsEmpty == PointsOf(<<>>) = <<>>
<1>1. Parts(<<>>) = <<>>
  BY DEF Parts
<1> QED
  BY <1>1, PointsOfIs, FlattenEmpty

LEMMA PointsOne ==
    ASSUME NEW c \in Chunks
    PROVE  PointsOf(<<c>>) = c.points
<1>1. c.points \in Seq(Points)
  BY DEF Chunks
<1>2. Parts(<<c>>) = <<c.points>>
  BY DEF Parts
<1>3. FlattenSeq(Append(<<>>, c.points)) = FlattenSeq(<<>>) \o c.points
  BY <1>1, FlattenAppend, EmptySeq
<1>4. Append(<<>>, c.points) = <<c.points>> /\ <<>> \o c.points = c.points
  BY <1>1, One, ConcatEmptySeq
<1> QED
  BY <1>2, <1>3, <1>4, FlattenEmpty, PointsOfIs

LEMMA PointsAppend ==
    ASSUME NEW cs \in Seq(Chunks), NEW c \in Chunks
    PROVE  PointsOf(Append(cs, c)) = PointsOf(cs) \o c.points
<1>1. Append(cs, c) = cs \o <<c>> /\ <<c>> \in Seq(Chunks)
  BY AppendIs, One
<1>2. PointsOf(cs \o <<c>>) = PointsOf(cs) \o PointsOf(<<c>>)
  BY <1>1, PointsConcat
<1> QED
  BY <1>1, <1>2, PointsOne

(***************************************************************************)
(* The ids of points                                                       *)
(***************************************************************************)

LEMMA ConcatSets ==
    ASSUME NEW T, NEW a \in Seq(T), NEW b \in Seq(T)
    PROVE  /\ ToSet(a \o b) = ToSet(a) \cup ToSet(b)
           /\ PointIds(a \o b) = PointIds(a) \cup PointIds(b)
<1> DEFINE u == a \o b
<1>1. Len(a) \in Nat /\ Len(b) \in Nat /\ DOMAIN a = 1..Len(a) /\ DOMAIN b = 1..Len(b)
  BY LenProperties
<1>2. u \in Seq(T) /\ Len(u) = Len(a) + Len(b)
      /\ \A i \in 1..Len(a) + Len(b) : u[i] = IF i <= Len(a) THEN a[i] ELSE b[i - Len(a)]
  BY ConcatProperties
<1>3. DOMAIN u = 1..Len(a) + Len(b)
  BY <1>2, LenProperties
<1> HIDE DEF u
<1>4. \A i \in DOMAIN a : i \in DOMAIN u /\ u[i] = a[i]
  BY <1>1, <1>2, <1>3
<1>5. \A i \in DOMAIN b : i + Len(a) \in DOMAIN u /\ u[i + Len(a)] = b[i]
  <2> SUFFICES ASSUME NEW i \in DOMAIN b
               PROVE  i + Len(a) \in DOMAIN u /\ u[i + Len(a)] = b[i]
    OBVIOUS
  <2>1. i + Len(a) \in 1..Len(a) + Len(b) /\ ~(i + Len(a) <= Len(a)) /\ (i + Len(a)) - Len(a) = i
    BY <1>1
  <2> QED
    BY <1>2, <1>3, <2>1
<1>6. \A i \in DOMAIN u : (i \in DOMAIN a /\ u[i] = a[i])
                          \/ (i - Len(a) \in DOMAIN b /\ u[i] = b[i - Len(a)])
  BY <1>1, <1>2, <1>3
<1>7. ToSet(u) = ToSet(a) \cup ToSet(b)
  BY <1>4, <1>5, <1>6 DEF ToSet
<1>8. PointIds(u) = PointIds(a) \cup PointIds(b)
  BY <1>4, <1>5, <1>6 DEF PointIds
<1> QED
  BY <1>7, <1>8 DEF u

LEMMA IdsOfSet ==
    ASSUME NEW s
    PROVE  PointIds(s) = {Id(x) : x \in ToSet(s)}
BY DEF PointIds, ToSet

LEMMA PointsSet ==
    \A cs \in Seq(Chunks) : ToSet(PointsOf(cs)) = UNION {ToSet(c.points) : c \in ToSet(cs)}
<1> DEFINE All(cs) == UNION {ToSet(c.points) : c \in ToSet(cs)}
           D == {cs \in Seq(Chunks) : ToSet(PointsOf(cs)) = All(cs)}
<1>1. <<>> \in D
  BY PointsEmpty, EmptySeq DEF ToSet
<1>2. ASSUME NEW cs \in Seq(Chunks), NEW c \in Chunks, cs \in D
      PROVE  Append(cs, c) \in D
  <2>1. Append(cs, c) \in Seq(Chunks) /\ Append(cs, c) = cs \o <<c>> /\ <<c>> \in Seq(Chunks)
    BY AppendIs, One
  <2>2. c.points \in Seq(Points) /\ PointsOf(cs) \in Seq(Points)
    BY PointsType DEF Chunks
  <2>3. ToSet(PointsOf(Append(cs, c))) = ToSet(PointsOf(cs)) \cup ToSet(c.points)
    <3>1. PointsOf(Append(cs, c)) = PointsOf(cs) \o c.points
      BY PointsAppend
    <3>2. ToSet(PointsOf(cs) \o c.points) = ToSet(PointsOf(cs)) \cup ToSet(c.points)
      BY <2>2, ConcatSets
    <3> QED
      BY <3>1, <3>2
  <2>4. ToSet(<<c>>) = {c}
    BY DEF ToSet
  <2>5. ToSet(Append(cs, c)) = ToSet(cs) \cup {c}
    <3>0. \A w \in Seq(Chunks) : ToSet(cs \o w) = ToSet(cs) \cup ToSet(w)
      BY ConcatSets
    <3>1. ToSet(cs \o <<c>>) = ToSet(cs) \cup ToSet(<<c>>)
      BY <2>1, <3>0, Zenon
    <3> QED
      BY <2>1, <2>4, <3>1
  <2>6. All(Append(cs, c)) = All(cs) \cup ToSet(c.points)
    BY <2>5
  <2> HIDE DEF All
  <2> QED
    BY <1>2, <2>1, <2>3, <2>6
<1> HIDE DEF D
<1>3. \A cs \in Seq(Chunks) : cs \in D
  BY <1>1, <1>2, SeqInduct
<1> QED
  BY <1>3 DEF D

-----------------------------------------------------------------------------
(* Only: the elements of a sequence that are in a set                      *)

(***************************************************************************)
(* Only                                                                    *)
(***************************************************************************)

\* f[i] is what the first i elements leave (the recursion of Only).
OnlyChain(s, S, f) ==
    f = [i \in 0..Len(s) |->
           IF i = 0 THEN <<>> ELSE IF s[i] \in S THEN Append(f[i - 1], s[i]) ELSE f[i - 1]]

LEMMA OnlyChainExists ==
    ASSUME NEW T, NEW s \in Seq(T), NEW S
    PROVE  \E f : OnlyChain(s, S, f)
<1> DEFINE V(f, i) == IF i = 0 THEN <<>>
                      ELSE IF s[i] \in S THEN Append(f[i - 1], s[i]) ELSE f[i - 1]
           B(f, n) == f = [i \in 0..n |-> V(f, i)]
           E == {n \in 0..Len(s) : \E f : B(f, n)}
<1>1. Len(s) \in Nat
  BY LenProperties
<1>2. 0 \in E
  <2> DEFINE f == [i \in 0..0 |-> <<>>]
  <2>1. B(f, 0)
    OBVIOUS
  <2> HIDE DEF f, B
  <2>2. \E h : B(h, 0)
    BY <2>1
  <2> QED
    BY <1>1, <2>2
<1>3. ASSUME NEW n \in 0..Len(s), n < Len(s), n \in E
      PROVE  n + 1 \in E
  <2>1. PICK f : B(f, n)
    BY <1>3
  <2>2. n \in Nat /\ n + 1 \in 0..Len(s)
    BY <1>1, <1>3
  <2> DEFINE g == [i \in 0..n + 1 |-> IF i <= n THEN f[i] ELSE V(f, i)]
  <2>3. \A i \in 0..n : f[i] = V(f, i)
    BY <2>1, <2>2
  <2>4. \A i \in 0..n + 1 : g[i] = V(g, i)
    <3> SUFFICES ASSUME NEW i \in 0..n + 1
                 PROVE  g[i] = V(g, i)
      OBVIOUS
    <3>1. i = 0 \/ (i - 1 \in 0..n /\ i - 1 \in 0..n + 1)
      BY <2>2
    <3>2. i - 1 \in 0..n => g[i - 1] = f[i - 1]
      BY <2>2
    <3>3. CASE i <= n
      BY <2>2, <2>3, <3>1, <3>2, <3>3
    <3>4. CASE ~(i <= n)
      BY <2>2, <3>1, <3>2, <3>4
    <3> QED
      BY <3>3, <3>4
  <2>5. B(g, n + 1)
    <3>1. g = [i \in 0..n + 1 |-> g[i]]
      OBVIOUS
    <3> HIDE DEF g, V
    <3> QED
      BY <2>4, <3>1
  <2> HIDE DEF B, g
  <2> QED
    BY <2>2, <2>5
<1> HIDE DEF E
<1>4. \A n \in 0..Len(s) : n \in E
  BY <1>1, <1>2, <1>3, Induct
<1>5. Len(s) \in E
  BY <1>1, <1>4
<1> QED
  BY <1>5 DEF E, OnlyChain

LEMMA OnlyIs ==
    ASSUME NEW T, NEW s \in Seq(T), NEW S
    PROVE  \E f : OnlyChain(s, S, f) /\ Only(s, S) = f[Len(s)]
<1> DEFINE f == CHOOSE g : OnlyChain(s, S, g)
<1>1. OnlyChain(s, S, f)
  BY OnlyChainExists
<1>2. Only(s, S) = f[Len(s)]
  BY DEF Only, OnlyChain
<1> QED
  BY <1>1, <1>2

LEMMA OnlyChainStep ==
    ASSUME NEW s, NEW S, NEW f, OnlyChain(s, S, f), NEW i \in 0..Len(s)
    PROVE  f[i] = IF i = 0 THEN <<>>
                  ELSE IF s[i] \in S THEN Append(f[i - 1], s[i]) ELSE f[i - 1]
BY DEF OnlyChain

LEMMA OnlyEmpty ==
    ASSUME NEW S
    PROVE  Only(<<>>, S) = <<>>
<1>1. <<>> \in Seq({}) /\ Len(<<>>) = 0
  BY EmptySeq
<1>2. PICK f : OnlyChain(<<>>, S, f) /\ Only(<<>>, S) = f[Len(<<>>)]
  BY <1>1, OnlyIs
<1>3. f[0] = <<>>
  BY <1>1, <1>2, OnlyChainStep
<1> QED
  BY <1>1, <1>2, <1>3

LEMMA OnlyAppend ==
    ASSUME NEW T, NEW s \in Seq(T), NEW x \in T, NEW S
    PROVE  Only(Append(s, x), S) = IF x \in S THEN Append(Only(s, S), x) ELSE Only(s, S)
<1> DEFINE t == Append(s, x)
<1>1. /\ t \in Seq(T) /\ Len(t) = Len(s) + 1
      /\ \A i \in 1..Len(s) : t[i] = s[i]
      /\ t[Len(s) + 1] = x
      /\ Len(s) \in Nat
  BY AppendProperties, LenProperties
<1> HIDE DEF t
<1>2. PICK g : OnlyChain(t, S, g) /\ Only(t, S) = g[Len(t)]
  BY <1>1, OnlyIs
<1>3. PICK f : OnlyChain(s, S, f) /\ Only(s, S) = f[Len(s)]
  BY OnlyIs
<1> DEFINE E == {i \in 0..Len(s) : f[i] = g[i]}
<1>4. 0 \in E
  <2>1. 0 \in 0..Len(s) /\ 0 \in 0..Len(t)
    BY <1>1
  <2>2. f[0] = <<>>
    BY <1>3, <2>1, OnlyChainStep
  <2>3. g[0] = <<>>
    BY <1>2, <2>1, OnlyChainStep
  <2> QED
    BY <2>1, <2>2, <2>3
<1>5. ASSUME NEW i \in 0..Len(s), i < Len(s), i \in E
      PROVE  i + 1 \in E
  <2>1. i \in Nat /\ i + 1 \in 0..Len(s) /\ i + 1 \in 0..Len(t) /\ i + 1 # 0 /\ (i + 1) - 1 = i
    BY <1>1, <1>5
  <2>2. t[i + 1] = s[i + 1]
    BY <1>1, <1>5, <2>1
  <2>3. f[i + 1] = IF s[i + 1] \in S THEN Append(f[(i + 1) - 1], s[i + 1]) ELSE f[(i + 1) - 1]
    BY <1>3, <2>1, OnlyChainStep
  <2>4. g[i + 1] = IF t[i + 1] \in S THEN Append(g[(i + 1) - 1], t[i + 1]) ELSE g[(i + 1) - 1]
    BY <1>2, <2>1, OnlyChainStep
  <2> QED
    BY <1>5, <2>1, <2>2, <2>3, <2>4
<1> HIDE DEF E
<1>6. \A i \in 0..Len(s) : i \in E
  BY <1>1, <1>4, <1>5, Induct
<1>7. Len(s) \in E
  BY <1>1, <1>6
<1>8. f[Len(s)] = g[Len(s)]
  BY <1>7 DEF E
<1>9. Len(t) \in 0..Len(t) /\ Len(t) # 0 /\ Len(t) - 1 = Len(s) /\ t[Len(t)] = x
  BY <1>1
<1>10. g[Len(t)] = IF t[Len(t)] \in S THEN Append(g[Len(t) - 1], t[Len(t)]) ELSE g[Len(t) - 1]
  BY <1>2, <1>9, OnlyChainStep
<1> QED
  BY <1>2, <1>3, <1>8, <1>9, <1>10 DEF t

\* What is left is typed, has the elements that are in S, and in their order.
Ordered(u, s) ==
    \A i, j \in DOMAIN u : i < j =>
      \E k, l \in DOMAIN s : k < l /\ s[k] = u[i] /\ s[l] = u[j]

LEMMA OnlyProperties ==
    ASSUME NEW T, NEW S
    PROVE  \A s \in Seq(T) :
             /\ Only(s, S) \in Seq(T)
             /\ ToSet(Only(s, S)) = ToSet(s) \cap S
             /\ Ordered(Only(s, S), s)
<1> DEFINE D == {s \in Seq(T) : /\ Only(s, S) \in Seq(T)
                                /\ ToSet(Only(s, S)) = ToSet(s) \cap S
                                /\ Ordered(Only(s, S), s)}
<1>1. <<>> \in D
  <2>1. <<>> \in Seq(T) /\ ToSet(<<>>) = {} /\ Ordered(<<>>, <<>>)
    BY EmptySeq DEF ToSet, Ordered
  <2> QED
    BY <2>1, OnlyEmpty
<1>2. ASSUME NEW s \in Seq(T), NEW x \in T, s \in D
      PROVE  Append(s, x) \in D
  <2> DEFINE o == Only(s, S)
             t == Append(s, x)
             p == Append(o, x)
  <2>1. o \in Seq(T) /\ ToSet(o) = ToSet(s) \cap S /\ Ordered(o, s)
    BY <1>2
  <2> HIDE DEF o
  <2>2. /\ t \in Seq(T) /\ Len(t) = Len(s) + 1 /\ t[Len(s) + 1] = x
        /\ \A i \in 1..Len(s) : t[i] = s[i]
        /\ Len(s) \in Nat /\ DOMAIN s = 1..Len(s)
    BY AppendProperties, LenProperties
  <2>3. DOMAIN t = 1..Len(s) + 1
    BY <2>2, LenProperties
  <2>4. /\ p \in Seq(T) /\ Len(p) = Len(o) + 1 /\ p[Len(o) + 1] = x
        /\ \A i \in 1..Len(o) : p[i] = o[i]
        /\ Len(o) \in Nat /\ DOMAIN o = 1..Len(o)
    BY <2>1, AppendProperties, LenProperties
  <2>5. DOMAIN p = 1..Len(o) + 1
    BY <2>4, LenProperties
  <2>6. Only(t, S) = IF x \in S THEN p ELSE o
    BY OnlyAppend DEF o
  <2> HIDE DEF t, p
  <2>7. ToSet(t) = ToSet(s) \cup {x}
    BY <2>2, <2>3 DEF ToSet
  <2>8. ToSet(p) = ToSet(o) \cup {x}
    BY <2>4, <2>5 DEF ToSet
  <2>9. ToSet(Only(t, S)) = ToSet(t) \cap S
    BY <2>1, <2>6, <2>7, <2>8
  <2>10. Ordered(o, t)
    <3> SUFFICES ASSUME NEW i \in DOMAIN o, NEW j \in DOMAIN o, i < j
                 PROVE  \E k, l \in DOMAIN t : k < l /\ t[k] = o[i] /\ t[l] = o[j]
      BY DEF Ordered
    <3>1. PICK k \in DOMAIN s, l \in DOMAIN s : k < l /\ s[k] = o[i] /\ s[l] = o[j]
      BY <2>1 DEF Ordered
    <3>2. k \in DOMAIN t /\ l \in DOMAIN t /\ t[k] = s[k] /\ t[l] = s[l]
      BY <2>2, <2>3
    <3> QED
      BY <3>1, <3>2
  <2>11. Ordered(p, t)
    <3> SUFFICES ASSUME NEW i \in DOMAIN p, NEW j \in DOMAIN p, i < j
                 PROVE  \E k, l \in DOMAIN t : k < l /\ t[k] = p[i] /\ t[l] = p[j]
      BY DEF Ordered
    <3>0. i \in DOMAIN o /\ p[i] = o[i]
      BY <2>4, <2>5
    <3>1. CASE j \in DOMAIN o
      <4>1. p[j] = o[j]
        BY <2>4, <3>1
      <4> QED
        BY <2>10, <3>0, <3>1, <4>1 DEF Ordered
    <3>2. CASE j \notin DOMAIN o
      <4>1. j = Len(o) + 1 /\ p[j] = x
        BY <2>4, <2>5, <3>2
      <4>2. o[i] \in ToSet(s)
        BY <2>1, <3>0 DEF ToSet
      <4>3. PICK k \in DOMAIN s : s[k] = o[i]
        BY <4>2 DEF ToSet
      <4>4. k \in DOMAIN t /\ t[k] = s[k] /\ Len(s) + 1 \in DOMAIN t /\ k < Len(s) + 1
        BY <2>2, <2>3
      <4> QED
        BY <2>2, <3>0, <4>1, <4>3, <4>4
    <3> QED
      BY <3>1, <3>2
  <2>12. Only(t, S) \in Seq(T) /\ Ordered(Only(t, S), t)
    BY <2>1, <2>4, <2>6, <2>10, <2>11
  <2> QED
    BY <2>2, <2>9, <2>12 DEF t
<1> HIDE DEF D
<1>3. \A s \in Seq(T) : s \in D
  BY <1>1, <1>2, SeqInduct
<1> QED
  BY <1>3 DEF D

LEMMA OnlySame ==
    ASSUME NEW T, NEW S, NEW R
    PROVE  \A s \in Seq(T) : ToSet(s) \cap S = ToSet(s) \cap R => Only(s, S) = Only(s, R)
<1> DEFINE D == {s \in Seq(T) : ToSet(s) \cap S = ToSet(s) \cap R => Only(s, S) = Only(s, R)}
<1>1. <<>> \in D
  BY OnlyEmpty, EmptySeq
<1>2. ASSUME NEW s \in Seq(T), NEW x \in T, s \in D
      PROVE  Append(s, x) \in D
  <2> DEFINE t == Append(s, x)
  <2>2. /\ t \in Seq(T) /\ Len(t) = Len(s) + 1 /\ t[Len(s) + 1] = x
        /\ \A i \in 1..Len(s) : t[i] = s[i]
        /\ Len(s) \in Nat /\ DOMAIN s = 1..Len(s)
    BY AppendProperties, LenProperties
  <2>3. DOMAIN t = 1..Len(s) + 1
    BY <2>2, LenProperties
  <2> HIDE DEF t
  <2>4. ToSet(t) = ToSet(s) \cup {x}
    BY <2>2, <2>3 DEF ToSet
  <2>5. /\ Only(t, S) = IF x \in S THEN Append(Only(s, S), x) ELSE Only(s, S)
        /\ Only(t, R) = IF x \in R THEN Append(Only(s, R), x) ELSE Only(s, R)
    BY OnlyAppend DEF t
  <2>6. ToSet(t) \cap S = ToSet(t) \cap R => Only(t, S) = Only(t, R)
    <3> SUFFICES ASSUME ToSet(t) \cap S = ToSet(t) \cap R
                 PROVE  Only(t, S) = Only(t, R)
      OBVIOUS
    <3>1. ToSet(s) \cap S = ToSet(s) \cap R /\ (x \in S <=> x \in R)
      BY <2>4
    <3> QED
      BY <1>2, <2>5, <3>1
  <2> QED
    BY <2>2, <2>6 DEF t
<1> HIDE DEF D
<1>3. \A s \in Seq(T) : s \in D
  BY <1>1, <1>2, SeqInduct
<1> QED
  BY <1>3 DEF D

LEMMA OnlyConcat ==
    ASSUME NEW T, NEW S, NEW a \in Seq(T)
    PROVE  \A b \in Seq(T) : Only(a \o b, S) = Only(a, S) \o Only(b, S)
<1> DEFINE D == {b \in Seq(T) : Only(a \o b, S) = Only(a, S) \o Only(b, S)}
<1>1. <<>> \in D
  <2>1. Only(a, S) \in Seq(T)
    BY OnlyProperties
  <2>2. Only(a, S) \o <<>> = Only(a, S) /\ a \o <<>> = a
    BY <2>1, ConcatEmptySeq
  <2> QED
    BY <2>2, OnlyEmpty, EmptySeq
<1>2. ASSUME NEW b \in Seq(T), NEW x \in T, b \in D
      PROVE  Append(b, x) \in D
  <2>1. a \o Append(b, x) = Append(a \o b, x)
    BY ConcatAppend
  <2>2. a \o b \in Seq(T) /\ Append(b, x) \in Seq(T)
    BY ConcatProperties, AppendProperties
  <2>3. Only(Append(a \o b, x), S) =
          IF x \in S THEN Append(Only(a \o b, S), x) ELSE Only(a \o b, S)
    BY <2>2, OnlyAppend
  <2>4. Only(Append(b, x), S) = IF x \in S THEN Append(Only(b, S), x) ELSE Only(b, S)
    BY OnlyAppend
  <2>5. Only(a, S) \in Seq(T) /\ Only(b, S) \in Seq(T)
    BY OnlyProperties
  <2>6. Only(a, S) \o Append(Only(b, S), x) = Append(Only(a, S) \o Only(b, S), x)
    BY <2>5, ConcatAppend
  <2> QED
    BY <1>2, <2>1, <2>2, <2>3, <2>4, <2>6
<1> HIDE DEF D
<1>3. \A b \in Seq(T) : b \in D
  BY <1>1, <1>2, SeqInduct
<1> QED
  BY <1>3 DEF D

-----------------------------------------------------------------------------
(* Sequences in which no id occurs twice; cutting and inserting            *)

(***************************************************************************)
(* Distinct ids, and a sequence taken apart at one element                 *)
(***************************************************************************)

\* No id occurs twice.
Distinct(s) == \A i, j \in DOMAIN s : Id(s[i]) = Id(s[j]) => i = j

\* u is a and then b, element by element.
IsConcat(u, a, b) ==
    /\ Len(u) = Len(a) + Len(b)
    /\ \A k \in 1..Len(a) + Len(b) : u[k] = IF k <= Len(a) THEN a[k] ELSE b[k - Len(a)]

LEMMA ConcatIs ==
    ASSUME NEW T, NEW a \in Seq(T), NEW b \in Seq(T)
    PROVE  a \o b \in Seq(T) /\ IsConcat(a \o b, a, b)
BY ConcatProperties DEF IsConcat

LEMMA DistinctConcat ==
    ASSUME NEW T, NEW a \in Seq(T), NEW b \in Seq(T)
    PROVE  Distinct(a \o b) <=>
             Distinct(a) /\ Distinct(b) /\ PointIds(a) \cap PointIds(b) = {}
<1> DEFINE u == a \o b
<1>1. Len(a) \in Nat /\ Len(b) \in Nat /\ DOMAIN a = 1..Len(a) /\ DOMAIN b = 1..Len(b)
  BY LenProperties
<1>2. u \in Seq(T) /\ Len(u) = Len(a) + Len(b)
      /\ \A i \in 1..Len(a) + Len(b) : u[i] = IF i <= Len(a) THEN a[i] ELSE b[i - Len(a)]
  BY ConcatProperties
<1>3. DOMAIN u = 1..Len(a) + Len(b)
  BY <1>2, LenProperties
<1> HIDE DEF u
<1>4. \A i \in DOMAIN a : i \in DOMAIN u /\ u[i] = a[i] /\ i <= Len(a)
  BY <1>1, <1>2, <1>3
<1>5. \A i \in DOMAIN b : i + Len(a) \in DOMAIN u /\ u[i + Len(a)] = b[i] /\ ~(i + Len(a) <= Len(a))
  <2> SUFFICES ASSUME NEW i \in DOMAIN b
               PROVE  i + Len(a) \in DOMAIN u /\ u[i + Len(a)] = b[i] /\ ~(i + Len(a) <= Len(a))
    OBVIOUS
  <2>1. i + Len(a) \in 1..Len(a) + Len(b) /\ ~(i + Len(a) <= Len(a)) /\ (i + Len(a)) - Len(a) = i
    BY <1>1
  <2> QED
    BY <1>2, <1>3, <2>1
<1>6. ASSUME Distinct(u)
      PROVE  Distinct(a) /\ Distinct(b) /\ PointIds(a) \cap PointIds(b) = {}
  <2>1. Distinct(a)
    BY <1>4, <1>6 DEF Distinct
  <2>2. Distinct(b)
    <3> SUFFICES ASSUME NEW i \in DOMAIN b, NEW j \in DOMAIN b, Id(b[i]) = Id(b[j])
                 PROVE  i = j
      BY DEF Distinct
    <3>1. i + Len(a) = j + Len(a)
      BY <1>5, <1>6 DEF Distinct
    <3> QED
      BY <1>1, <3>1
  <2>3. ASSUME NEW i \in DOMAIN a, NEW j \in DOMAIN b, Id(a[i]) = Id(b[j])
        PROVE  FALSE
    <3>1. i = j + Len(a)
      BY <1>4, <1>5, <1>6, <2>3 DEF Distinct
    <3> QED
      BY <1>4, <1>5, <3>1
  <2> QED
    BY <2>1, <2>2, <2>3 DEF PointIds
<1>7. ASSUME Distinct(a), Distinct(b), PointIds(a) \cap PointIds(b) = {}
      PROVE  Distinct(u)
  <2> SUFFICES ASSUME NEW i \in DOMAIN u, NEW j \in DOMAIN u, Id(u[i]) = Id(u[j])
               PROVE  i = j
    BY DEF Distinct
  <2>1. i \in Int /\ j \in Int
    BY <1>3
  <2>2. \A k \in DOMAIN u : (k \in DOMAIN a /\ u[k] = a[k])
                            \/ (k - Len(a) \in DOMAIN b /\ u[k] = b[k - Len(a)])
    BY <1>1, <1>2, <1>3
  <2>3. \A k \in DOMAIN a, l \in DOMAIN b : Id(a[k]) # Id(b[l])
    BY <1>7 DEF PointIds
  <2>4. CASE i \in DOMAIN a /\ u[i] = a[i] /\ j \in DOMAIN a /\ u[j] = a[j]
    BY <1>7, <2>4 DEF Distinct
  <2>5. CASE i - Len(a) \in DOMAIN b /\ u[i] = b[i - Len(a)] /\ j - Len(a) \in DOMAIN b /\ u[j] = b[j - Len(a)]
    <3>1. i - Len(a) = j - Len(a)
      BY <1>7, <2>5 DEF Distinct
    <3> QED
      BY <1>1, <2>1, <3>1
  <2> QED
    BY <2>2, <2>3, <2>4, <2>5
<1> QED
  BY <1>6, <1>7 DEF u

LEMMA DistinctOnly ==
    ASSUME NEW T, NEW s \in Seq(T), NEW S, Distinct(s)
    PROVE  Distinct(Only(s, S))
<1> DEFINE u == Only(s, S)
<1>1. Ordered(u, s) /\ u \in Seq(T)
  BY OnlyProperties
<1>2. DOMAIN u = 1..Len(u) /\ Len(u) \in Nat /\ DOMAIN s = 1..Len(s) /\ Len(s) \in Nat
  BY <1>1, LenProperties
<1> HIDE DEF u
<1>3. ASSUME NEW i \in DOMAIN u, NEW j \in DOMAIN u, i < j
      PROVE  Id(u[i]) # Id(u[j])
  <2>1. PICK k \in DOMAIN s, l \in DOMAIN s : k < l /\ s[k] = u[i] /\ s[l] = u[j]
    BY <1>1, <1>3 DEF Ordered
  <2>2. k # l
    BY <1>2, <2>1
  <2> QED
    BY <2>1, <2>2 DEF Distinct
<1> QED
  BY <1>2, <1>3 DEF Distinct, u

\* Replacing element i leaves what is before and behind it.
Replaced(T, s, i, L, R) == \A x \in T : [s EXCEPT ![i] = x] = (L \o <<x>>) \o R

LEMMA SplitAt ==
    ASSUME NEW T, NEW s \in Seq(T), NEW i \in 1..Len(s), NEW L, NEW R,
           L = SubSeq(s, 1, i - 1), R = SubSeq(s, i + 1, Len(s))
    PROVE  /\ L \in Seq(T) /\ R \in Seq(T) /\ Len(L) = i - 1 /\ Len(R) = Len(s) - i
           /\ s[i] \in T
           /\ s = (L \o <<s[i]>>) \o R
           /\ Replaced(T, s, i, L, R)
<1>1. /\ Len(s) \in Nat /\ i \in Nat \ {0} /\ DOMAIN s = 1..Len(s) /\ i <= Len(s)
      /\ \A k \in 1..Len(s) : s[k] \in T
  BY LenProperties, ElementOfSeq
<1>2. L \in Seq(T) /\ Len(L) = i - 1 /\ \A k \in 1..i - 1 : L[k] = s[k]
  <2>1. \A k \in 1..i - 1 : s[k] \in T
    BY <1>1
  <2>2. i - 1 \in Int
    BY <1>1
  <2> QED
    BY <1>1, <2>1, <2>2, SubSeqProperties
<1>3. R \in Seq(T) /\ Len(R) = Len(s) - i /\ \A k \in 1..Len(s) - i : R[k] = s[k + i]
  <2>1. \A k \in i + 1..Len(s) : s[k] \in T
    BY <1>1
  <2>2. i + 1 \in Int /\ Len(s) \in Int
    BY <1>1
  <2>3. R \in Seq(T) /\ Len(R) = (IF i + 1 <= Len(s) THEN Len(s) - (i + 1) + 1 ELSE 0)
        /\ \A k \in 1..Len(s) - (i + 1) + 1 : R[k] = s[(i + 1) + k - 1]
    BY <2>1, <2>2, SubSeqProperties
  <2>4. \A k \in 1..Len(s) - i : k \in 1..Len(s) - (i + 1) + 1 /\ (i + 1) + k - 1 = k + i
    BY <1>1
  <2>5. \A k \in 1..Len(s) - i : R[k] = s[k + i]
    BY <2>3, <2>4
  <2>6. Len(R) = Len(s) - i
    <3>1. Len(R) = IF i + 1 <= Len(s) THEN Len(s) - (i + 1) + 1 ELSE 0
      BY <2>3
    <3>2. i \in Nat /\ Len(s) \in Nat /\ i <= Len(s)
      BY <1>1
    <3>3. \A m, n \in Nat : m <= n => (IF m + 1 <= n THEN n - (m + 1) + 1 ELSE 0) = n - m
      OBVIOUS
    <3> QED
      BY <3>1, <3>2, <3>3
  <2> QED
    BY <2>3, <2>5, <2>6
<1>4. ASSUME NEW x \in T
      PROVE  [s EXCEPT ![i] = x] = (L \o <<x>>) \o R
  <2> DEFINE u == L \o <<x>>
             v == u \o R
             w == [s EXCEPT ![i] = x]
  <2>1. u \in Seq(T) /\ Len(u) = i /\ u[i] = x /\ \A k \in 1..i - 1 : u[k] = s[k]
    <3>1. u = Append(L, x)
      BY <1>2, AppendIs
    <3>2. Append(L, x) \in Seq(T) /\ Len(Append(L, x)) = Len(L) + 1
          /\ Append(L, x)[Len(L) + 1] = x /\ \A k \in 1..Len(L) : Append(L, x)[k] = L[k]
      BY <1>2, AppendIs
    <3> HIDE DEF u
    <3>3. Len(L) + 1 = i
      BY <1>1, <1>2
    <3> QED
      BY <1>2, <3>1, <3>2, <3>3
  <2> HIDE DEF u
  <2>2. v \in Seq(T) /\ Len(v) = i + (Len(s) - i)
        /\ \A k \in 1..i + (Len(s) - i) : v[k] = IF k <= i THEN u[k] ELSE R[k - i]
    <3>1. v \in Seq(T) /\ Len(v) = Len(u) + Len(R)
          /\ \A k \in 1..Len(u) + Len(R) : v[k] = IF k <= Len(u) THEN u[k] ELSE R[k - Len(u)]
      BY <1>3, <2>1, ConcatProperties
    <3> HIDE DEF v
    <3> QED
      BY <1>3, <2>1, <3>1
  <2>3. w \in Seq(T) /\ Len(w) = Len(s) /\ \A k \in 1..Len(s) : w[k] = IF k = i THEN x ELSE s[k]
    BY ExceptSeq
  <2> HIDE DEF v, w
  <2>4. i + (Len(s) - i) = Len(s)
    BY <1>1
  <2>5. \A k \in 1..Len(s) : w[k] = v[k]
    <3> SUFFICES ASSUME NEW k \in 1..Len(s) PROVE w[k] = v[k]
      OBVIOUS
    <3>1. CASE k <= i
      <4>1. k = i \/ k \in 1..i - 1
        BY <1>1, <3>1
      <4>2. v[k] = u[k]
        BY <2>2, <2>4, <3>1
      <4>3. k # i => k \in 1..i - 1
        BY <4>1
      <4> QED
        BY <2>1, <2>3, <4>2, <4>3
    <3>2. CASE ~(k <= i)
      <4>1. k - i \in 1..Len(s) - i /\ (k - i) + i = k /\ k # i
        BY <1>1, <3>2
      <4>2. v[k] = R[k - i]
        BY <2>2, <2>4, <3>2
      <4>3. R[k - i] = s[(k - i) + i]
        BY <1>3, <4>1
      <4> QED
        BY <2>3, <4>1, <4>2, <4>3
    <3> QED
      BY <3>1, <3>2
  <2>6. w = v
    BY <2>2, <2>3, <2>4, <2>5, SeqEqual
  <2> QED
    BY <2>6 DEF u, v, w
<1>5. [s EXCEPT ![i] = s[i]] = s /\ s[i] \in T
  BY <1>1
<1>6. s = (L \o <<s[i]>>) \o R
  BY <1>4, <1>5
<1> QED
  BY <1>2, <1>3, <1>4, <1>5, <1>6 DEF Replaced

\* u is s with x at i, element by element.
IsInsert(u, s, i, x) ==
    /\ Len(u) = Len(s) + 1
    /\ \A k \in 1..Len(s) + 1 : u[k] = IF k < i THEN s[k] ELSE IF k = i THEN x ELSE s[k - 1]

LEMMA InsertAtIs ==
    ASSUME NEW T, NEW s \in Seq(T), NEW i \in 1..Len(s) + 1, NEW x \in T
    PROVE  InsertAt(s, i, x) \in Seq(T) /\ IsInsert(InsertAt(s, i, x), s, i, x)
<1> DEFINE L == SubSeq(s, 1, i - 1)
           R == SubSeq(s, i, Len(s))
           u == L \o <<x>>
           v == u \o R
<1>1. /\ Len(s) \in Nat /\ i \in Nat \ {0} /\ DOMAIN s = 1..Len(s) /\ i <= Len(s) + 1
      /\ \A k \in 1..Len(s) : s[k] \in T
  BY LenProperties, ElementOfSeq
<1>2. L \in Seq(T) /\ Len(L) = i - 1 /\ \A k \in 1..i - 1 : L[k] = s[k]
  <2>1. \A k \in 1..i - 1 : s[k] \in T
    BY <1>1
  <2>2. i - 1 \in Int
    BY <1>1
  <2> QED
    BY <1>1, <2>1, <2>2, SubSeqProperties
<1>3. R \in Seq(T) /\ Len(R) = Len(s) - i + 1 /\ \A k \in 1..Len(s) - i + 1 : R[k] = s[i + k - 1]
  <2>1. \A k \in i..Len(s) : s[k] \in T
    BY <1>1
  <2>2. i \in Int /\ Len(s) \in Int
    BY <1>1
  <2>3. R \in Seq(T) /\ Len(R) = (IF i <= Len(s) THEN Len(s) - i + 1 ELSE 0)
        /\ \A k \in 1..Len(s) - i + 1 : R[k] = s[i + k - 1]
    BY <2>1, <2>2, SubSeqProperties
  <2> QED
    BY <1>1, <2>3
<1> HIDE DEF L, R
<1>4. u \in Seq(T) /\ Len(u) = i /\ u[i] = x /\ \A k \in 1..i - 1 : u[k] = s[k]
  <2>1. u = Append(L, x)
    BY <1>2, AppendIs
  <2>2. Append(L, x) \in Seq(T) /\ Len(Append(L, x)) = Len(L) + 1
        /\ Append(L, x)[Len(L) + 1] = x /\ \A k \in 1..Len(L) : Append(L, x)[k] = L[k]
    BY <1>2, AppendIs
  <2> HIDE DEF u
  <2>3. Len(L) + 1 = i
    BY <1>1, <1>2
  <2> QED
    BY <1>2, <2>1, <2>2, <2>3
<1> HIDE DEF u
<1>5. v \in Seq(T) /\ Len(v) = i + (Len(s) - i + 1)
      /\ \A k \in 1..i + (Len(s) - i + 1) : v[k] = IF k <= i THEN u[k] ELSE R[k - i]
  BY <1>3, <1>4, ConcatProperties
<1> HIDE DEF v
<1>6. i + (Len(s) - i + 1) = Len(s) + 1
  BY <1>1
<1>7. \A k \in 1..Len(s) + 1 : v[k] = IF k < i THEN s[k] ELSE IF k = i THEN x ELSE s[k - 1]
  <2> SUFFICES ASSUME NEW k \in 1..Len(s) + 1
               PROVE  v[k] = IF k < i THEN s[k] ELSE IF k = i THEN x ELSE s[k - 1]
    OBVIOUS
  <2>1. CASE k <= i
    <3>1. v[k] = u[k]
      BY <1>5, <1>6, <2>1
    <3>2. (k < i => k \in 1..i - 1) /\ (~(k < i) => k = i)
      BY <1>1, <2>1
    <3> QED
      BY <1>4, <3>1, <3>2
  <2>2. CASE ~(k <= i)
    <3>1. k - i \in 1..Len(s) - i + 1 /\ i + (k - i) - 1 = k - 1 /\ k # i /\ ~(k < i)
      BY <1>1, <2>2
    <3>2. v[k] = R[k - i]
      BY <1>5, <1>6, <2>2
    <3>3. R[k - i] = s[i + (k - i) - 1]
      BY <1>3, <3>1
    <3> QED
      BY <3>1, <3>2, <3>3
  <2> QED
    BY <2>1, <2>2
<1>8. InsertAt(s, i, x) = v
  BY DEF InsertAt, u, v, L, R
<1> QED
  BY <1>5, <1>6, <1>7, <1>8 DEF IsInsert

-----------------------------------------------------------------------------
(* Versions that are well formed                                           *)

\* Inserting into the middle of three is inserting into the whole.
InsertedWithin(a, b, d, at, x) ==
    InsertAt((a \o b) \o d, Len(a) + at + 1, x) = (a \o InsertAt(b, at + 1, x)) \o d

LEMMA InsertInMiddle ==
    ASSUME NEW T, NEW a \in Seq(T), NEW b \in Seq(T), NEW d \in Seq(T),
           NEW at \in 0..Len(b), NEW x \in T
    PROVE  InsertedWithin(a, b, d, at, x)
<1>1. Len(a) \in Nat /\ Len(b) \in Nat /\ Len(d) \in Nat /\ at \in Nat /\ at <= Len(b)
  BY LenProperties
<1> DEFINE ab == a \o b
           abd == ab \o d
           i == Len(a) + at + 1
           j == at + 1
           u == InsertAt(abd, i, x)
           n == InsertAt(b, j, x)
           an == a \o n
           v == an \o d
<1>2. ab \in Seq(T) /\ IsConcat(ab, a, b)
  BY ConcatIs
<1> HIDE DEF ab
<1>3. abd \in Seq(T) /\ IsConcat(abd, ab, d)
  BY <1>2, ConcatIs
<1> HIDE DEF abd
<1>4. i \in 1..Len(abd) + 1 /\ j \in 1..Len(b) + 1 /\ i = Len(a) + j /\ i \in Nat /\ j \in Nat
  BY <1>1, <1>2, <1>3 DEF IsConcat
<1> HIDE DEF i, j
<1>5. u \in Seq(T) /\ IsInsert(u, abd, i, x)
  BY <1>3, <1>4, InsertAtIs
<1>6. n \in Seq(T) /\ IsInsert(n, b, j, x)
  BY <1>4, InsertAtIs
<1> HIDE DEF n, u
<1>7. an \in Seq(T) /\ IsConcat(an, a, n)
  BY <1>6, ConcatIs
<1> HIDE DEF an
<1>8. v \in Seq(T) /\ IsConcat(v, an, d)
  BY <1>7, ConcatIs
<1> HIDE DEF v
<1> USE DEF IsConcat, IsInsert
<1>9. Len(abd) = Len(a) + Len(b) + Len(d) /\ Len(u) = Len(a) + Len(b) + Len(d) + 1
      /\ Len(an) = Len(a) + Len(b) + 1 /\ Len(v) = Len(u)
  BY <1>1, <1>2, <1>3, <1>5, <1>6, <1>7, <1>8
<1>10. ASSUME NEW k \in 1..Len(u)
       PROVE  u[k] = v[k]
  <2>1. k \in Nat /\ k \in 1..Len(abd) + 1 /\ k \in 1..Len(an) + Len(d)
    BY <1>1, <1>9
  <2>2. CASE k <= Len(a)
    <3>1. u[k] = abd[k] /\ abd[k] = ab[k] /\ ab[k] = a[k]
      BY <1>1, <1>2, <1>3, <1>4, <1>5, <1>9, <2>1, <2>2
    <3>2. v[k] = an[k] /\ an[k] = a[k]
      BY <1>1, <1>6, <1>7, <1>8, <1>9, <2>1, <2>2
    <3> QED
      BY <3>1, <3>2
  <2>3. CASE ~(k <= Len(a)) /\ k < i
    <3>1. u[k] = abd[k] /\ abd[k] = ab[k] /\ ab[k] = b[k - Len(a)]
      BY <1>1, <1>2, <1>3, <1>4, <1>5, <1>9, <2>1, <2>3
    <3>2. v[k] = an[k] /\ an[k] = n[k - Len(a)]
      BY <1>1, <1>4, <1>6, <1>7, <1>8, <1>9, <2>1, <2>3
    <3>3. k - Len(a) \in 1..Len(b) + 1 /\ k - Len(a) < j
      BY <1>1, <1>4, <2>1, <2>3
    <3> QED
      BY <1>6, <3>1, <3>2, <3>3
  <2>4. CASE k = i
    <3>1. u[k] = x
      BY <1>1, <1>4, <1>5, <2>1, <2>4
    <3>2. v[k] = an[k] /\ an[k] = n[k - Len(a)] /\ k - Len(a) = j
      BY <1>1, <1>4, <1>6, <1>7, <1>8, <1>9, <2>1, <2>4
    <3> QED
      BY <1>4, <1>6, <3>1, <3>2
  <2>5. CASE k > i /\ k <= Len(an)
    <3>0. k - 1 \in 1..Len(ab) /\ k - 1 \in 1..Len(ab) + Len(d) /\ ~(k - 1 <= Len(a))
          /\ (k - 1) - Len(a) = (k - Len(a)) - 1 /\ k - 1 \in 1..Len(a) + Len(b)
      BY <1>1, <1>2, <1>4, <1>9, <2>1, <2>5
    <3>1. u[k] = abd[k - 1]
      BY <1>4, <1>5, <2>1, <2>5
    <3>2. abd[k - 1] = ab[k - 1] /\ ab[k - 1] = b[(k - 1) - Len(a)]
      BY <1>1, <1>2, <1>3, <3>0
    <3>3. v[k] = an[k] /\ an[k] = n[k - Len(a)]
      BY <1>1, <1>4, <1>6, <1>7, <1>8, <1>9, <2>1, <2>5
    <3>4. k - Len(a) \in 1..Len(b) + 1 /\ ~(k - Len(a) < j) /\ k - Len(a) # j
      BY <1>1, <1>4, <1>9, <2>1, <2>5
    <3>5. n[k - Len(a)] = b[(k - Len(a)) - 1]
      BY <1>6, <3>4
    <3> QED
      BY <3>0, <3>1, <3>2, <3>3, <3>5
  <2>6. CASE ~(k <= Len(an))
    <3>0. k - 1 \in 1..Len(ab) + Len(d) /\ ~(k - 1 <= Len(ab)) /\ ~(k < i) /\ k # i
          /\ (k - 1) - Len(ab) = k - Len(an)
      BY <1>1, <1>2, <1>4, <1>9, <2>1, <2>6
    <3>1. u[k] = abd[k - 1]
      BY <1>5, <2>1, <3>0
    <3>2. abd[k - 1] = d[(k - 1) - Len(ab)]
      BY <1>3, <3>0
    <3>3. v[k] = d[k - Len(an)]
      BY <1>8, <2>1, <2>6
    <3> QED
      BY <3>0, <3>1, <3>2, <3>3
  <2> QED
    BY <1>4, <2>1, <2>2, <2>3, <2>4, <2>5, <2>6
<1>11. u = v
  BY <1>5, <1>8, <1>9, <1>10, SeqEqual
<1> QED
  BY <1>11 DEF u, v, an, n, i, j, abd, ab, InsertedWithin

LEMMA InsertSets ==
    ASSUME NEW T, NEW s \in Seq(T), NEW i \in 1..Len(s) + 1, NEW x \in T
    PROVE  /\ ToSet(InsertAt(s, i, x)) = ToSet(s) \cup {x}
           /\ PointIds(InsertAt(s, i, x)) = PointIds(s) \cup {Id(x)}
           /\ Distinct(s) /\ Id(x) \notin PointIds(s) => Distinct(InsertAt(s, i, x))
<1> DEFINE u == InsertAt(s, i, x)
<1>0. u \in Seq(T) /\ IsInsert(u, s, i, x)
  BY InsertAtIs
<1>1. u \in Seq(T) /\ Len(u) = Len(s) + 1
      /\ \A k \in 1..Len(s) + 1 : u[k] = IF k < i THEN s[k] ELSE IF k = i THEN x ELSE s[k - 1]
  BY <1>0 DEF IsInsert
<1> HIDE DEF u
<1>2. DOMAIN s = 1..Len(s) /\ DOMAIN u = 1..Len(s) + 1 /\ Len(s) \in Nat /\ i \in Nat
  BY <1>1, LenProperties
<1>3. i \in DOMAIN u /\ u[i] = x
  BY <1>1, <1>2
<1>4. \A k \in DOMAIN u : k = i \/ (k < i /\ k \in DOMAIN s /\ u[k] = s[k])
                          \/ (i < k /\ k - 1 \in DOMAIN s /\ u[k] = s[k - 1])
  BY <1>1, <1>2
<1>5. \A k \in DOMAIN s : \E l \in DOMAIN u : u[l] = s[k]
  <2> SUFFICES ASSUME NEW k \in DOMAIN s PROVE \E l \in DOMAIN u : u[l] = s[k]
    OBVIOUS
  <2>1. CASE k < i
    <3>1. k \in DOMAIN u /\ u[k] = s[k]
      BY <1>1, <1>2, <2>1
    <3> QED
      BY <3>1
  <2>2. CASE ~(k < i)
    <3>1. k + 1 \in DOMAIN u /\ ~(k + 1 < i) /\ k + 1 # i /\ (k + 1) - 1 = k
      BY <1>2, <2>2
    <3>2. u[k + 1] = s[k]
      BY <1>1, <1>2, <3>1
    <3> QED
      BY <3>1, <3>2
  <2> QED
    BY <2>1, <2>2
<1>6. ToSet(u) = ToSet(s) \cup {x}
  BY <1>3, <1>4, <1>5 DEF ToSet
<1>7. PointIds(u) = PointIds(s) \cup {Id(x)}
  BY <1>3, <1>4, <1>5 DEF PointIds
<1>8. ASSUME Distinct(s), Id(x) \notin PointIds(s)
      PROVE  Distinct(u)
  <2> SUFFICES ASSUME NEW k \in DOMAIN u, NEW l \in DOMAIN u, Id(u[k]) = Id(u[l])
               PROVE  k = l
    BY DEF Distinct
  <2>1. \A m \in DOMAIN s : Id(s[m]) # Id(x)
    BY <1>8 DEF PointIds
  <2>2. k \in Int /\ l \in Int
    BY <1>2
  <2>3. CASE k = i \/ l = i
    BY <1>3, <1>4, <2>1, <2>3
  <2>4. CASE k # i /\ l # i
    <3>1. CASE k < i /\ l < i
      BY <1>4, <1>8, <2>2, <2>4, <3>1 DEF Distinct
    <3>2. CASE i < k /\ i < l
      <4>1. k - 1 = l - 1
        BY <1>2, <1>4, <1>8, <2>2, <2>4, <3>2 DEF Distinct
      <4> QED
        BY <2>2, <4>1
    <3>3. CASE k < i /\ i < l
      <4>1. k = l - 1
        BY <1>2, <1>4, <1>8, <2>2, <2>4, <3>3 DEF Distinct
      <4> QED
        BY <1>2, <2>2, <3>3, <4>1
    <3>4. CASE i < k /\ l < i
      <4>1. k - 1 = l
        BY <1>2, <1>4, <1>8, <2>2, <2>4, <3>4 DEF Distinct
      <4> QED
        BY <1>2, <2>2, <3>4, <4>1
    <3> QED
      BY <1>2, <2>2, <2>4, <3>1, <3>2, <3>3, <3>4
  <2> QED
    BY <2>3, <2>4
<1> QED
  BY <1>6, <1>7, <1>8 DEF u

(***************************************************************************)
(* RouteVersions                                                                *)
(***************************************************************************)

\* The chunks, those by their ids and the ids given.
Filed(chunks, by_id, next) ==
    /\ Len(chunks) = Len(by_id) /\ ToSet(chunks) = ToSet(by_id)
    /\ \A i, j \in DOMAIN chunks : chunks[i].id = chunks[j].id => i = j
    /\ \A i, j \in DOMAIN by_id : i < j => by_id[i].id < by_id[j].id
    /\ \A i \in DOMAIN chunks : /\ Len(chunks[i].points) \in 1..ChunkCapacity
                                /\ chunks[i].id \in 1..next - 1

\* A point's index is the id of its chunk.
Indexed(chunks, index) ==
    /\ \A i \in DOMAIN chunks : \A p \in PointIds(chunks[i].points) : index[p] = chunks[i].id
    /\ \A p \in RoutePoints :
         (\A i \in DOMAIN chunks : p \notin PointIds(chunks[i].points)) => index[p] = 0

\* A version that is well formed.
Good(r) ==
    /\ r \in RouteVersions
    /\ r.chunks # <<>>
    /\ Filed(r.chunks, r.by_id, r.next_chunk)
    /\ Indexed(r.chunks, r.index)
    /\ Distinct(PointsOf(r.chunks))
    /\ r.size = Len(PointsOf(r.chunks))
    /\ r.fingerprint = ToSet(PointsOf(r.chunks))

LEMMA NotNone ==
    ASSUME NEW r, Good(r)
    PROVE  r # Nil /\ ToVector(r) = PointsOf(r.chunks) /\ SizeOf(r) = r.size
BY RouteAssumption DEF Good, ToVector, SizeOf

LEMMA VersionFields ==
    ASSUME NEW r \in RouteVersions
    PROVE  /\ r.chunks \in Seq(Chunks) /\ r.by_id \in Seq(Chunks) /\ r.index \in [RoutePoints -> Nat]
           /\ r.size \in Nat /\ r.next_chunk \in Nat /\ r.fingerprint \in SUBSET Points
           /\ DOMAIN r.chunks = 1..Len(r.chunks) /\ DOMAIN r.by_id = 1..Len(r.by_id)
           /\ Len(r.chunks) \in Nat /\ Len(r.by_id) \in Nat
           /\ PointsOf(r.chunks) \in Seq(Points)
<1>1. /\ r.chunks \in Seq(Chunks) /\ r.by_id \in Seq(Chunks) /\ r.index \in [RoutePoints -> Nat]
      /\ r.size \in Nat /\ r.next_chunk \in Nat /\ r.fingerprint \in SUBSET Points
  BY DEF RouteVersions
<1> QED
  BY <1>1, LenProperties, PointsType

LEMMA ChunkFields ==
    ASSUME NEW c \in Chunks
    PROVE  c.id \in Nat /\ c.points \in Seq(Points) /\ DOMAIN c.points = 1..Len(c.points)
           /\ Len(c.points) \in Nat /\ c = [id |-> c.id, points |-> c.points]
           /\ PointIds(c.points) \subseteq RoutePoints
<1>1. c.id \in Nat /\ c.points \in Seq(Points) /\ c = [id |-> c.id, points |-> c.points]
  BY DEF Chunks
<1>2. DOMAIN c.points = 1..Len(c.points) /\ Len(c.points) \in Nat
  BY <1>1, LenProperties
<1>3. \A i \in 1..Len(c.points) : c.points[i] \in Points
  BY <1>1, ElementOfSeq
<1> QED
  BY <1>1, <1>2, <1>3 DEF PointIds, Points, Id

\* The points around one chunk, and the points of that chunk.
Around(cs, c, L, R) ==
    /\ L \in Seq(Chunks) /\ R \in Seq(Chunks) /\ cs[c] \in Chunks
    /\ PointsOf(cs) = (PointsOf(L) \o cs[c].points) \o PointsOf(R)
    /\ \A k \in Chunks :
         /\ [cs EXCEPT ![c] = k] \in Seq(Chunks)
         /\ [cs EXCEPT ![c] = k] = (L \o <<k>>) \o R
         /\ PointsOf([cs EXCEPT ![c] = k]) = (PointsOf(L) \o k.points) \o PointsOf(R)

LEMMA AroundChunk ==
    ASSUME NEW cs \in Seq(Chunks), NEW c \in 1..Len(cs), NEW L, NEW R,
           L = SubSeq(cs, 1, c - 1), R = SubSeq(cs, c + 1, Len(cs))
    PROVE  Around(cs, c, L, R)
<1>1. /\ L \in Seq(Chunks) /\ R \in Seq(Chunks) /\ cs[c] \in Chunks
      /\ cs = (L \o <<cs[c]>>) \o R
      /\ Replaced(Chunks, cs, c, L, R)
  <2>1. L \in Seq(Chunks)
    BY SplitAt
  <2>2. cs[c] \in Chunks
    BY SplitAt
  <2>3. Replaced(Chunks, cs, c, L, R)
    BY SplitAt
  <2>4. cs = (L \o <<cs[c]>>) \o R
    <3>1. [cs EXCEPT ![c] = cs[c]] = (L \o <<cs[c]>>) \o R
      BY <2>2, <2>3 DEF Replaced
    <3>2. [cs EXCEPT ![c] = cs[c]] = cs
      BY LenProperties
    <3> QED
      BY <3>1, <3>2, Zenon
  <2>5. R \in Seq(Chunks)
    BY SplitAt
  <2> QED
    BY <2>1, <2>2, <2>3, <2>4, <2>5
<1>2. \A k \in Chunks : [cs EXCEPT ![c] = k] = (L \o <<k>>) \o R
  BY <1>1 DEF Replaced
<1>3. ASSUME NEW k \in Chunks
      PROVE  /\ (L \o <<k>>) \o R \in Seq(Chunks)
             /\ PointsOf((L \o <<k>>) \o R) = (PointsOf(L) \o k.points) \o PointsOf(R)
  <2> DEFINE w == <<k>>
             lw == L \o w
  <2>1. w \in Seq(Chunks) /\ PointsOf(w) = k.points
    BY One, PointsOne
  <2> HIDE DEF w
  <2>2. lw \in Seq(Chunks)
    BY <1>1, <2>1, ConcatProperties
  <2>3. PointsOf(lw) = PointsOf(L) \o k.points
    <3>1. PointsOf(lw) = PointsOf(L) \o PointsOf(w)
      BY <1>1, <2>1, PointsConcat
    <3> QED
      BY <2>1, <3>1
  <2> HIDE DEF lw
  <2>4. lw \o R \in Seq(Chunks)
    BY <1>1, <2>2, ConcatProperties
  <2>5. PointsOf(lw \o R) = PointsOf(lw) \o PointsOf(R)
    BY <1>1, <2>2, PointsConcat
  <2> QED
    BY <2>3, <2>4, <2>5 DEF lw, w
<1>4. PointsOf(cs) = (PointsOf(L) \o cs[c].points) \o PointsOf(R)
  BY <1>1, <1>3
<1> QED
  BY <1>1, <1>2, <1>3, <1>4 DEF Around

-----------------------------------------------------------------------------
(* The chunk that takes a point, and its replacement                       *)

LEMMA BeforeStep ==
    ASSUME NEW cs \in Seq(Chunks)
    PROVE  /\ PointsOf(SubSeq(cs, 1, 0)) = <<>>
           /\ PointsOf(SubSeq(cs, 1, Len(cs))) = PointsOf(cs)
           /\ \A c \in 1..Len(cs) :
                /\ SubSeq(cs, 1, c - 1) \in Seq(Chunks) /\ SubSeq(cs, 1, c) \in Seq(Chunks)
                /\ PointsOf(SubSeq(cs, 1, c)) = PointsOf(SubSeq(cs, 1, c - 1)) \o cs[c].points
<1>1. Len(cs) \in Nat /\ \A i \in 1..Len(cs) : cs[i] \in Chunks
  BY LenProperties, ElementOfSeq
<1>2. SubSeq(cs, 1, 0) = <<>>
  BY SubSeqEmpty
<1>3. SubSeq(cs, 1, Len(cs)) = cs
  BY SubSeqFull
<1>4. ASSUME NEW c \in 1..Len(cs)
      PROVE  /\ SubSeq(cs, 1, c - 1) \in Seq(Chunks) /\ SubSeq(cs, 1, c) \in Seq(Chunks)
             /\ PointsOf(SubSeq(cs, 1, c)) = PointsOf(SubSeq(cs, 1, c - 1)) \o cs[c].points
  <2>1. c \in Int /\ c - 1 \in Int /\ 1 \in Int
        /\ (\A i \in 1..c - 1 : cs[i] \in Chunks) /\ (\A i \in 1..c : cs[i] \in Chunks)
    BY <1>1
  <2> DEFINE a == SubSeq(cs, 1, c - 1)
  <2>2. a \in Seq(Chunks)
    BY <2>1, SubSeqProperties
  <2>3. SubSeq(cs, 1, c) \in Seq(Chunks)
    BY <2>1, SubSeqProperties
  <2>4. SubSeq(cs, 1, c) = a \o <<cs[c]>>
    <3>1. 1 \in 1..Len(cs) /\ c \in 1..Len(cs)
      BY <1>1
    <3> QED
      BY <3>1, SubSeqRecursiveSecond
  <2>5. cs[c] \in Chunks
    BY <1>1
  <2> HIDE DEF a
  <2>6. a \o <<cs[c]>> = Append(a, cs[c])
    BY <2>2, <2>5, AppendIs
  <2>7. PointsOf(Append(a, cs[c])) = PointsOf(a) \o cs[c].points
    BY <2>2, <2>5, PointsAppend
  <2>8. PointsOf(SubSeq(cs, 1, c)) = PointsOf(a) \o cs[c].points
    BY <2>4, <2>6, <2>7
  <2> QED
    BY <2>2, <2>3, <2>8 DEF a
<1> QED
  BY <1>2, <1>3, <1>4, PointsEmpty

LEMMA ChunkForIs ==
    ASSUME NEW r, Good(r), NEW index \in 0..Len(PointsOf(r.chunks)), NEW f, f = ChunkFor(r, index)
    PROVE  /\ f.chunk \in 1..Len(r.chunks)
           /\ f.at \in 0..Len(r.chunks[f.chunk].points)
           /\ index = Len(PointsOf(SubSeq(r.chunks, 1, f.chunk - 1))) + f.at
<1> DEFINE cs == r.chunks
           before(c) == Len(PointsOf(SubSeq(cs, 1, c - 1)))
           reaches(c) == c = Len(cs) \/ index <= before(c) + Len(cs[c].points)
           Pick(c) == /\ reaches(c)
                      /\ \A b \in 1..c - 1 : index > before(b) + Len(cs[b].points)
           S == {c \in 1..Len(cs) : reaches(c)}
<1>1. /\ cs \in Seq(Chunks) /\ Len(cs) \in Nat /\ DOMAIN cs = 1..Len(cs)
      /\ PointsOf(cs) \in Seq(Points) /\ Len(PointsOf(cs)) \in Nat
  BY VersionFields, LenProperties DEF Good
<1>2. Len(cs) \in Nat \ {0}
  BY <1>1, EmptySeq DEF Good
<1>3. \A c \in 1..Len(cs) : Len(cs[c].points) \in Nat /\ cs[c].points \in Seq(Points)
  BY <1>1, ElementOfSeq, ChunkFields
<1>4. \A c \in 1..Len(cs) : before(c) \in Nat /\ before(c + 1) = before(c) + Len(cs[c].points)
  <2> SUFFICES ASSUME NEW c \in 1..Len(cs)
               PROVE  before(c) \in Nat /\ before(c + 1) = before(c) + Len(cs[c].points)
    OBVIOUS
  <2>1. (c + 1) - 1 = c
    BY <1>1
  <2> DEFINE a == PointsOf(SubSeq(cs, 1, c - 1))
  <2>2. a \in Seq(Points)
    BY <1>1, BeforeStep, PointsType
  <2>3. PointsOf(SubSeq(cs, 1, c)) = a \o cs[c].points
    BY <1>1, BeforeStep
  <2> HIDE DEF a
  <2>4. Len(a) \in Nat /\ Len(a \o cs[c].points) = Len(a) + Len(cs[c].points)
    BY <1>3, <2>2, LenProperties, ConcatProperties
  <2> QED
    BY <2>1, <2>3, <2>4 DEF a
<1>5. before(1) = 0 /\ before(Len(cs) + 1) = Len(PointsOf(cs))
  <2>1. PointsOf(SubSeq(cs, 1, 0)) = <<>> /\ PointsOf(SubSeq(cs, 1, Len(cs))) = PointsOf(cs)
    BY <1>1, BeforeStep
  <2>2. 1 - 1 = 0 /\ (Len(cs) + 1) - 1 = Len(cs)
    BY <1>1
  <2> QED
    BY <2>1, <2>2, EmptySeq
<1>6. index \in Nat /\ index <= Len(PointsOf(cs))
  BY <1>1
<1>7. f = [chunk |-> CHOOSE c \in DOMAIN cs : Pick(c),
           at |-> index - before(CHOOSE c \in DOMAIN cs : Pick(c))]
  BY DEF ChunkFor
<1> HIDE DEF before, cs
<1>8. \E c \in DOMAIN cs : Pick(c)
  <2>1. Len(cs) \in S /\ S \in SUBSET Nat
    BY <1>2
  <2>2. PICK m \in S : \A n \in S : m <= n
    BY <2>1, Least
  <2>3. m \in 1..Len(cs) /\ reaches(m)
    BY <2>2
  <2>4. ASSUME NEW b \in 1..m - 1
        PROVE  index > before(b) + Len(cs[b].points)
    <3>0. m \in Nat /\ m <= Len(cs) /\ Len(cs) \in Nat
      BY <1>2, <2>3
    <3>1. b \in 1..Len(cs) /\ b \in Nat /\ ~(m <= b)
      BY <2>4, <3>0
    <3>2. b \notin S
      BY <2>2, <3>1
    <3>3. ~(index <= before(b) + Len(cs[b].points))
      BY <3>1, <3>2
    <3> QED
      BY <1>3, <1>4, <1>6, <3>1, <3>3
  <2> QED
    BY <1>1, <2>3, <2>4
<1> DEFINE c == CHOOSE c \in DOMAIN cs : Pick(c)
<1>9. c \in 1..Len(cs) /\ Pick(c)
  BY <1>1, <1>8
<1>10. f.chunk = c /\ f.at = index - before(c)
  BY <1>7
<1> HIDE DEF c
<1>11. index <= before(c) + Len(cs[c].points)
  <2>1. CASE c = Len(cs)
    BY <1>4, <1>5, <1>6, <1>9, <2>1
  <2>2. CASE c # Len(cs)
    BY <1>9, <2>2
  <2> QED
    BY <2>1, <2>2
<1>12. before(c) <= index
  <2>1. CASE c = 1
    BY <1>5, <1>6, <2>1
  <2>2. CASE c # 1
    <3>0. c \in Nat /\ 1 < c /\ c <= Len(cs) /\ Len(cs) \in Nat
      BY <1>2, <1>9, <2>2
    <3>1. c - 1 \in 1..c - 1 /\ c - 1 \in 1..Len(cs) /\ (c - 1) + 1 = c
      BY <3>0
    <3>2. index > before(c - 1) + Len(cs[c - 1].points)
      BY <1>9, <3>1
    <3>3. before(c) = before(c - 1) + Len(cs[c - 1].points)
      BY <1>4, <3>1
    <3>4. before(c) \in Nat /\ index > before(c)
      BY <1>4, <1>9, <3>2, <3>3
    <3> QED
      BY <1>6, <3>4
  <2> QED
    BY <2>1, <2>2
<1>13. f.at \in 0..Len(cs[c].points) /\ index = before(c) + f.at
  BY <1>3, <1>4, <1>6, <1>9, <1>10, <1>11, <1>12
<1> QED
  BY <1>9, <1>10, <1>13 DEF before, cs

(***************************************************************************)
(* A chunk is replaced in both places                                      *)
(***************************************************************************)

\* ReplaceChunk, for one of the two lists.
Put(cs, k) == [i \in DOMAIN cs |-> IF cs[i].id = k.id THEN k ELSE cs[i]]

LEMMA PutSeq ==
    ASSUME NEW cs \in Seq(Chunks), NEW k \in Chunks
    PROVE  /\ Put(cs, k) \in Seq(Chunks) /\ Len(Put(cs, k)) = Len(cs)
           /\ DOMAIN Put(cs, k) = DOMAIN cs
           /\ \A i \in DOMAIN cs : Put(cs, k)[i] = IF cs[i].id = k.id THEN k ELSE cs[i]
           /\ ToSet(Put(cs, k)) = {IF x.id = k.id THEN k ELSE x : x \in ToSet(cs)}
<1>1. Len(cs) \in Nat /\ DOMAIN cs = 1..Len(cs) /\ \A i \in 1..Len(cs) : cs[i] \in Chunks
  BY LenProperties, ElementOfSeq
<1>2. \A i \in 1..Len(cs) : (IF cs[i].id = k.id THEN k ELSE cs[i]) \in Chunks
  BY <1>1
<1>3. Put(cs, k) \in Seq(Chunks) /\ Len(Put(cs, k)) = Len(cs)
  BY <1>1, <1>2 DEF Put
<1> QED
  BY <1>1, <1>3 DEF Put, ToSet

LEMMA PutIsReplace ==
    ASSUME NEW cs \in Seq(Chunks), NEW by \in Seq(Chunks), NEW n, Filed(cs, by, n),
           NEW c \in 1..Len(cs), NEW k \in Chunks, k.id = cs[c].id
    PROVE  Put(cs, k) = [cs EXCEPT ![c] = k]
<1>1. DOMAIN cs = 1..Len(cs)
  BY LenProperties
<1>2. \A i \in DOMAIN cs : cs[i].id = k.id <=> i = c
  BY <1>1 DEF Filed
<1> QED
  BY <1>1, <1>2 DEF Put

LEMMA PutFiled ==
    ASSUME NEW cs \in Seq(Chunks), NEW by \in Seq(Chunks), NEW n, Filed(cs, by, n),
           NEW k \in Chunks, Len(k.points) \in 1..ChunkCapacity
    PROVE  Filed(Put(cs, k), Put(by, k), n)
<1>1. /\ Len(Put(cs, k)) = Len(cs) /\ DOMAIN Put(cs, k) = DOMAIN cs
      /\ \A i \in DOMAIN cs : Put(cs, k)[i] = IF cs[i].id = k.id THEN k ELSE cs[i]
      /\ ToSet(Put(cs, k)) = {IF x.id = k.id THEN k ELSE x : x \in ToSet(cs)}
  BY PutSeq
<1>2. /\ Len(Put(by, k)) = Len(by) /\ DOMAIN Put(by, k) = DOMAIN by
      /\ \A i \in DOMAIN by : Put(by, k)[i] = IF by[i].id = k.id THEN k ELSE by[i]
      /\ ToSet(Put(by, k)) = {IF x.id = k.id THEN k ELSE x : x \in ToSet(by)}
  BY PutSeq
<1>3. \A i \in DOMAIN cs : Put(cs, k)[i].id = cs[i].id
  BY <1>1
<1>4. \A i \in DOMAIN by : Put(by, k)[i].id = by[i].id
  BY <1>2
<1>5. ToSet(Put(cs, k)) = ToSet(Put(by, k))
  BY <1>1, <1>2 DEF Filed
<1>6. \A i \in DOMAIN cs : Len(Put(cs, k)[i].points) \in 1..ChunkCapacity
  BY <1>1 DEF Filed
<1> QED
  BY <1>1, <1>2, <1>3, <1>4, <1>5, <1>6 DEF Filed

-----------------------------------------------------------------------------
(* Insertion into a chunk that has room                                    *)

(***************************************************************************)
(* Insert                                                                  *)
(***************************************************************************)

\* What Insert and Split leave, field by field.
Reindexed(index, points, id) == [p \in RoutePoints |-> IF p \in PointIds(points) THEN id ELSE index[p]]

LEMMA SetIndexIs ==
    ASSUME NEW r \in RouteVersions, NEW points, NEW id \in Nat, NEW q, q = SetIndex(r, points, id)
    PROVE  /\ q \in RouteVersions
           /\ q.chunks = r.chunks /\ q.by_id = r.by_id /\ q.next_chunk = r.next_chunk
           /\ q.size = r.size /\ q.fingerprint = r.fingerprint
           /\ q.index = Reindexed(r.index, points, id)
<1>1. r.index \in [RoutePoints -> Nat]
  BY VersionFields
<1> DEFINE g == Reindexed(r.index, points, id)
<1>2. g \in [RoutePoints -> Nat]
  BY <1>1 DEF Reindexed
<1>3. q = [r EXCEPT !.index = g]
  BY DEF SetIndex, Reindexed
<1> HIDE DEF g
<1> QED
  BY <1>2, <1>3 DEF RouteVersions, g

LEMMA ReplaceChunkIs ==
    ASSUME NEW r \in RouteVersions, NEW k \in Chunks, NEW q, q = ReplaceChunk(r, k)
    PROVE  /\ q \in RouteVersions
           /\ q.chunks = Put(r.chunks, k) /\ q.by_id = Put(r.by_id, k)
           /\ q.next_chunk = r.next_chunk /\ q.index = r.index
           /\ q.size = r.size /\ q.fingerprint = r.fingerprint
<1>1. q = [r EXCEPT !.chunks = Put(r.chunks, k), !.by_id = Put(r.by_id, k)]
  BY DEF ReplaceChunk, Put, RouteVersions
<1>2. Put(r.chunks, k) \in Seq(Chunks) /\ Put(r.by_id, k) \in Seq(Chunks)
  BY VersionFields, PutSeq
<1> QED
  BY <1>1, <1>2 DEF RouteVersions

LEMMA CountedIs ==
    ASSUME NEW r \in RouteVersions, NEW x \in Points, NEW q,
           q = [r EXCEPT !.size = @ + 1, !.fingerprint = Toggle(@, x)]
    PROVE  /\ q \in RouteVersions
           /\ q.chunks = r.chunks /\ q.by_id = r.by_id
           /\ q.next_chunk = r.next_chunk /\ q.index = r.index
           /\ q.size = r.size + 1 /\ q.fingerprint = Toggle(r.fingerprint, x)
<1>1. Toggle(r.fingerprint, x) \in SUBSET Points /\ r.size + 1 \in Nat
  BY VersionFields DEF Toggle
<1> QED
  BY <1>1 DEF RouteVersions

LEMMA GoodIs ==
    ASSUME NEW r \in RouteVersions, r.chunks # <<>>, Filed(r.chunks, r.by_id, r.next_chunk),
           Indexed(r.chunks, r.index), Distinct(PointsOf(r.chunks)),
           r.size = Len(PointsOf(r.chunks)), r.fingerprint = ToSet(PointsOf(r.chunks))
    PROVE  Good(r)
BY DEF Good

\* The list after the insertion of a point that is in no chunk.
LEMMA Inserted ==
    ASSUME NEW V \in Seq(Points), Distinct(V), NEW x \in Points, Id(x) \notin PointIds(V),
           NEW i \in 1..Len(V) + 1, NEW W, W = InsertAt(V, i, x)
    PROVE  /\ W \in Seq(Points) /\ Distinct(W) /\ Len(W) = Len(V) + 1
           /\ ToSet(W) = Toggle(ToSet(V), x)
           /\ PointIds(W) = PointIds(V) \cup {Id(x)}
<1>1. InsertAt(V, i, x) \in Seq(Points) /\ IsInsert(InsertAt(V, i, x), V, i, x)
  BY InsertAtIs
<1>2. /\ ToSet(InsertAt(V, i, x)) = ToSet(V) \cup {x}
      /\ PointIds(InsertAt(V, i, x)) = PointIds(V) \cup {Id(x)}
      /\ Distinct(V) /\ Id(x) \notin PointIds(V) => Distinct(InsertAt(V, i, x))
  BY InsertSets
<1>3. x \notin ToSet(V)
  BY IdsOfSet
<1> QED
  BY <1>1, <1>2, <1>3 DEF IsInsert, Toggle

LEMMA ChunkIdsIn ==
    ASSUME NEW cs \in Seq(Chunks), NEW p
    PROVE  p \in PointIds(PointsOf(cs)) <=> \E i \in DOMAIN cs : p \in PointIds(cs[i].points)
<1>1. ToSet(PointsOf(cs)) = UNION {ToSet(c.points) : c \in ToSet(cs)}
  BY PointsSet
<1>2. p \in PointIds(PointsOf(cs)) <=> \E x \in ToSet(PointsOf(cs)) : p = Id(x)
  BY IdsOfSet
<1>3. \A i \in DOMAIN cs : p \in PointIds(cs[i].points) <=> \E x \in ToSet(cs[i].points) : p = Id(x)
  BY IdsOfSet
<1>4. \A x : x \in ToSet(PointsOf(cs)) <=> \E i \in DOMAIN cs : x \in ToSet(cs[i].points)
  <2>1. \A c : c \in ToSet(cs) <=> \E i \in DOMAIN cs : c = cs[i]
    BY DEF ToSet
  <2> QED
    BY <1>1, <2>1
<1> QED
  BY <1>2, <1>3, <1>4

\* The points of the chunks are inserted into when those of one chunk are.
LEMMA PutInsert ==
    ASSUME NEW cs \in Seq(Chunks), NEW c \in 1..Len(cs), NEW k \in Chunks,
           NEW at \in 0..Len(cs[c].points), NEW x \in Points,
           k.points = InsertAt(cs[c].points, at + 1, x)
    PROVE  /\ Len(PointsOf(SubSeq(cs, 1, c - 1))) + at + 1 \in 1..Len(PointsOf(cs)) + 1
           /\ PointsOf([cs EXCEPT ![c] = k]) =
                InsertAt(PointsOf(cs), Len(PointsOf(SubSeq(cs, 1, c - 1))) + at + 1, x)
<1> DEFINE L == SubSeq(cs, 1, c - 1)
           R == SubSeq(cs, c + 1, Len(cs))
           A == PointsOf(L)
           B == PointsOf(R)
           P == cs[c].points
<1>1. /\ L \in Seq(Chunks) /\ R \in Seq(Chunks) /\ cs[c] \in Chunks
      /\ PointsOf(cs) = (A \o P) \o B
      /\ PointsOf([cs EXCEPT ![c] = k]) = (A \o k.points) \o B
  <2>1. Around(cs, c, L, R)
    BY AroundChunk
  <2> HIDE DEF L, R
  <2> QED
    BY <2>1 DEF Around
<1> HIDE DEF L, R
<1>2. A \in Seq(Points) /\ B \in Seq(Points)
  BY <1>1, PointsType
<1>3. P \in Seq(Points) /\ at \in 0..Len(P)
  BY <1>1, ChunkFields
<1>4. k.points = InsertAt(P, at + 1, x)
  OBVIOUS
<1> HIDE DEF A, B, P
<1>5. InsertAt((A \o P) \o B, Len(A) + at + 1, x) = (A \o InsertAt(P, at + 1, x)) \o B
  <2>1. InsertedWithin(A, P, B, at, x)
    BY <1>2, <1>3, InsertInMiddle
  <2> QED
    BY <2>1 DEF InsertedWithin
<1>6. Len(A) + at + 1 \in 1..Len((A \o P) \o B) + 1
  <2>1. Len(A) \in Nat /\ Len(P) \in Nat /\ Len(B) \in Nat
    BY <1>2, <1>3, LenProperties
  <2>2. A \o P \in Seq(Points) /\ Len(A \o P) = Len(A) + Len(P)
    BY <1>2, <1>3, ConcatProperties
  <2>3. Len((A \o P) \o B) = Len(A \o P) + Len(B)
    BY <1>2, <2>2, ConcatProperties
  <2> QED
    BY <1>3, <2>1, <2>2, <2>3
<1>7. PointsOf([cs EXCEPT ![c] = k]) = InsertAt(PointsOf(cs), Len(A) + at + 1, x)
  BY <1>1, <1>4, <1>5
<1> QED
  BY <1>1, <1>6, <1>7 DEF A, L

\* The new point is in no other chunk, and its chunk is indexed.
LEMMA PutIndexed ==
    ASSUME NEW cs \in Seq(Chunks), NEW index \in [RoutePoints -> Nat], Indexed(cs, index),
           NEW c \in 1..Len(cs), NEW k \in Chunks, k.id = cs[c].id,
           NEW x \in Points, Id(x) \notin PointIds(PointsOf(cs)),
           PointIds(k.points) = PointIds(cs[c].points) \cup {Id(x)}
    PROVE  Indexed([cs EXCEPT ![c] = k], Reindexed(index, <<x>>, k.id))
<1> DEFINE u == [cs EXCEPT ![c] = k]
           g == Reindexed(index, <<x>>, k.id)
<1>1. DOMAIN cs = 1..Len(cs) /\ DOMAIN u = DOMAIN cs /\ c \in DOMAIN cs
  BY LenProperties
<1>2. \A i \in DOMAIN cs : u[i] = IF i = c THEN k ELSE cs[i]
  BY <1>1
<1>3. PointIds(<<x>>) = {Id(x)} /\ Id(x) \in RoutePoints
  BY DEF PointIds, Id, Points
<1>4. \A p \in RoutePoints : g[p] = IF p = Id(x) THEN k.id ELSE index[p]
  BY <1>3 DEF Reindexed
<1> HIDE DEF u, g
<1>5. \A i \in DOMAIN cs : Id(x) \notin PointIds(cs[i].points)
  BY ChunkIdsIn
<1>6. \A i \in DOMAIN cs : PointIds(cs[i].points) \subseteq RoutePoints
  BY <1>1, ElementOfSeq, ChunkFields
<1>7. ASSUME NEW i \in DOMAIN cs, NEW p \in PointIds(u[i].points)
      PROVE  g[p] = u[i].id
  <2>1. CASE i # c
    <3>1. p \in PointIds(cs[i].points) /\ p # Id(x) /\ p \in RoutePoints
      BY <1>2, <1>5, <1>6, <1>7, <2>1
    <3> QED
      BY <1>2, <1>4, <2>1, <3>1 DEF Indexed
  <2>2. CASE i = c /\ p = Id(x)
    BY <1>2, <1>3, <1>4, <2>2
  <2>3. CASE i = c /\ p # Id(x)
    <3>1. p \in PointIds(cs[c].points) /\ p \in RoutePoints
      BY <1>1, <1>2, <1>6, <1>7, <2>3
    <3> QED
      BY <1>1, <1>2, <1>4, <2>3, <3>1 DEF Indexed
  <2> QED
    BY <2>1, <2>2, <2>3
<1>8. ASSUME NEW p \in RoutePoints, \A i \in DOMAIN cs : p \notin PointIds(u[i].points)
      PROVE  g[p] = 0
  <2>1. p \notin PointIds(k.points)
    BY <1>1, <1>2, <1>8
  <2>2. p # Id(x) /\ \A i \in DOMAIN cs : p \notin PointIds(cs[i].points)
    BY <1>2, <1>8, <2>1
  <2> QED
    BY <1>4, <2>2 DEF Indexed
<1> QED
  BY <1>1, <1>7, <1>8 DEF Indexed, u, g

\* q is r with x in its chunk c, behind at of its points.
Takes(q, r, c, at, x) ==
    /\ Good(q)
    /\ PointsOf(q.chunks) =
         InsertAt(PointsOf(r.chunks), Len(PointsOf(SubSeq(r.chunks, 1, c - 1))) + at + 1, x)

LEMMA InsertFits ==
    ASSUME NEW r, Good(r), NEW c \in 1..Len(r.chunks), NEW at \in 0..Len(r.chunks[c].points),
           NEW x \in Points, Id(x) \notin PointIds(PointsOf(r.chunks)), NEW k \in Chunks,
           k.id = r.chunks[c].id, k.points = InsertAt(r.chunks[c].points, at + 1, x),
           Len(k.points) <= ChunkCapacity, NEW r1, NEW r2, NEW q,
           r1 = [r EXCEPT !.size = @ + 1, !.fingerprint = Toggle(@, x)],
           r2 = ReplaceChunk(r1, k), q = SetIndex(r2, <<x>>, k.id)
    PROVE  Takes(q, r, c, at, x)
<1> DEFINE V == PointsOf(r.chunks)
           i == Len(PointsOf(SubSeq(r.chunks, 1, c - 1))) + at + 1
           W == InsertAt(V, i, x)
           u == [r.chunks EXCEPT ![c] = k]
<1>1. /\ r \in RouteVersions /\ r.chunks # <<>> /\ Filed(r.chunks, r.by_id, r.next_chunk)
      /\ Indexed(r.chunks, r.index) /\ Distinct(V) /\ r.size = Len(V) /\ r.fingerprint = ToSet(V)
  BY DEF Good
<1>2. /\ r.chunks \in Seq(Chunks) /\ r.by_id \in Seq(Chunks) /\ V \in Seq(Points)
      /\ r.index \in [RoutePoints -> Nat] /\ k.id \in Nat
  BY <1>1, VersionFields, ChunkFields
<1>3. /\ r1 \in RouteVersions /\ r1.chunks = r.chunks /\ r1.by_id = r.by_id
      /\ r1.next_chunk = r.next_chunk /\ r1.index = r.index
      /\ r1.size = r.size + 1 /\ r1.fingerprint = Toggle(r.fingerprint, x)
  BY <1>1, CountedIs
<1>4. /\ r2 \in RouteVersions /\ r2.chunks = Put(r.chunks, k) /\ r2.by_id = Put(r.by_id, k)
      /\ r2.next_chunk = r.next_chunk /\ r2.index = r.index
      /\ r2.size = r.size + 1 /\ r2.fingerprint = Toggle(r.fingerprint, x)
  <2>1. /\ r2 \in RouteVersions
        /\ r2.chunks = Put(r1.chunks, k) /\ r2.by_id = Put(r1.by_id, k)
        /\ r2.next_chunk = r1.next_chunk /\ r2.index = r1.index
        /\ r2.size = r1.size /\ r2.fingerprint = r1.fingerprint
    BY ONLY <1>3, k \in Chunks, r2 = ReplaceChunk(r1, k), ReplaceChunkIs
  <2> QED
    BY <1>3, <2>1, Zenon
<1>5. /\ q \in RouteVersions /\ q.chunks = Put(r.chunks, k) /\ q.by_id = Put(r.by_id, k)
      /\ q.next_chunk = r.next_chunk /\ q.index = Reindexed(r.index, <<x>>, k.id)
      /\ q.size = r.size + 1 /\ q.fingerprint = Toggle(r.fingerprint, x)
  BY <1>2, <1>4, SetIndexIs
<1>6. Put(r.chunks, k) = u
  BY <1>1, <1>2, PutIsReplace
<1>7. i \in 1..Len(V) + 1 /\ PointsOf(u) = W
  <2> DEFINE cs == r.chunks
             P == cs[c].points
  <2>1. cs \in Seq(Chunks) /\ c \in 1..Len(cs) /\ k \in Chunks /\ at \in 0..Len(P) /\ x \in Points
        /\ k.points = InsertAt(P, at + 1, x)
    BY <1>2
  <2> HIDE DEF cs
  <2>2. /\ Len(PointsOf(SubSeq(cs, 1, c - 1))) + at + 1 \in 1..Len(PointsOf(cs)) + 1
        /\ PointsOf([cs EXCEPT ![c] = k]) =
                InsertAt(PointsOf(cs), Len(PointsOf(SubSeq(cs, 1, c - 1))) + at + 1, x)
    BY ONLY <2>1, PutInsert
  <2> QED
    BY <2>2 DEF cs
<1>8. /\ W \in Seq(Points) /\ Distinct(W) /\ Len(W) = Len(V) + 1
      /\ ToSet(W) = Toggle(ToSet(V), x)
  <2> HIDE DEF i, V
  <2>1. Id(x) \notin PointIds(V)
    BY DEF V
  <2> QED
    BY <1>1, <1>2, <1>7, <2>1, Inserted
<1>9. PointIds(k.points) = PointIds(r.chunks[c].points) \cup {Id(x)}
      /\ Len(k.points) \in 1..ChunkCapacity
  <2> DEFINE P == r.chunks[c].points
  <2>1. P \in Seq(Points) /\ Len(P) \in Nat /\ at \in 0..Len(P)
    BY <1>2, ElementOfSeq, ChunkFields
  <2>2. k.points = InsertAt(P, at + 1, x)
    OBVIOUS
  <2> HIDE DEF P
  <2>3. at + 1 \in 1..Len(P) + 1
    BY <2>1
  <2>4. PointIds(InsertAt(P, at + 1, x)) = PointIds(P) \cup {Id(x)}
    BY <2>1, <2>3, InsertSets
  <2>5. IsInsert(InsertAt(P, at + 1, x), P, at + 1, x)
    BY <2>1, <2>3, InsertAtIs
  <2>6. Len(k.points) = Len(P) + 1
    BY <2>2, <2>5 DEF IsInsert
  <2>7. Len(k.points) \in 1..ChunkCapacity
    BY <2>1, <2>6, RouteAssumption
  <2> QED
    BY <2>2, <2>4, <2>7 DEF P
<1> HIDE DEF u, W, V, i
<1>10. Filed(q.chunks, q.by_id, q.next_chunk)
  BY <1>1, <1>2, <1>5, <1>9, PutFiled
<1>11. Indexed(q.chunks, q.index)
  <2>1. Indexed([r.chunks EXCEPT ![c] = k], Reindexed(r.index, <<x>>, k.id))
    BY <1>1, <1>2, <1>9, PutIndexed, Zenon DEF V
  <2> QED
    BY <1>5, <1>6, <2>1, Zenon DEF u
<1>12. q.chunks # <<>>
  <2>1. Len(Put(r.chunks, k)) = Len(r.chunks) /\ Put(r.chunks, k) \in Seq(Chunks)
    BY <1>2, PutSeq
  <2> QED
    BY <1>1, <1>2, <1>5, <2>1, EmptySeq
<1>13. Distinct(PointsOf(q.chunks)) /\ q.size = Len(PointsOf(q.chunks))
       /\ q.fingerprint = ToSet(PointsOf(q.chunks))
  BY <1>1, <1>5, <1>6, <1>7, <1>8
<1>14. Good(q)
  BY <1>5, <1>10, <1>11, <1>12, <1>13, GoodIs
<1> QED
  BY <1>5, <1>6, <1>7, <1>14 DEF W, V, i, Takes

-----------------------------------------------------------------------------
(* Halving a chunk                                                         *)

(***************************************************************************)
(* Split                                                                   *)
(***************************************************************************)

LEMMA Half ==
    ASSUME NEW n \in Nat, 2 <= n
    PROVE  n \div 2 \in Nat /\ n \div 2 \in 1..n - 1 /\ n \div 2 \in 1..n
OBVIOUS

\* A sequence of points cut in two.
Cut(s, h, a, b) ==
    /\ a \in Seq(Points) /\ b \in Seq(Points) /\ a \o b = s
    /\ Len(a) = h /\ Len(b) = Len(s) - h

LEMMA CutIs ==
    ASSUME NEW s \in Seq(Points), NEW h \in 1..Len(s)
    PROVE  Cut(s, h, SubSeq(s, 1, h), SubSeq(s, h + 1, Len(s)))
<1>1. Len(s) \in Nat /\ h \in Nat /\ h <= Len(s) /\ \A i \in 1..Len(s) : s[i] \in Points
  BY LenProperties, ElementOfSeq
<1>2. SubSeq(s, 1, h) \in Seq(Points) /\ Len(SubSeq(s, 1, h)) = h
  <2>1. \A i \in 1..h : s[i] \in Points
    BY <1>1
  <2>2. h - 1 + 1 = h /\ 1 <= h
    BY <1>1
  <2> QED
    BY <1>1, <2>1, <2>2, SubSeqProperties
<1>3. SubSeq(s, h + 1, Len(s)) \in Seq(Points)
      /\ Len(SubSeq(s, h + 1, Len(s))) = IF h + 1 <= Len(s) THEN Len(s) - (h + 1) + 1 ELSE 0
  <2>1. \A i \in h + 1..Len(s) : s[i] \in Points
    BY <1>1
  <2>2. h + 1 \in Int /\ Len(s) \in Int
    BY <1>1
  <2> QED
    BY <2>1, <2>2, SubSeqProperties
<1>4. \A m, n \in Nat : m <= n => (IF m + 1 <= n THEN n - (m + 1) + 1 ELSE 0) = n - m
  OBVIOUS
<1>5. Len(SubSeq(s, h + 1, Len(s))) = Len(s) - h
  BY <1>1, <1>3, <1>4
<1>6. SubSeq(s, 1, h) \o SubSeq(s, h + 1, Len(s)) = SubSeq(s, 1, Len(s))
  <2>1. 1 \in 1..Len(s) + 1 /\ h \in 1 - 1..Len(s) /\ Len(s) \in h..Len(s)
    BY <1>1
  <2> QED
    BY <2>1, ConcatAdjacentSubSeq
<1>7. SubSeq(s, 1, Len(s)) = s
  BY SubSeqFull
<1> QED
  BY <1>2, <1>3, <1>5, <1>6, <1>7 DEF Cut

\* What Halved leaves, field by field.
HalvedFields(q, r, c, left, right) ==
    /\ q \in RouteVersions
    /\ q.chunks = InsertAt(Put(r.chunks, left), c + 1, right)
    /\ q.by_id = Append(Put(r.by_id, left), right)
    /\ q.next_chunk = r.next_chunk + 1 /\ q.index = r.index
    /\ q.size = r.size /\ q.fingerprint = r.fingerprint

LEMMA HalvedIs ==
    ASSUME NEW r \in RouteVersions, NEW c \in 1..Len(r.chunks), NEW points, NEW left \in Chunks,
           NEW right \in Chunks,
           left = [id |-> r.chunks[c].id, points |-> SubSeq(points, 1, Len(points) \div 2)],
           right = [id |-> r.next_chunk,
                    points |-> SubSeq(points, Len(points) \div 2 + 1, Len(points))]
    PROVE  HalvedFields(Halved(r, c, points), r, c, left, right)
<1> DEFINE s == ReplaceChunk(r, left)
           a == InsertAt(Put(r.chunks, left), c + 1, right)
           b == Append(Put(r.by_id, left), right)
<1>1. /\ s \in RouteVersions
      /\ s.chunks = Put(r.chunks, left) /\ s.by_id = Put(r.by_id, left)
      /\ s.next_chunk = r.next_chunk /\ s.index = r.index
      /\ s.size = r.size /\ s.fingerprint = r.fingerprint
  BY ONLY r \in RouteVersions, left \in Chunks, ReplaceChunkIs
<1>2. Halved(r, c, points) = [s EXCEPT !.chunks = InsertAt(s.chunks, c + 1, right),
                                       !.by_id = Append(s.by_id, right),
                                       !.next_chunk = s.next_chunk + 1]
  BY <1>1 DEF Halved, RouteVersions
<1> HIDE DEF s
<1>3. a \in Seq(Chunks)
  <2>1. Put(r.chunks, left) \in Seq(Chunks) /\ Len(Put(r.chunks, left)) = Len(r.chunks)
    BY VersionFields, PutSeq
  <2>2. c + 1 \in 1..Len(Put(r.chunks, left)) + 1
    BY <2>1, VersionFields
  <2> QED
    BY <2>1, <2>2, InsertAtIs
<1>4. b \in Seq(Chunks)
  <2>1. r.by_id \in Seq(Chunks)
    BY VersionFields
  <2>2. Put(r.by_id, left) \in Seq(Chunks)
    BY <2>1, PutSeq
  <2> QED
    BY <2>2, AppendIs
<1>5. Halved(r, c, points) = [s EXCEPT !.chunks = a, !.by_id = b, !.next_chunk = r.next_chunk + 1]
  BY <1>1, <1>2
<1> HIDE DEF a, b
<1>6. r.next_chunk + 1 \in Nat
  BY VersionFields
<1> DEFINE q == [s EXCEPT !.chunks = a, !.by_id = b, !.next_chunk = r.next_chunk + 1]
<1>7. /\ q \in RouteVersions /\ q.chunks = a /\ q.by_id = b /\ q.next_chunk = r.next_chunk + 1
      /\ q.index = s.index /\ q.size = s.size /\ q.fingerprint = s.fingerprint
  BY <1>1, <1>3, <1>4, <1>6 DEF RouteVersions
<1> HIDE DEF q
<1>8. q = Halved(r, c, points)
  BY <1>5 DEF q
<1> QED
  BY <1>1, <1>7, <1>8 DEF HalvedFields, a, b

\* A chunk with the next id goes anywhere into the list and to the end of by_id.
LEMMA FiledInsert ==
    ASSUME NEW a \in Seq(Chunks), NEW b \in Seq(Chunks), NEW n \in Nat \ {0}, Filed(a, b, n),
           NEW k \in Chunks, k.id = n, Len(k.points) \in 1..ChunkCapacity,
           NEW i \in 1..Len(a) + 1
    PROVE  Filed(InsertAt(a, i, k), Append(b, k), n + 1)
<1> DEFINE u == InsertAt(a, i, k)
           v == Append(b, k)
<1>1. u \in Seq(Chunks) /\ IsInsert(u, a, i, k) /\ ToSet(u) = ToSet(a) \cup {k}
  BY InsertAtIs, InsertSets
<1>2. /\ v \in Seq(Chunks) /\ Len(v) = Len(b) + 1 /\ v[Len(b) + 1] = k
      /\ \A j \in 1..Len(b) : v[j] = b[j]
  BY AppendIs
<1> HIDE DEF u, v
<1>3. /\ Len(a) \in Nat /\ Len(b) \in Nat /\ DOMAIN a = 1..Len(a) /\ DOMAIN b = 1..Len(b)
      /\ DOMAIN u = 1..Len(u) /\ DOMAIN v = 1..Len(v) /\ i \in Nat
      /\ Len(u) = Len(a) + 1
      /\ \A j \in 1..Len(a) + 1 : u[j] = IF j < i THEN a[j] ELSE IF j = i THEN k ELSE a[j - 1]
  BY <1>1, <1>2, LenProperties DEF IsInsert
<1>4. ToSet(v) = ToSet(b) \cup {k}
  <2>1. \A j \in DOMAIN v : v[j] = k \/ (j \in DOMAIN b /\ v[j] = b[j])
    BY <1>2, <1>3
  <2>2. \A j \in DOMAIN b : j \in DOMAIN v /\ v[j] = b[j]
    BY <1>2, <1>3
  <2>3. Len(b) + 1 \in DOMAIN v
    BY <1>2, <1>3
  <2> QED
    BY <1>2, <2>1, <2>2, <2>3 DEF ToSet
<1>5. \A j \in DOMAIN a : a[j].id \in Nat /\ a[j].id < n /\ a[j].id \in 1..n - 1
                         /\ Len(a[j].points) \in 1..ChunkCapacity
  BY DEF Filed
<1>6. \A j \in DOMAIN b : b[j].id \in Nat /\ b[j].id < n
  <2>1. \A j \in DOMAIN b : \E l \in DOMAIN a : b[j] = a[l]
    BY DEF Filed, ToSet
  <2> QED
    BY <1>5, <2>1
<1>7. \A j \in DOMAIN u : \/ j = i /\ u[j] = k
                          \/ j < i /\ j \in DOMAIN a /\ u[j] = a[j]
                          \/ i < j /\ j - 1 \in DOMAIN a /\ u[j] = a[j - 1]
  <2> SUFFICES ASSUME NEW j \in 1..Len(a) + 1
               PROVE  \/ j = i /\ u[j] = k
                      \/ j < i /\ j \in DOMAIN a /\ u[j] = a[j]
                      \/ i < j /\ j - 1 \in DOMAIN a /\ u[j] = a[j - 1]
    BY <1>3
  <2>1. j \in Nat /\ i \in 1..Len(a) + 1 /\ u[j] = IF j < i THEN a[j] ELSE IF j = i THEN k ELSE a[j - 1]
    BY <1>3
  <2>2. j < i => j \in DOMAIN a
    BY <1>3, <2>1
  <2>3. i < j => j - 1 \in DOMAIN a
    BY <1>3, <2>1
  <2>4. j < i \/ j = i \/ i < j
    BY <1>3, <2>1
  <2>5. CASE j < i
    BY <2>1, <2>2, <2>5
  <2>6. CASE j = i
    BY <1>3, <2>1, <2>6
  <2>7. CASE i < j
    <3>1. ~(j < i) /\ j # i
      BY <1>3, <2>1, <2>7
    <3> QED
      BY <2>1, <2>3, <2>7, <3>1
  <2> QED
    BY <2>4, <2>5, <2>6, <2>7
<1>8. ASSUME NEW j \in DOMAIN u, NEW l \in DOMAIN u, u[j].id = u[l].id
      PROVE  j = l
  <2>1. j \in Int /\ l \in Int
    BY <1>3
  <2>2. \A x, y \in DOMAIN a : a[x].id = a[y].id => x = y
    BY DEF Filed
  <2>3. CASE j = i \/ l = i
    BY <1>5, <1>7, <1>8, <2>3
  <2>4. CASE j # i /\ l # i
    <3>1. CASE j < i /\ l < i
      BY <1>7, <1>8, <2>1, <2>2, <2>4, <3>1
    <3>2. CASE i < j /\ i < l
      <4>1. j - 1 = l - 1
        BY <1>3, <1>7, <1>8, <2>1, <2>2, <2>4, <3>2
      <4> QED
        BY <2>1, <4>1
    <3>3. CASE j < i /\ i < l
      <4>1. j = l - 1
        BY <1>3, <1>7, <1>8, <2>1, <2>2, <2>4, <3>3
      <4> QED
        BY <1>3, <2>1, <3>3, <4>1
    <3>4. CASE i < j /\ l < i
      <4>1. j - 1 = l
        BY <1>3, <1>7, <1>8, <2>1, <2>2, <2>4, <3>4
      <4> QED
        BY <1>3, <2>1, <3>4, <4>1
    <3> QED
      BY <1>3, <2>1, <2>4, <3>1, <3>2, <3>3, <3>4
  <2> QED
    BY <2>3, <2>4
<1>9. ASSUME NEW j \in DOMAIN v, NEW l \in DOMAIN v, j < l
      PROVE  v[j].id < v[l].id
  <2>1. j \in DOMAIN b /\ v[j] = b[j]
    BY <1>2, <1>3, <1>9
  <2>2. CASE l \in DOMAIN b
    BY <1>2, <1>3, <1>9, <2>1, <2>2 DEF Filed
  <2>3. CASE l \notin DOMAIN b
    <3>1. v[l] = k
      BY <1>2, <1>3, <2>3
    <3> QED
      BY <1>6, <2>1, <3>1
  <2> QED
    BY <2>2, <2>3
<1>10. ASSUME NEW j \in DOMAIN u
       PROVE  Len(u[j].points) \in 1..ChunkCapacity /\ u[j].id \in 1..(n + 1) - 1
  <2>1. n \in 1..(n + 1) - 1 /\ \A m \in Nat : m \in 1..n - 1 => m \in 1..(n + 1) - 1
    OBVIOUS
  <2> QED
    BY <1>5, <1>7, <2>1
<1>11. Len(u) = Len(v) /\ ToSet(u) = ToSet(v)
  BY <1>1, <1>2, <1>3, <1>4 DEF Filed
<1>12. Filed(u, v, n + 1)
  BY <1>8, <1>9, <1>10, <1>11 DEF Filed
<1> QED
  BY <1>12 DEF u, v

\* Two halves in the list hold what the whole chunk would.
SplitIn(cs, c, left, right, k) ==
    PointsOf(InsertAt([cs EXCEPT ![c] = left], c + 1, right)) = PointsOf([cs EXCEPT ![c] = k])

LEMMA SplitPoints ==
    ASSUME NEW cs \in Seq(Chunks), NEW c \in 1..Len(cs), NEW left \in Chunks, NEW right \in Chunks,
           NEW k \in Chunks, k.points = left.points \o right.points
    PROVE  SplitIn(cs, c, left, right, k)
<1> DEFINE L == SubSeq(cs, 1, c - 1)
           R == SubSeq(cs, c + 1, Len(cs))
           one == <<left>>
           two == InsertAt(one, 1 + 1, right)
<1>1. Around(cs, c, L, R)
  BY AroundChunk
<1>2. Len(L) = c - 1
  <2>1. \A i \in 1..c - 1 : cs[i] \in Chunks
    BY LenProperties, ElementOfSeq
  <2>2. c \in Nat /\ c - 1 \in Int /\ 1 \in Int /\ 1 <= c
    BY LenProperties
  <2>3. Len(SubSeq(cs, 1, c - 1)) = IF 1 <= c - 1 THEN (c - 1) - 1 + 1 ELSE 0
    BY <2>1, <2>2, SubSeqProperties
  <2> QED
    BY <2>2, <2>3
<1> HIDE DEF L, R
<1>3. /\ L \in Seq(Chunks) /\ R \in Seq(Chunks)
      /\ [cs EXCEPT ![c] = left] = (L \o one) \o R
      /\ PointsOf([cs EXCEPT ![c] = k]) = (PointsOf(L) \o k.points) \o PointsOf(R)
  BY <1>1 DEF Around
<1>4. one \in Seq(Chunks) /\ Len(one) = 1 /\ one[1] = left
  BY One
<1>5. two = one \o <<right>>
  <2>1. 1 + 1 \in 1..Len(one) + 1
    BY <1>4
  <2>2. two \in Seq(Chunks) /\ IsInsert(two, one, 1 + 1, right)
    BY <1>4, <2>1, InsertAtIs
  <2>3. Append(one, right) \in Seq(Chunks) /\ Len(Append(one, right)) = 2
        /\ Append(one, right)[1] = left /\ Append(one, right)[2] = right
        /\ Append(one, right) = one \o <<right>>
    BY <1>4, AppendIs
  <2> HIDE DEF one, two
  <2>4. Len(two) = 2 /\ two[1] = left /\ two[2] = right
    BY <1>4, <2>2 DEF IsInsert
  <2>5. two = Append(one, right)
    BY <2>2, <2>3, <2>4, SeqEqual
  <2> QED
    BY <2>3, <2>5
<1>6. two \in Seq(Chunks) /\ PointsOf(two) = k.points
  <2>1. PointsOf(one) = left.points
    BY PointsOne
  <2> HIDE DEF one, two
  <2>2. Append(one, right) = one \o <<right>> /\ Append(one, right) \in Seq(Chunks)
    BY <1>4, AppendIs
  <2>3. PointsOf(Append(one, right)) = PointsOf(one) \o right.points
    BY <1>4, PointsAppend
  <2> QED
    BY <1>5, <2>1, <2>2, <2>3
<1> HIDE DEF one
<1>7. InsertAt((L \o one) \o R, Len(L) + 1 + 1, right) = (L \o two) \o R
  <2>1. 1 \in 0..Len(one)
    BY <1>4
  <2>2. InsertedWithin(L, one, R, 1, right)
    BY <1>3, <1>4, <2>1, InsertInMiddle
  <2> QED
    BY <2>2 DEF InsertedWithin
<1> HIDE DEF two
<1>8. Len(L) + 1 + 1 = c + 1
  BY <1>2, LenProperties
<1>9. PointsOf((L \o two) \o R) = (PointsOf(L) \o PointsOf(two)) \o PointsOf(R)
  <2>1. L \o two \in Seq(Chunks)
    BY <1>3, <1>6, ConcatProperties
  <2>2. PointsOf(L \o two) = PointsOf(L) \o PointsOf(two)
    BY <1>3, <1>6, PointsConcat
  <2>3. PointsOf((L \o two) \o R) = PointsOf(L \o two) \o PointsOf(R)
    BY <1>3, <2>1, PointsConcat
  <2> QED
    BY <2>2, <2>3
<1> QED
  BY <1>3, <1>6, <1>7, <1>8, <1>9 DEF SplitIn

LEMMA SplitIndexed ==
    ASSUME NEW cs \in Seq(Chunks), NEW index \in [RoutePoints -> Nat], Indexed(cs, index),
           \A i, j \in DOMAIN cs : cs[i].id = cs[j].id => i = j,
           NEW c \in 1..Len(cs), NEW left \in Chunks, NEW right \in Chunks, left.id = cs[c].id,
           NEW x \in Points, Id(x) \notin PointIds(PointsOf(cs)),
           PointIds(left.points) \cup PointIds(right.points) = PointIds(cs[c].points) \cup {Id(x)},
           PointIds(left.points) \cap PointIds(right.points) = {}
    PROVE  Indexed(InsertAt([cs EXCEPT ![c] = left], c + 1, right),
                   Reindexed(Reindexed(index, <<x>>, left.id), right.points, right.id))
<1> DEFINE w == [cs EXCEPT ![c] = left]
           u == InsertAt(w, c + 1, right)
           h == Reindexed(index, <<x>>, left.id)
           g == Reindexed(h, right.points, right.id)
           rest == PointIds(right.points)
<1>1. DOMAIN cs = 1..Len(cs) /\ Len(cs) \in Nat /\ c \in DOMAIN cs /\ c \in Nat
  BY LenProperties
<1>2. w \in Seq(Chunks) /\ Len(w) = Len(cs) /\ \A i \in 1..Len(cs) : w[i] = IF i = c THEN left ELSE cs[i]
  BY <1>1, ExceptSeq
<1> HIDE DEF w
<1>3. u \in Seq(Chunks) /\ IsInsert(u, w, c + 1, right)
  <2>1. c + 1 \in 1..Len(w) + 1
    BY <1>1, <1>2
  <2> QED
    BY <1>2, <2>1, InsertAtIs
<1> HIDE DEF u
<1>4. DOMAIN u = 1..Len(cs) + 1
  BY <1>2, <1>3, LenProperties DEF IsInsert
<1>5. \A i \in DOMAIN u : \/ i = c /\ u[i] = left
                          \/ i = c + 1 /\ u[i] = right
                          \/ i \in DOMAIN cs /\ i # c /\ u[i] = cs[i]
                          \/ i - 1 \in DOMAIN cs /\ i - 1 # c /\ u[i] = cs[i - 1]
  BY <1>1, <1>2, <1>3, <1>4 DEF IsInsert
<1>6. \A j \in DOMAIN cs : j # c => \E i \in DOMAIN u : u[i] = cs[j]
  <2> SUFFICES ASSUME NEW j \in DOMAIN cs, j # c PROVE \E i \in DOMAIN u : u[i] = cs[j]
    OBVIOUS
  <2>1. CASE j < c
    <3>1. j \in DOMAIN u /\ u[j] = cs[j]
      BY <1>1, <1>2, <1>3, <1>4, <2>1 DEF IsInsert
    <3> QED
      BY <3>1
  <2>2. CASE c < j
    <3>1. j + 1 \in DOMAIN u /\ (j + 1) - 1 = j /\ ~(j + 1 < c + 1) /\ j + 1 # c + 1 /\ j + 1 \in 1..Len(w) + 1
      BY <1>1, <1>2, <1>4, <2>2
    <3>2. u[j + 1] = w[j]
      BY <1>3, <3>1 DEF IsInsert
    <3>3. u[j + 1] = cs[j]
      BY <1>1, <1>2, <3>2
    <3> QED
      BY <3>1, <3>3
  <2> QED
    BY <1>1, <2>1, <2>2
<1>7. \E i \in DOMAIN u : u[i] = left
  <2>1. c \in DOMAIN u /\ c \in 1..Len(w) + 1 /\ c < c + 1 /\ w[c] = left
    BY <1>1, <1>2, <1>4
  <2>2. u[c] = left
    BY <1>3, <2>1 DEF IsInsert
  <2> QED
    BY <2>1, <2>2
<1>8. \E i \in DOMAIN u : u[i] = right
  <2>1. c + 1 \in DOMAIN u /\ c + 1 \in 1..Len(w) + 1 /\ ~(c + 1 < c + 1)
    BY <1>1, <1>2, <1>4
  <2>2. u[c + 1] = right
    BY <1>3, <2>1 DEF IsInsert
  <2> QED
    BY <2>1, <2>2
<1>9. PointIds(<<x>>) = {Id(x)} /\ Id(x) \in RoutePoints
  BY DEF PointIds, Id, Points
<1>10. \A p \in RoutePoints : g[p] = IF p \in rest THEN right.id
                                     ELSE IF p = Id(x) THEN left.id ELSE index[p]
  BY <1>9 DEF Reindexed
<1>11. rest \subseteq RoutePoints /\ PointIds(left.points) \subseteq RoutePoints
       /\ \A i \in DOMAIN cs : PointIds(cs[i].points) \subseteq RoutePoints
  BY <1>1, ElementOfSeq, ChunkFields
<1>12. \A i \in DOMAIN cs : Id(x) \notin PointIds(cs[i].points)
  BY ChunkIdsIn
<1>13. \A i \in DOMAIN cs : i # c => PointIds(cs[i].points) \cap PointIds(cs[c].points) = {}
  BY <1>1 DEF Indexed
<1>14. \A i \in DOMAIN cs : \A p \in PointIds(cs[i].points) : index[p] = cs[i].id
  BY DEF Indexed
<1> HIDE DEF g, h, rest
<1>15. \A i \in DOMAIN cs : i # c => \A p \in PointIds(cs[i].points) : g[p] = cs[i].id
  <2> SUFFICES ASSUME NEW i \in DOMAIN cs, i # c, NEW p \in PointIds(cs[i].points)
               PROVE  g[p] = cs[i].id
    OBVIOUS
  <2>1. p \notin rest /\ p # Id(x) /\ p \in RoutePoints
    BY <1>11, <1>12, <1>13 DEF rest
  <2> QED
    BY <1>10, <1>14, <2>1
<1>16. \A p \in PointIds(left.points) : g[p] = left.id
  <2> SUFFICES ASSUME NEW p \in PointIds(left.points) PROVE g[p] = left.id
    OBVIOUS
  <2>1. p \notin rest /\ p \in RoutePoints
    BY <1>11 DEF rest
  <2>2. p = Id(x) \/ p \in PointIds(cs[c].points)
    OBVIOUS
  <2> QED
    BY <1>1, <1>10, <1>14, <2>1, <2>2
<1>17. \A p \in PointIds(right.points) : g[p] = right.id
  BY <1>10, <1>11 DEF rest
<1>18. ASSUME NEW i \in DOMAIN u, NEW p \in PointIds(u[i].points)
       PROVE  g[p] = u[i].id
  BY <1>5, <1>15, <1>16, <1>17, <1>18
<1>19. ASSUME NEW p \in RoutePoints, \A i \in DOMAIN u : p \notin PointIds(u[i].points)
       PROVE  g[p] = 0
  <2>1. p \notin PointIds(left.points) /\ p \notin rest
    BY <1>7, <1>8, <1>19 DEF rest
  <2>2. p \notin PointIds(cs[c].points) /\ p # Id(x)
    BY <2>1 DEF rest
  <2>3. \A i \in DOMAIN cs : p \notin PointIds(cs[i].points)
    BY <1>6, <1>19, <2>2
  <2>4. index[p] = 0
    BY <2>3 DEF Indexed
  <2> QED
    BY <1>10, <2>1, <2>2, <2>4
<1>20. Indexed(u, g)
  BY <1>18, <1>19 DEF Indexed
<1> QED
  BY <1>20 DEF u, g, h, w

-----------------------------------------------------------------------------
(* Insertion into a chunk that is full                                     *)

\* The points of a chunk of a route with no point twice are distinct.
LEMMA PartDistinct ==
    ASSUME NEW cs \in Seq(Chunks), NEW c \in 1..Len(cs), NEW k \in Chunks,
           Distinct(PointsOf([cs EXCEPT ![c] = k]))
    PROVE  Distinct(k.points)
<1> DEFINE L == SubSeq(cs, 1, c - 1)
           R == SubSeq(cs, c + 1, Len(cs))
<1>1. Around(cs, c, L, R)
  BY AroundChunk
<1> HIDE DEF L, R
<1>2. /\ L \in Seq(Chunks) /\ R \in Seq(Chunks)
      /\ PointsOf([cs EXCEPT ![c] = k]) = (PointsOf(L) \o k.points) \o PointsOf(R)
  BY <1>1 DEF Around
<1> DEFINE A == PointsOf(L)
           B == PointsOf(R)
           P == k.points
<1>3. A \in Seq(Points) /\ B \in Seq(Points) /\ P \in Seq(Points)
  BY <1>2, PointsType, ChunkFields
<1>4. Distinct((A \o P) \o B)
  BY <1>2
<1> HIDE DEF A, B, P
<1>5. A \o P \in Seq(Points)
  BY <1>3, ConcatProperties
<1>6. Distinct(A \o P)
  BY <1>3, <1>4, <1>5, DistinctConcat
<1>7. Distinct(P)
  BY <1>3, <1>6, DistinctConcat
<1> QED
  BY <1>7 DEF P

\* A full chunk takes one more point and is cut in two.
Overfull(r, c, at, x, pts) ==
    /\ Good(r) /\ c \in 1..Len(r.chunks) /\ at \in 0..Len(r.chunks[c].points)
    /\ x \in Points /\ Id(x) \notin PointIds(PointsOf(r.chunks))
    /\ pts = InsertAt(r.chunks[c].points, at + 1, x) /\ ~(Len(pts) <= ChunkCapacity)

LEMMA OverfullIs ==
    ASSUME NEW r, NEW c, NEW at, NEW x, NEW pts, Overfull(r, c, at, x, pts)
    PROVE  /\ pts \in Seq(Points) /\ Len(pts) = ChunkCapacity + 1
           /\ PointIds(pts) = PointIds(r.chunks[c].points) \cup {Id(x)}
<1> DEFINE P == r.chunks[c].points
<1>1. r \in RouteVersions /\ r.chunks \in Seq(Chunks) /\ DOMAIN r.chunks = 1..Len(r.chunks)
  BY VersionFields DEF Overfull, Good
<1>2. P \in Seq(Points) /\ Len(P) \in Nat /\ at \in 0..Len(P) /\ x \in Points
  BY <1>1, ElementOfSeq, ChunkFields DEF Overfull
<1>3. Len(P) \in 1..ChunkCapacity
  BY <1>1 DEF Overfull, Good, Filed
<1>4. pts = InsertAt(P, at + 1, x) /\ ~(Len(pts) <= ChunkCapacity)
  BY DEF Overfull
<1> HIDE DEF P
<1>5. at + 1 \in 1..Len(P) + 1
  BY <1>2
<1>6. PointIds(InsertAt(P, at + 1, x)) = PointIds(P) \cup {Id(x)}
  BY <1>2, <1>5, InsertSets
<1>7. InsertAt(P, at + 1, x) \in Seq(Points) /\ IsInsert(InsertAt(P, at + 1, x), P, at + 1, x)
  BY <1>2, <1>5, InsertAtIs
<1>8. pts \in Seq(Points) /\ Len(pts) = Len(P) + 1
  BY <1>4, <1>7 DEF IsInsert
<1>9. Len(pts) = ChunkCapacity + 1
  BY <1>2, <1>3, <1>4, <1>8, RouteAssumption
<1> QED
  BY <1>4, <1>6, <1>8, <1>9 DEF P

\* The two chunks that a full one becomes.
Halves(r, c, pts, left, right) ==
    /\ left = [id |-> r.chunks[c].id, points |-> SubSeq(pts, 1, Len(pts) \div 2)]
    /\ right = [id |-> r.next_chunk, points |-> SubSeq(pts, Len(pts) \div 2 + 1, Len(pts))]

\* The halves are chunks of a legal size with the points of the whole.
HalfChunks(r, c, pts, left, right) ==
    /\ left \in Chunks /\ right \in Chunks
    /\ left.id = r.chunks[c].id /\ right.id = r.next_chunk
    /\ pts = left.points \o right.points
    /\ Len(left.points) \in 1..ChunkCapacity /\ Len(right.points) \in 1..ChunkCapacity

LEMMA HalvesAre ==
    ASSUME NEW r, NEW c, NEW at, NEW x, NEW pts, Overfull(r, c, at, x, pts),
           NEW left, NEW right, Halves(r, c, pts, left, right)
    PROVE  HalfChunks(r, c, pts, left, right)
<1> DEFINE h == Len(pts) \div 2
           a == SubSeq(pts, 1, h)
           b == SubSeq(pts, h + 1, Len(pts))
<1>1. pts \in Seq(Points) /\ Len(pts) = ChunkCapacity + 1
  BY OverfullIs
<1>2. ChunkCapacity \in Nat /\ 2 <= ChunkCapacity
  BY RouteAssumption
<1>3. h \in Nat /\ h \in 1..Len(pts) - 1 /\ h \in 1..Len(pts)
  <2>1. Len(pts) \in Nat /\ 2 <= Len(pts)
    BY <1>1, <1>2
  <2> QED
    BY <2>1, Half
<1>4. /\ left = [id |-> r.chunks[c].id, points |-> a]
      /\ right = [id |-> r.next_chunk, points |-> b]
  BY DEF Halves
<1> HIDE DEF h
<1>5. Cut(pts, h, a, b)
  BY <1>1, <1>3, CutIs
<1> HIDE DEF a, b
<1>6. /\ a \in Seq(Points) /\ b \in Seq(Points) /\ pts = a \o b
      /\ Len(a) \in 1..ChunkCapacity /\ Len(b) \in 1..ChunkCapacity
  BY <1>1, <1>2, <1>3, <1>5 DEF Cut
<1>7. r.chunks[c].id \in Nat /\ r.next_chunk \in Nat
  <2>1. r \in RouteVersions /\ r.chunks \in Seq(Chunks)
    BY VersionFields DEF Overfull, Good
  <2>2. r.chunks[c] \in Chunks
    BY <2>1, ElementOfSeq DEF Overfull
  <2> QED
    BY <2>1, <2>2, ChunkFields, VersionFields
<1>8. left.points = a /\ right.points = b
  BY <1>4
<1>9. left \in Chunks /\ right \in Chunks
  BY <1>4, <1>6, <1>7 DEF Chunks
<1> QED
  BY <1>4, <1>6, <1>8, <1>9 DEF HalfChunks

\* The fields of the version that Split makes.
SplitFields(q, r, c, x, left, right) ==
    /\ q \in RouteVersions
    /\ q.chunks = InsertAt([r.chunks EXCEPT ![c] = left], c + 1, right)
    /\ q.by_id = Append(Put(r.by_id, left), right)
    /\ q.next_chunk = r.next_chunk + 1
    /\ q.index = Reindexed(Reindexed(r.index, <<x>>, left.id), right.points, right.id)
    /\ q.size = r.size + 1 /\ q.fingerprint = Toggle(r.fingerprint, x)

LEMMA SplitIs ==
    ASSUME NEW r, NEW c, NEW at, NEW x, NEW pts, Overfull(r, c, at, x, pts),
           NEW left, NEW right, Halves(r, c, pts, left, right),
           NEW r1, r1 = [r EXCEPT !.size = @ + 1, !.fingerprint = Toggle(@, x)]
    PROVE  SplitFields(Split(r1, c, pts, x), r, c, x, left, right)
<1> DEFINE h == Halved(r1, c, pts)
           g == SetIndex(h, <<x>>, left.id)
           q == SetIndex(g, right.points, right.id)
           w == [r.chunks EXCEPT ![c] = left]
           u == InsertAt(w, c + 1, right)
<1>1. r \in RouteVersions /\ c \in 1..Len(r.chunks) /\ x \in Points /\ Filed(r.chunks, r.by_id, r.next_chunk)
  BY DEF Overfull, Good
<1>2. r.chunks \in Seq(Chunks) /\ r.by_id \in Seq(Chunks) /\ Len(r.chunks) \in Nat /\ c \in Nat
  BY <1>1, VersionFields
<1>3. /\ left \in Chunks /\ right \in Chunks
      /\ left.id = r.chunks[c].id /\ right.id = r.next_chunk
  <2>1. HalfChunks(r, c, pts, left, right)
    BY HalvesAre
  <2> QED
    BY <2>1 DEF HalfChunks
<1>4. /\ r1 \in RouteVersions /\ r1.chunks = r.chunks /\ r1.by_id = r.by_id
      /\ r1.next_chunk = r.next_chunk /\ r1.index = r.index
      /\ r1.size = r.size + 1 /\ r1.fingerprint = Toggle(r.fingerprint, x)
  BY ONLY <1>1, r1 = [r EXCEPT !.size = @ + 1, !.fingerprint = Toggle(@, x)], CountedIs
<1>5. HalvedFields(h, r1, c, left, right)
  <2>1. c \in 1..Len(r1.chunks)
    BY <1>1, <1>4
  <2>2. /\ left = [id |-> r1.chunks[c].id, points |-> SubSeq(pts, 1, Len(pts) \div 2)]
        /\ right = [id |-> r1.next_chunk, points |-> SubSeq(pts, Len(pts) \div 2 + 1, Len(pts))]
    BY <1>4 DEF Halves
  <2> QED
    BY ONLY <1>3, <1>4, <2>1, <2>2, HalvedIs
<1>6. Put(r.chunks, left) = w
  BY <1>1, <1>2, <1>3, PutIsReplace
<1> HIDE DEF h
<1>7. /\ h \in RouteVersions /\ h.chunks = u /\ h.by_id = Append(Put(r.by_id, left), right)
      /\ h.next_chunk = r.next_chunk + 1 /\ h.index = r.index
      /\ h.size = r.size + 1 /\ h.fingerprint = Toggle(r.fingerprint, x)
  BY <1>4, <1>5, <1>6 DEF HalvedFields
<1>8. u[c] = left /\ u[c + 1] = right
  <2>1. w \in Seq(Chunks) /\ Len(w) = Len(r.chunks) /\ w[c] = left
    BY <1>1, <1>2, <1>3, ExceptSeq
  <2> HIDE DEF w
  <2>2. c + 1 \in 1..Len(w) + 1
    BY <1>1, <1>2, <2>1
  <2>3. IsInsert(u, w, c + 1, right)
    BY <1>3, <2>1, <2>2, InsertAtIs
  <2> HIDE DEF u
  <2>4. c \in 1..Len(w) + 1 /\ c < c + 1 /\ ~(c + 1 < c + 1)
    BY <1>1, <1>2, <2>1
  <2> QED
    BY <2>1, <2>2, <2>3, <2>4 DEF IsInsert
<1> HIDE DEF u, w
<1>9. Split(r1, c, pts, x) = q
  BY <1>7, <1>8 DEF Split, h
<1>10. left.id \in Nat /\ right.id \in Nat
  BY <1>3, ChunkFields
<1>11. /\ g \in RouteVersions
       /\ g.chunks = h.chunks /\ g.by_id = h.by_id /\ g.next_chunk = h.next_chunk
       /\ g.size = h.size /\ g.fingerprint = h.fingerprint
       /\ g.index = Reindexed(h.index, <<x>>, left.id)
  BY ONLY <1>7, <1>10, SetIndexIs
<1> HIDE DEF g
<1>12. /\ q \in RouteVersions
       /\ q.chunks = g.chunks /\ q.by_id = g.by_id /\ q.next_chunk = g.next_chunk
       /\ q.size = g.size /\ q.fingerprint = g.fingerprint
       /\ q.index = Reindexed(g.index, right.points, right.id)
  BY ONLY <1>10, <1>11, SetIndexIs
<1> HIDE DEF q
<1>13. /\ q \in RouteVersions /\ q.chunks = u
       /\ q.by_id = Append(Put(r.by_id, left), right)
       /\ q.next_chunk = r.next_chunk + 1
       /\ q.index = Reindexed(Reindexed(r.index, <<x>>, left.id), right.points, right.id)
       /\ q.size = r.size + 1 /\ q.fingerprint = Toggle(r.fingerprint, x)
  BY <1>7, <1>11, <1>12, Zenon
<1> QED
  BY <1>9, <1>13, Zenon DEF SplitFields, u, w

LEMMA InsertSplits ==
    ASSUME NEW r, NEW c, NEW at, NEW x, NEW pts, Overfull(r, c, at, x, pts),
           NEW r1, r1 = [r EXCEPT !.size = @ + 1, !.fingerprint = Toggle(@, x)],
           NEW q, q = Split(r1, c, pts, x)
    PROVE  Takes(q, r, c, at, x)
<1> DEFINE cs == r.chunks
           V == PointsOf(cs)
           i == Len(PointsOf(SubSeq(cs, 1, c - 1))) + at + 1
           W == InsertAt(V, i, x)
           left == [id |-> r.chunks[c].id, points |-> SubSeq(pts, 1, Len(pts) \div 2)]
           right == [id |-> r.next_chunk, points |-> SubSeq(pts, Len(pts) \div 2 + 1, Len(pts))]
           k == [id |-> r.chunks[c].id, points |-> pts]
           u == InsertAt([cs EXCEPT ![c] = left], c + 1, right)
<1>1. Halves(r, c, pts, left, right)
  BY DEF Halves
<1> HIDE DEF left, right
<1>2. SplitFields(q, r, c, x, left, right)
  BY <1>1, SplitIs
<1>3. /\ left \in Chunks /\ right \in Chunks
      /\ left.id = r.chunks[c].id /\ right.id = r.next_chunk
      /\ pts = left.points \o right.points
      /\ Len(left.points) \in 1..ChunkCapacity /\ Len(right.points) \in 1..ChunkCapacity
  <2>1. HalfChunks(r, c, pts, left, right)
    BY <1>1, HalvesAre
  <2> QED
    BY <2>1 DEF HalfChunks
<1>4. /\ pts \in Seq(Points) /\ PointIds(pts) = PointIds(r.chunks[c].points) \cup {Id(x)}
  BY OverfullIs
<1>5. /\ r \in RouteVersions /\ cs # <<>> /\ Filed(cs, r.by_id, r.next_chunk)
      /\ Indexed(cs, r.index) /\ Distinct(V) /\ r.size = Len(V) /\ r.fingerprint = ToSet(V)
      /\ c \in 1..Len(cs) /\ at \in 0..Len(cs[c].points) /\ x \in Points
      /\ Id(x) \notin PointIds(V) /\ pts = InsertAt(cs[c].points, at + 1, x)
  BY DEF Good, Overfull
<1>6. /\ cs \in Seq(Chunks) /\ r.by_id \in Seq(Chunks) /\ V \in Seq(Points)
      /\ r.index \in [RoutePoints -> Nat] /\ r.next_chunk \in Nat
  BY <1>5, VersionFields
<1>7. k \in Chunks /\ k.points = pts /\ k.points = left.points \o right.points
      /\ k.points = InsertAt(cs[c].points, at + 1, x)
  <2>1. r.chunks[c].id \in Nat
    BY <1>3, ChunkFields
  <2> QED
    BY <1>3, <1>4, <1>5, <2>1 DEF Chunks
<1> HIDE DEF k, cs
<1>8. i \in 1..Len(V) + 1 /\ PointsOf([cs EXCEPT ![c] = k]) = W
  <2>1. /\ Len(PointsOf(SubSeq(cs, 1, c - 1))) + at + 1 \in 1..Len(PointsOf(cs)) + 1
        /\ PointsOf([cs EXCEPT ![c] = k]) =
                InsertAt(PointsOf(cs), Len(PointsOf(SubSeq(cs, 1, c - 1))) + at + 1, x)
    BY ONLY <1>5, <1>6, <1>7, PutInsert
  <2> QED
    BY <2>1
<1>9. PointsOf(u) = W
  <2>1. PointsOf(InsertAt([cs EXCEPT ![c] = left], c + 1, right)) = PointsOf([cs EXCEPT ![c] = k])
    <3>1. /\ cs \in Seq(Chunks) /\ c \in 1..Len(cs) /\ left \in Chunks /\ right \in Chunks
          /\ k \in Chunks /\ k.points = left.points \o right.points
      BY <1>3, <1>5, <1>6, <1>7
    <3>2. SplitIn(cs, c, left, right, k)
      BY ONLY <3>1, SplitPoints
    <3> QED
      BY <3>2 DEF SplitIn
  <2> QED
    BY <1>8, <2>1
<1>10. /\ W \in Seq(Points) /\ Distinct(W) /\ Len(W) = Len(V) + 1
       /\ ToSet(W) = Toggle(ToSet(V), x)
  <2> HIDE DEF i, V
  <2> QED
    BY ONLY <1>5, <1>6, <1>8, Inserted
<1>11. PointIds(left.points) \cup PointIds(right.points) = PointIds(cs[c].points) \cup {Id(x)}
       /\ PointIds(left.points) \cap PointIds(right.points) = {}
  <2>1. Distinct(PointsOf([cs EXCEPT ![c] = k]))
    BY <1>8, <1>10
  <2>2. Distinct(k.points)
    BY ONLY <1>5, <1>6, <1>7, <2>1, PartDistinct
  <2> DEFINE a == left.points
             b == right.points
  <2>3. a \in Seq(Points) /\ b \in Seq(Points) /\ Distinct(a \o b) /\ PointIds(a \o b) = PointIds(pts)
    BY <1>3, <1>7, <2>2, ChunkFields
  <2> HIDE DEF a, b
  <2>4. PointIds(a) \cap PointIds(b) = {} /\ PointIds(a \o b) = PointIds(a) \cup PointIds(b)
    BY <2>3, DistinctConcat, ConcatSets
  <2> QED
    BY <1>4, <2>3, <2>4 DEF a, b, cs
<1> HIDE DEF W, V, i
<1>12. Filed(u, Append(Put(r.by_id, left), right), r.next_chunk + 1)
  <2> DEFINE a == [cs EXCEPT ![c] = left]
             b == Put(r.by_id, left)
  <2>1. Filed(Put(cs, left), b, r.next_chunk)
    BY ONLY <1>3, <1>5, <1>6, PutFiled
  <2>2. Put(cs, left) = a
    <3>1. left.id = cs[c].id
      BY <1>3 DEF cs
    <3> QED
      BY ONLY <1>3, <1>5, <1>6, <3>1, PutIsReplace
  <2>3. a \in Seq(Chunks) /\ b \in Seq(Chunks) /\ Len(a) = Len(cs)
    <3>1. Put(cs, left) \in Seq(Chunks) /\ Len(Put(cs, left)) = Len(cs)
      BY ONLY <1>3, <1>6, PutSeq
    <3>2. Put(r.by_id, left) \in Seq(Chunks)
      BY ONLY <1>3, <1>6, PutSeq
    <3> QED
      BY <2>2, <3>1, <3>2
  <2>4. Filed(a, b, r.next_chunk)
    BY <2>1, <2>2
  <2> HIDE DEF a, b
  <2>5. r.next_chunk \in Nat \ {0} /\ c + 1 \in 1..Len(a) + 1
    <3>1. Len(cs) \in Nat /\ DOMAIN cs = 1..Len(cs)
      BY <1>6, LenProperties
    <3>2. cs[c].id \in 1..r.next_chunk - 1
      BY <1>5, <3>1 DEF Filed
    <3> QED
      BY <1>5, <1>6, <2>3, <3>1, <3>2
  <2>6. Filed(InsertAt(a, c + 1, right), Append(b, right), r.next_chunk + 1)
    BY ONLY <1>3, <2>3, <2>4, <2>5, FiledInsert
  <2> QED
    BY <2>6 DEF a, b
<1>13. Indexed(u, Reindexed(Reindexed(r.index, <<x>>, left.id), right.points, right.id))
  <2>1. \A m, n \in DOMAIN cs : cs[m].id = cs[n].id => m = n
    BY <1>5 DEF Filed
  <2>2. left.id = cs[c].id /\ Id(x) \notin PointIds(PointsOf(cs))
    BY <1>3, <1>5 DEF cs, V
  <2> QED
    BY ONLY <1>3, <1>5, <1>6, <1>11, <2>1, <2>2, SplitIndexed
<1>14. u \in Seq(Chunks) /\ u # <<>>
  <2>1. [cs EXCEPT ![c] = left] \in Seq(Chunks) /\ Len([cs EXCEPT ![c] = left]) = Len(cs)
    BY <1>3, <1>5, <1>6, ExceptSeq
  <2> DEFINE a == [cs EXCEPT ![c] = left]
  <2>2. a \in Seq(Chunks) /\ c + 1 \in 1..Len(a) + 1 /\ Len(a) \in Nat
    BY <1>5, <2>1, LenProperties
  <2> HIDE DEF a
  <2>3. InsertAt(a, c + 1, right) \in Seq(Chunks) /\ IsInsert(InsertAt(a, c + 1, right), a, c + 1, right)
    BY <1>3, <2>2, InsertAtIs
  <2>4. Len(InsertAt(a, c + 1, right)) = Len(a) + 1
    BY <2>3 DEF IsInsert
  <2>5. InsertAt(a, c + 1, right) # <<>>
    BY <2>2, <2>4, EmptySeq
  <2> QED
    BY <2>3, <2>5 DEF a
<1> HIDE DEF u
<1>15. /\ q \in RouteVersions /\ q.chunks = u
       /\ q.by_id = Append(Put(r.by_id, left), right)
       /\ q.next_chunk = r.next_chunk + 1
       /\ q.index = Reindexed(Reindexed(r.index, <<x>>, left.id), right.points, right.id)
       /\ q.size = r.size + 1 /\ q.fingerprint = Toggle(r.fingerprint, x)
  BY <1>2, Zenon DEF SplitFields, u, cs
<1>16. Good(q)
  <2>1. Filed(q.chunks, q.by_id, q.next_chunk) /\ Indexed(q.chunks, q.index) /\ q.chunks # <<>>
    BY <1>12, <1>13, <1>14, <1>15
  <2>2. Distinct(PointsOf(q.chunks)) /\ q.size = Len(PointsOf(q.chunks))
        /\ q.fingerprint = ToSet(PointsOf(q.chunks))
    BY <1>5, <1>9, <1>10, <1>15
  <2> QED
    BY <1>15, <2>1, <2>2, GoodIs
<1> QED
  BY <1>9, <1>15, <1>16 DEF W, V, i, cs, Takes

-----------------------------------------------------------------------------
(* FromVector                                                              *)

(***************************************************************************)
(* FromVector                                                              *)
(***************************************************************************)

LEMMA Parting ==
    ASSUME NEW n \in Nat \ {0}, NEW K \in Nat \ {0}
    PROVE  LET m == (n + K - 1) \div K
           IN m \in Nat \ {0} /\ (m - 1) * K < n /\ n <= m * K
<1> DEFINE m == (n + K - 1) \div K
<1>1. m \in Int /\ K * m <= n + K - 1 /\ n + K - 1 < K * m + K
  OBVIOUS
<1>2. m # 0 /\ m >= 0
  <2>1. n + K - 1 >= K
    OBVIOUS
  <2>2. CASE m <= 0
    <3>1. K * m <= 0
      BY <1>1, <2>2
    <3> QED
      BY <1>1, <2>1, <3>1
  <2> QED
    BY <1>1, <2>2
<1>3. (m - 1) * K = K * m - K /\ m * K = K * m /\ K * m \in Int
  BY <1>1
<1> HIDE DEF m
<1> QED
  BY <1>1, <1>2, <1>3 DEF m

LEMMA Times ==
    ASSUME NEW a \in Nat, NEW b \in Nat, NEW K \in Nat, a <= b
    PROVE  a * K \in Nat /\ b * K \in Nat /\ a * K <= b * K
<1> DEFINE d == b - a
<1>1. d \in Nat /\ b = a + d
  OBVIOUS
<1> HIDE DEF d
<1>2. d * K \in Nat /\ a * K \in Nat /\ b * K = a * K + d * K
  BY <1>1
<1> QED
  BY <1>2

\* The points of two chunks have no id in common.
LEMMA ChunksDisjoint ==
    ASSUME NEW cs \in Seq(Chunks), Distinct(PointsOf(cs)),
           NEW i \in DOMAIN cs, NEW j \in DOMAIN cs, i # j
    PROVE  PointIds(cs[i].points) \cap PointIds(cs[j].points) = {}
<1>0. DOMAIN cs = 1..Len(cs) /\ Len(cs) \in Nat
  BY LenProperties
<1>1. ASSUME NEW a \in DOMAIN cs, NEW b \in DOMAIN cs, a < b
      PROVE  PointIds(cs[a].points) \cap PointIds(cs[b].points) = {}
  <2> DEFINE L == SubSeq(cs, 1, b - 1)
             R == SubSeq(cs, b + 1, Len(cs))
  <2>1. Around(cs, b, L, R)
    BY <1>0, AroundChunk
  <2>2. Len(L) = b - 1 /\ \A k \in 1..b - 1 : L[k] = cs[k]
    <3>1. \A k \in 1..b - 1 : cs[k] \in Chunks
      BY <1>0, ElementOfSeq
    <3>2. b \in Nat /\ b - 1 \in Int /\ 1 \in Int /\ 1 <= b - 1 /\ a \in Nat
      BY <1>0, <1>1
    <3>3. Len(SubSeq(cs, 1, b - 1)) = (b - 1) - 1 + 1
          /\ \A k \in 1..(b - 1) - 1 + 1 : SubSeq(cs, 1, b - 1)[k] = cs[1 + k - 1]
      BY <3>1, <3>2, SubSeqProperties
    <3>4. (b - 1) - 1 + 1 = b - 1 /\ \A k \in 1..b - 1 : 1 + k - 1 = k
      BY <3>2
    <3> QED
      BY <3>3, <3>4
  <2> HIDE DEF L, R
  <2>3. /\ L \in Seq(Chunks) /\ R \in Seq(Chunks)
        /\ PointsOf(cs) = (PointsOf(L) \o cs[b].points) \o PointsOf(R) /\ cs[b] \in Chunks
    BY <2>1 DEF Around
  <2> DEFINE A == PointsOf(L)
             B == PointsOf(R)
             P == cs[b].points
  <2>4. A \in Seq(Points) /\ B \in Seq(Points) /\ P \in Seq(Points) /\ Distinct((A \o P) \o B)
    BY <2>3, PointsType, ChunkFields
  <2>5. a \in DOMAIN L /\ L[a] = cs[a]
    <3>1. DOMAIN L = 1..Len(L)
      BY <2>3, LenProperties
    <3>2. a \in 1..b - 1
      BY <1>0, <1>1
    <3> QED
      BY <2>2, <3>1, <3>2
  <2>6. PointIds(cs[a].points) \subseteq PointIds(A)
    BY <2>3, <2>5, ChunkIdsIn
  <2> HIDE DEF A, B, P
  <2>7. A \o P \in Seq(Points)
    BY <2>4, ConcatProperties
  <2>8. Distinct(A \o P)
    BY <2>4, <2>7, DistinctConcat
  <2>9. PointIds(A) \cap PointIds(P) = {}
    BY <2>4, <2>8, DistinctConcat
  <2> QED
    BY <2>6, <2>9 DEF P
<1> QED
  <2>1. i < j \/ j < i
    BY <1>0
  <2> QED
    BY <1>1, <2>1

\* Sequences of points in one order, cut where end tells.
LEMMA Stretches ==
    ASSUME NEW s \in Seq(Points), NEW m \in Nat, NEW end \in [0..m -> Nat], NEW cs \in Seq(Chunks),
           Len(cs) = m, end[0] = 0, end[m] = Len(s),
           \A i \in 1..m : end[i - 1] <= end[i] /\ end[i] <= Len(s),
           \A i \in 1..m : cs[i].points = SubSeq(s, end[i - 1] + 1, end[i])
    PROVE  PointsOf(cs) = s
<1> DEFINE D == {i \in 0..m : PointsOf(SubSeq(cs, 1, i)) = SubSeq(s, 1, end[i])}
<1>1. Len(s) \in Nat
  BY LenProperties
<1>2. 0 \in D
  <2>1. SubSeq(s, 1, 0) = <<>>
    BY SubSeqEmpty
  <2>2. PointsOf(SubSeq(cs, 1, 0)) = <<>>
    BY BeforeStep
  <2>3. 0 \in 0..m /\ SubSeq(s, 1, end[0]) = SubSeq(s, 1, 0)
    OBVIOUS
  <2> QED
    BY <2>1, <2>2, <2>3
<1>3. ASSUME NEW i \in 0..m, i < m, i \in D
      PROVE  i + 1 \in D
  <2> DEFINE c == i + 1
  <2>1. c \in 1..Len(cs) /\ c - 1 = i /\ c \in 1..m /\ c \in 0..m
    BY <1>3
  <2> HIDE DEF c
  <2>2. PointsOf(SubSeq(cs, 1, c)) = PointsOf(SubSeq(cs, 1, c - 1)) \o cs[c].points
    BY <2>1, BeforeStep
  <2>3. cs[c].points = SubSeq(s, end[i] + 1, end[c])
    BY <2>1
  <2>4. PointsOf(SubSeq(cs, 1, c - 1)) = SubSeq(s, 1, end[i])
    BY <1>3, <2>1
  <2>5. SubSeq(s, 1, end[i]) \o SubSeq(s, end[i] + 1, end[c]) = SubSeq(s, 1, end[c])
    <3> DEFINE x == end[i]
               y == end[c]
    <3>1. x \in Nat /\ y \in Nat /\ x <= y /\ y <= Len(s)
      BY <1>3, <2>1
    <3> HIDE DEF x, y
    <3>2. 1 \in 1..Len(s) + 1 /\ x \in 1 - 1..Len(s) /\ y \in x..Len(s)
      BY <1>1, <3>1
    <3>3. SubSeq(s, 1, x) \o SubSeq(s, x + 1, y) = SubSeq(s, 1, y)
      BY <3>2, ConcatAdjacentSubSeq
    <3> QED
      BY <3>3 DEF x, y
  <2>6. PointsOf(SubSeq(cs, 1, c)) = SubSeq(s, 1, end[c])
    BY <2>2, <2>3, <2>4, <2>5
  <2>7. c \in D
    BY <2>1, <2>6
  <2> QED
    BY <2>7 DEF c
<1>4. m \in D
  <2> HIDE DEF D
  <2>1. \A i \in 0..m : i \in D
    BY <1>2, <1>3, Induct
  <2> QED
    BY <2>1
<1>5. SubSeq(s, 1, Len(s)) = s /\ PointsOf(SubSeq(cs, 1, Len(cs))) = PointsOf(cs)
  BY SubSeqFull, BeforeStep
<1> QED
  BY <1>4, <1>5

\* The length of a stretch.
LEMMA StretchIs ==
    ASSUME NEW s \in Seq(Points), NEW x \in Nat, NEW y \in Nat, x <= y, y <= Len(s)
    PROVE  SubSeq(s, x + 1, y) \in Seq(Points) /\ Len(SubSeq(s, x + 1, y)) = y - x
<1>1. Len(s) \in Nat /\ \A i \in 1..Len(s) : s[i] \in Points
  BY LenProperties, ElementOfSeq
<1>2. (\A i \in x + 1..y : s[i] \in Points) /\ x + 1 \in Int /\ y \in Int
  BY <1>1
<1>3. SubSeq(s, x + 1, y) \in Seq(Points)
      /\ Len(SubSeq(s, x + 1, y)) = IF x + 1 <= y THEN y - (x + 1) + 1 ELSE 0
  BY <1>2, SubSeqProperties
<1>4. (IF x + 1 <= y THEN y - (x + 1) + 1 ELSE 0) = y - x
  OBVIOUS
<1> QED
  BY <1>3, <1>4

\* Where the chunks of FromVector end.
Ends(n, m, end) ==
    /\ m \in Nat \ {0} /\ end \in [0..m -> Nat] /\ end[0] = 0 /\ end[m] = n
    /\ \A i \in 1..m : end[i - 1] < end[i] /\ end[i] <= n /\ end[i] - end[i - 1] \in 1..ChunkCapacity

LEMMA EndsAre ==
    ASSUME NEW n \in Nat \ {0}, NEW m, m = (n + ChunkCapacity - 1) \div ChunkCapacity,
           NEW end, end = [i \in 0..m |-> IF i = m THEN n ELSE i * ChunkCapacity]
    PROVE  Ends(n, m, end)
<1> DEFINE K == ChunkCapacity
<1>1. K \in Nat \ {0}
  BY RouteAssumption
<1>2. m = (n + K - 1) \div K /\ end = [i \in 0..m |-> IF i = m THEN n ELSE i * K]
  OBVIOUS
<1> HIDE DEF K
<1>3. m \in Nat \ {0} /\ (m - 1) * K < n /\ n <= m * K
  BY <1>1, <1>2, Parting
<1>4. \A i \in 0..m - 1 : i * K \in Nat /\ i * K <= (m - 1) * K
  <2> SUFFICES ASSUME NEW i \in 0..m - 1 PROVE i * K \in Nat /\ i * K <= (m - 1) * K
    OBVIOUS
  <2>1. i \in Nat /\ m - 1 \in Nat /\ i <= m - 1
    BY <1>3
  <2> QED
    BY <1>1, <2>1, Times
<1>5. end \in [0..m -> Nat] /\ end[0] = 0 /\ end[m] = n
  <2>1. \A i \in 0..m : (IF i = m THEN n ELSE i * K) \in Nat
    <3> SUFFICES ASSUME NEW i \in 0..m PROVE (IF i = m THEN n ELSE i * K) \in Nat
      OBVIOUS
    <3>1. i # m => i \in 0..m - 1
      BY <1>3
    <3> QED
      BY <1>4, <3>1
  <2>2. end \in [0..m -> Nat] /\ m \in 0..m /\ 0 \in 0..m /\ 0 # m
    BY <1>2, <1>3, <2>1
  <2>3. 0 * K = 0
    BY <1>1
  <2> QED
    BY <1>2, <2>2, <2>3
<1>6. ASSUME NEW i \in 1..m
      PROVE  end[i - 1] < end[i] /\ end[i] <= n /\ end[i] - end[i - 1] \in 1..K
  <2> DEFINE j == i - 1
  <2>1. i \in Nat /\ j \in 0..m - 1 /\ j \in Nat /\ i = j + 1 /\ j \in 0..m /\ j # m /\ i \in 0..m
    BY <1>3
  <2> HIDE DEF j
  <2>2. end[j] = j * K /\ j * K \in Nat /\ j * K <= (m - 1) * K
    BY <1>2, <1>4, <2>1
  <2>3. i * K = j * K + K
    BY <1>1, <2>1, <2>2
  <2>4. (m - 1) * K \in Nat
    BY <1>3, <1>4
  <2>5. CASE i = m
    <3>1. end[i] = n /\ j = m - 1
      BY <1>3, <1>5, <2>1, <2>5
    <3>2. m * K = j * K + K
      BY <2>3, <2>5
    <3> QED
      BY <1>1, <1>3, <2>2, <3>1, <3>2 DEF j
  <2>6. CASE i # m
    <3>1. end[i] = i * K /\ i \in 0..m - 1
      BY <1>2, <1>3, <2>1, <2>6
    <3>2. i * K \in Nat /\ i * K <= (m - 1) * K
      BY <1>4, <3>1
    <3> QED
      BY <1>1, <1>3, <2>2, <2>3, <2>4, <3>1, <3>2 DEF j
  <2> QED
    BY <2>5, <2>6
<1> QED
  BY <1>3, <1>5, <1>6 DEF Ends, K

LEMMA FromVectorGood ==
    ASSUME NEW s \in Seq(Points), s # <<>>, Distinct(s), NEW q, q = FromVector(s)
    PROVE  Good(q) /\ PointsOf(q.chunks) = s
<1> DEFINE n == Len(s)
           m == (n + ChunkCapacity - 1) \div ChunkCapacity
           end == [i \in 0..m |-> IF i = m THEN n ELSE i * ChunkCapacity]
           part(i) == SubSeq(s, (i - 1) * ChunkCapacity + 1,
                             IF i = m THEN Len(s) ELSE i * ChunkCapacity)
           cs == [i \in 1..m |-> [id |-> i, points |-> part(i)]]
           index == [p \in RoutePoints |->
                      IF \E i \in 1..m : p \in PointIds(part(i))
                      THEN CHOOSE i \in 1..m : p \in PointIds(part(i)) ELSE 0]
<1>1. q = [chunks |-> cs, by_id |-> cs, index |-> index, size |-> n,
           next_chunk |-> m + 1, fingerprint |-> ToSet(s)]
  BY DEF FromVector
<1>2. n \in Nat \ {0}
  BY EmptySeq, LenProperties
<1>3. Ends(n, m, end)
  BY <1>2, EndsAre
<1>4. \A i \in 1..m : part(i) = SubSeq(s, end[i - 1] + 1, end[i])
  <2> SUFFICES ASSUME NEW i \in 1..m PROVE part(i) = SubSeq(s, end[i - 1] + 1, end[i])
    OBVIOUS
  <2>1. m \in Nat \ {0}
    BY <1>3 DEF Ends
  <2> HIDE DEF m
  <2>2. i - 1 \in 0..m /\ i - 1 # m /\ i \in 0..m
    BY <2>1
  <2>3. end[i - 1] = (i - 1) * ChunkCapacity /\ end[i] = IF i = m THEN Len(s) ELSE i * ChunkCapacity
    BY <2>2
  <2> QED
    BY <2>3
<1>5. m \in Nat \ {0} /\ end \in [0..m -> Nat] /\ end[0] = 0 /\ end[m] = n
  BY <1>3 DEF Ends
<1> HIDE DEF part, end, m
<1>6. \A i \in 1..m : /\ end[i - 1] \in Nat /\ end[i] \in Nat
                      /\ end[i - 1] < end[i] /\ end[i] <= n /\ end[i] - end[i - 1] \in 1..ChunkCapacity
  <2> SUFFICES ASSUME NEW i \in 1..m
               PROVE  /\ end[i - 1] \in Nat /\ end[i] \in Nat
                      /\ end[i - 1] < end[i] /\ end[i] <= n
                      /\ end[i] - end[i - 1] \in 1..ChunkCapacity
    OBVIOUS
  <2>1. i \in 0..m /\ i - 1 \in 0..m
    BY <1>5
  <2> QED
    BY <1>3, <1>5, <2>1 DEF Ends
<1>7. \A i \in 1..m : part(i) \in Seq(Points) /\ Len(part(i)) \in 1..ChunkCapacity
  <2> SUFFICES ASSUME NEW i \in 1..m
               PROVE  part(i) \in Seq(Points) /\ Len(part(i)) \in 1..ChunkCapacity
    OBVIOUS
  <2> DEFINE x == end[i - 1]
             y == end[i]
  <2>1. x \in Nat /\ y \in Nat /\ x <= y /\ y <= Len(s) /\ y - x \in 1..ChunkCapacity
    BY <1>6
  <2>2. part(i) = SubSeq(s, x + 1, y)
    BY <1>4
  <2> HIDE DEF x, y, n
  <2>3. SubSeq(s, x + 1, y) \in Seq(Points) /\ Len(SubSeq(s, x + 1, y)) = y - x
    BY <2>1, StretchIs
  <2> QED
    BY <2>1, <2>2, <2>3
<1>8. cs \in Seq(Chunks) /\ Len(cs) = m /\ DOMAIN cs = 1..m
      /\ \A i \in 1..m : cs[i].id = i /\ cs[i].points = part(i)
  <2>1. \A i \in 1..m : [id |-> i, points |-> part(i)] \in Chunks
    BY <1>5, <1>7 DEF Chunks
  <2> QED
    BY <1>5, <2>1
<1> HIDE DEF cs, n
<1>9. PointsOf(cs) = s
  <2>1. end[m] = Len(s)
    BY <1>5 DEF n
  <2>2. \A i \in 1..m : end[i - 1] <= end[i] /\ end[i] <= Len(s)
    BY <1>6 DEF n
  <2>3. \A i \in 1..m : cs[i].points = SubSeq(s, end[i - 1] + 1, end[i])
    BY <1>4, <1>8
  <2> QED
    BY <1>5, <1>8, <2>1, <2>2, <2>3, Stretches
<1>10. \A p \in RoutePoints : index[p] = IF \E i \in 1..m : p \in PointIds(part(i))
                                         THEN CHOOSE i \in 1..m : p \in PointIds(part(i)) ELSE 0
  OBVIOUS
<1>11. index \in [RoutePoints -> Nat]
  <2>1. \A p \in RoutePoints : (IF \E i \in 1..m : p \in PointIds(part(i))
                                THEN CHOOSE i \in 1..m : p \in PointIds(part(i)) ELSE 0) \in Nat
    <3> SUFFICES ASSUME NEW p \in RoutePoints, \E i \in 1..m : p \in PointIds(part(i))
                 PROVE  (CHOOSE i \in 1..m : p \in PointIds(part(i))) \in Nat
      OBVIOUS
    <3>1. (CHOOSE i \in 1..m : p \in PointIds(part(i))) \in 1..m
      OBVIOUS
    <3> QED
      BY <1>5, <3>1
  <2> QED
    BY <2>1
<1> HIDE DEF index
<1>12. ToSet(s) \subseteq Points
  BY ElementOfSeq, LenProperties DEF ToSet
<1>13. /\ q.chunks = cs /\ q.by_id = cs /\ q.index = index /\ q.size = n
       /\ q.next_chunk = m + 1 /\ q.fingerprint = ToSet(s)
  BY <1>1
<1>14. q \in RouteVersions
  BY <1>1, <1>5, <1>2, <1>8, <1>11, <1>12 DEF RouteVersions
<1>15. Filed(cs, cs, m + 1)
  <2>1. \A i \in 1..m : i \in 1..(m + 1) - 1
    BY <1>5
  <2> QED
    BY <1>5, <1>7, <1>8, <2>1 DEF Filed
<1>16. ASSUME NEW i \in DOMAIN cs, NEW p \in PointIds(cs[i].points)
       PROVE  index[p] = cs[i].id
  <2>1. p \in RoutePoints
    BY <1>8, ElementOfSeq, ChunkFields
  <2>2. i \in 1..m /\ p \in PointIds(part(i))
    BY <1>8
  <2>3. \A j \in 1..m : p \in PointIds(part(j)) => j = i
    <3> SUFFICES ASSUME NEW j \in 1..m, p \in PointIds(part(j)), j # i PROVE FALSE
      OBVIOUS
    <3>1. PointIds(cs[i].points) \cap PointIds(cs[j].points) = {}
      BY <1>8, <1>9, ChunksDisjoint
    <3> QED
      BY <1>8, <3>1
  <2>4. (CHOOSE j \in 1..m : p \in PointIds(part(j))) = i
    BY <2>2, <2>3
  <2> QED
    BY <1>8, <1>10, <2>1, <2>2, <2>4
<1>17. Indexed(cs, index)
  BY <1>8, <1>10, <1>16 DEF Indexed
<1>18. cs # <<>>
  BY <1>5, <1>8, EmptySeq
<1>19. q.size = Len(PointsOf(q.chunks))
  BY <1>9, <1>13 DEF n
<1>20. Good(q)
  BY <1>9, <1>13, <1>14, <1>15, <1>17, <1>18, <1>19, GoodIs
<1> QED
  BY <1>9, <1>13, <1>20

(***************************************************************************)
(* What the current version may be                                         *)
(***************************************************************************)
-----------------------------------------------------------------------------
(* Insert                                                                  *)

\* A version, or Nil, holds the points of a sequence.
Holds(r, s) == (r = Nil /\ s = <<>>) \/ (Good(r) /\ PointsOf(r.chunks) = s)

LEMMA HoldsIs ==
    ASSUME NEW r, NEW s, Holds(r, s)
    PROVE  ToVector(r) = s /\ SizeOf(r) = Len(s) /\ s \in Seq(Points) /\ Distinct(s)
<1>1. CASE r = Nil /\ s = <<>>
  BY <1>1, EmptySeq DEF ToVector, SizeOf, Distinct
<1>2. CASE Good(r) /\ PointsOf(r.chunks) = s
  BY <1>2, NotNone, VersionFields DEF Good
<1> QED
  BY <1>1, <1>2 DEF Holds

\* Insert: whether the chunk has room or is split, the new version holds the list
\* with the point inserted, its index, lookup, size and fingerprint included.
THEOREM InsertHolds ==
    ASSUME NEW r, NEW s, Holds(r, s), NEW index \in 0..SizeOf(r), NEW x \in Points,
           Id(x) \notin PointIds(s)
    PROVE  Holds(Insert(r, index, x), InsertAt(s, index + 1, x))
<1>1. CASE r = Nil /\ s = <<>>
  <2>1. <<x>> \in Seq(Points) /\ <<x>> # <<>> /\ Distinct(<<x>>) /\ Insert(r, index, x) = FromVector(<<x>>)
    BY <1>1 DEF Insert, Distinct
  <2>2. Good(FromVector(<<x>>)) /\ PointsOf(FromVector(<<x>>).chunks) = <<x>>
    BY <2>1, FromVectorGood
  <2>3. InsertAt(s, index + 1, x) = <<x>>
    <3>1. index = 0 /\ s \in Seq(Points) /\ Len(s) = 0
      BY <1>1, EmptySeq DEF SizeOf
    <3>2. index + 1 \in 1..Len(s) + 1
      BY <3>1
    <3>3. InsertAt(s, index + 1, x) \in Seq(Points) /\ IsInsert(InsertAt(s, index + 1, x), s, index + 1, x)
      BY <3>1, <3>2, InsertAtIs
    <3>4. Len(InsertAt(s, index + 1, x)) = 1 /\ InsertAt(s, index + 1, x)[1] = x
      BY <3>1, <3>3 DEF IsInsert
    <3>5. <<x>> \in Seq(Points) /\ Len(<<x>>) = 1 /\ <<x>>[1] = x
      BY One
    <3> QED
      BY <3>3, <3>4, <3>5, SeqEqual
  <2> QED
    BY <2>1, <2>2, <2>3 DEF Holds
<1>2. CASE Good(r) /\ PointsOf(r.chunks) = s
  <2> DEFINE f == ChunkFor(r, index)
             c == f.chunk
             at == f.at
             chunk == r.chunks[c]
             pts == InsertAt(chunk.points, at + 1, x)
             r1 == [r EXCEPT !.size = @ + 1, !.fingerprint = Toggle(@, x)]
             k == [chunk EXCEPT !.points = pts]
             q == Insert(r, index, x)
  <2>1. index \in 0..Len(PointsOf(r.chunks)) /\ r # Nil
    BY <1>2, HoldsIs, NotNone
  <2>2. /\ c \in 1..Len(r.chunks) /\ at \in 0..Len(r.chunks[c].points)
        /\ index = Len(PointsOf(SubSeq(r.chunks, 1, c - 1))) + at
    BY <1>2, <2>1, ChunkForIs
  <2>3. q = IF Len(pts) <= ChunkCapacity
            THEN SetIndex(ReplaceChunk(r1, k), <<x>>, chunk.id)
            ELSE Split(r1, c, pts, x)
    BY <2>1 DEF Insert
  <2>4. chunk \in Chunks /\ r.chunks \in Seq(Chunks)
    BY <1>2, <2>2, VersionFields, ElementOfSeq DEF Good
  <2> HIDE DEF f, q
  <2>5. pts \in Seq(Points)
    <3> DEFINE P == chunk.points
    <3>1. P \in Seq(Points) /\ at \in 0..Len(P) /\ Len(P) \in Nat
      BY <2>2, <2>4, ChunkFields
    <3> HIDE DEF P
    <3>2. at + 1 \in 1..Len(P) + 1
      BY <3>1
    <3>3. InsertAt(P, at + 1, x) \in Seq(Points)
      BY <3>1, <3>2, InsertAtIs
    <3> QED
      BY <3>3 DEF P
  <2> HIDE DEF pts
  <2>6. k \in Chunks /\ k.id = chunk.id /\ k.points = pts
    BY <2>4, <2>5 DEF Chunks
  <2>7. Len(PointsOf(SubSeq(r.chunks, 1, c - 1))) + at + 1 = index + 1
    BY <2>2
  <2>8. Id(x) \notin PointIds(PointsOf(r.chunks))
    BY <1>2
  <2>9. CASE Len(pts) <= ChunkCapacity
    <3> DEFINE r2 == ReplaceChunk(r1, k)
    <3>1. q = SetIndex(r2, <<x>>, k.id)
      BY <2>3, <2>6, <2>9
    <3>2. k.id = r.chunks[c].id /\ k.points = InsertAt(r.chunks[c].points, at + 1, x)
          /\ Len(k.points) <= ChunkCapacity
      BY <2>6, <2>9 DEF pts
    <3> HIDE DEF k, r1, r2
    <3>3. Takes(q, r, c, at, x)
      BY <1>2, <2>2, <2>6, <2>8, <3>1, <3>2, InsertFits DEF r1, r2
    <3> QED
      BY <1>2, <2>7, <3>3 DEF Holds, Takes, q
  <2>10. CASE ~(Len(pts) <= ChunkCapacity)
    <3>1. q = Split(r1, c, pts, x)
      BY <2>3, <2>10
    <3>2. Overfull(r, c, at, x, pts)
      BY <1>2, <2>2, <2>8, <2>10 DEF Overfull, pts
    <3> HIDE DEF r1
    <3>3. Takes(q, r, c, at, x)
      BY <3>1, <3>2, InsertSplits DEF r1
    <3> QED
      BY <1>2, <2>7, <3>3 DEF Holds, Takes, q
  <2> QED
    BY <2>9, <2>10
<1> QED
  BY <1>1, <1>2 DEF Holds

-----------------------------------------------------------------------------
(* Find and Move                                                           *)

(***************************************************************************)
(* Find                                                                    *)
(***************************************************************************)

LEMMA FindChunkIs ==
    ASSUME NEW r, Good(r), NEW c \in DOMAIN r.chunks
    PROVE  HasChunk(r, r.chunks[c].id) /\ FindChunk(r, r.chunks[c].id) = r.chunks[c]
<1> DEFINE id == r.chunks[c].id
           i == CHOOSE j \in DOMAIN r.by_id : r.by_id[j].id = id
<1>1. /\ ToSet(r.chunks) = ToSet(r.by_id)
      /\ \A l, k \in DOMAIN r.chunks : r.chunks[l].id = r.chunks[k].id => l = k
  BY DEF Good, Filed
<1>2. \E j \in DOMAIN r.by_id : r.by_id[j] = r.chunks[c]
  BY <1>1 DEF ToSet
<1>3. \E j \in DOMAIN r.by_id : r.by_id[j].id = id
  BY <1>2
<1>4. i \in DOMAIN r.by_id /\ r.by_id[i].id = id
  BY <1>3
<1>5. HasChunk(r, id) /\ FindChunk(r, id) = r.by_id[i]
  BY <1>3 DEF HasChunk, FindChunk
<1> HIDE DEF i
<1>6. PICK l \in DOMAIN r.chunks : r.by_id[i] = r.chunks[l]
  BY <1>1, <1>4 DEF ToSet
<1>7. r.by_id[i] = r.chunks[c]
  BY <1>1, <1>4, <1>6
<1> QED
  BY <1>5, <1>7

\* Find comes to chunk c, and to the point.
Found(r, p, c) ==
    /\ c \in DOMAIN r.chunks /\ p \in PointIds(r.chunks[c].points)
    /\ FindChunk(r, FindChunkId(r, p)) = r.chunks[c]
    /\ Find(r, p) \in ToSet(r.chunks[c].points) /\ Id(Find(r, p)) = p

\* The index leads to the points of the chunks and to no other.
LEMMA FindIs ==
    ASSUME NEW r, Good(r), NEW p \in RoutePoints
    PROVE  /\ p \in PointIds(PointsOf(r.chunks)) => \E c : Found(r, p, c)
           /\ p \notin PointIds(PointsOf(r.chunks)) => Find(r, p) = Nil
<1>1. /\ r.chunks \in Seq(Chunks) /\ r # Nil /\ Indexed(r.chunks, r.index)
      /\ Filed(r.chunks, r.by_id, r.next_chunk) /\ DOMAIN r.chunks = 1..Len(r.chunks)
  BY NotNone, VersionFields DEF Good
<1>2. FindChunkId(r, p) = r.index[p]
  BY <1>1 DEF FindChunkId
<1>3. ASSUME p \in PointIds(PointsOf(r.chunks))
      PROVE  \E c : Found(r, p, c)
  <2>1. PICK c \in DOMAIN r.chunks : p \in PointIds(r.chunks[c].points)
    BY <1>1, <1>3, ChunkIdsIn
  <2> DEFINE id == r.chunks[c].id
             pts == r.chunks[c].points
             j == CHOOSE i \in DOMAIN pts : Id(pts[i]) = p
  <2>2. r.index[p] = id
    BY <1>1, <2>1 DEF Indexed
  <2>3. HasChunk(r, id) /\ FindChunk(r, id) = r.chunks[c]
    BY <2>1, FindChunkIs
  <2>4. id # 0
    BY <1>1, <2>1 DEF Filed
  <2>5. Find(r, p) = pts[j]
    BY <1>2, <2>1, <2>2, <2>3, <2>4 DEF Find
  <2>6. j \in DOMAIN pts /\ Id(pts[j]) = p
    <3>1. \E i \in DOMAIN pts : Id(pts[i]) = p
      BY <2>1 DEF PointIds
    <3> QED
      BY <3>1
  <2>7. pts[j] \in ToSet(pts)
    BY <2>6 DEF ToSet
  <2>8. Found(r, p, c)
    BY <1>2, <2>1, <2>2, <2>3, <2>5, <2>6, <2>7 DEF Found
  <2> QED
    BY <2>8
<1>4. ASSUME p \notin PointIds(PointsOf(r.chunks))
      PROVE  Find(r, p) = Nil
  <2>1. \A c \in DOMAIN r.chunks : p \notin PointIds(r.chunks[c].points)
    BY <1>1, <1>4, ChunkIdsIn
  <2>2. r.index[p] = 0
    BY <1>1, <2>1 DEF Indexed
  <2> QED
    BY <1>2, <2>2 DEF Find
<1> QED
  BY <1>3, <1>4

LEMMA FoundIs ==
    ASSUME NEW r, NEW s, Holds(r, s), NEW p \in RoutePoints
    PROVE  Find(r, p) # Nil <=> p \in PointIds(s)
<1>1. CASE r = Nil /\ s = <<>>
  BY <1>1 DEF Find, FindChunkId, PointIds
<1>2. CASE Good(r) /\ PointsOf(r.chunks) = s
  <2>1. ASSUME p \in PointIds(s)
        PROVE  Find(r, p) # Nil
    <3>1. PICK c : Found(r, p, c)
      BY <1>2, <2>1, FindIs
    <3>2. r.chunks \in Seq(Chunks)
      BY <1>2, VersionFields DEF Good
    <3>3. r.chunks[c].points \in Seq(Points)
      BY <3>1, <3>2, ElementOfSeq, LenProperties, ChunkFields DEF Found
    <3>4. Find(r, p) \in Points
      BY <3>1, <3>3, ElementOfSeq, LenProperties DEF Found, ToSet
    <3> QED
      BY <3>4, RouteAssumption
  <2> QED
    BY <1>2, <2>1, FindIs
<1> QED
  BY <1>1, <1>2 DEF Holds

(***************************************************************************)
(* Move                                                                    *)
(***************************************************************************)
\* A sequence with x in the place of the point whose id is p.
MovedIn(s, p, x) == [i \in DOMAIN s |-> IF Id(s[i]) = p THEN x ELSE s[i]]

LEMMA MovedIs ==
    ASSUME NEW s \in Seq(Points), NEW x \in Points, NEW p, p = Id(x)
    PROVE  /\ MovedIn(s, p, x) \in Seq(Points) /\ Len(MovedIn(s, p, x)) = Len(s)
           /\ PointIds(MovedIn(s, p, x)) = PointIds(s)
           /\ Distinct(s) => Distinct(MovedIn(s, p, x))
           /\ p \notin PointIds(s) => MovedIn(s, p, x) = s
<1> DEFINE u == MovedIn(s, p, x)
<1>1. DOMAIN s = 1..Len(s) /\ Len(s) \in Nat /\ \A i \in 1..Len(s) : s[i] \in Points
  BY LenProperties, ElementOfSeq
<1>2. u \in Seq(Points) /\ Len(u) = Len(s)
  BY <1>1 DEF MovedIn
<1>3. DOMAIN u = DOMAIN s /\ \A i \in DOMAIN s : u[i] = IF Id(s[i]) = p THEN x ELSE s[i]
  BY DEF MovedIn
<1> HIDE DEF u
<1>4. \A i \in DOMAIN s : Id(u[i]) = Id(s[i])
  BY <1>3
<1>5. PointIds(u) = PointIds(s) /\ (Distinct(s) => Distinct(u))
  BY <1>3, <1>4 DEF PointIds, Distinct
<1>6. p \notin PointIds(s) => u = s
  <2>1. p \notin PointIds(s) => \A i \in 1..Len(s) : u[i] = s[i]
    BY <1>1, <1>3 DEF PointIds
  <2> QED
    BY <1>2, <2>1, SeqEqual
<1> QED
  BY <1>2, <1>5, <1>6 DEF u

\* Moving in a sequence of three parts moves in each.
MovedIn3(a, b, d, p, x) ==
    MovedIn((a \o b) \o d, p, x) = (MovedIn(a, p, x) \o MovedIn(b, p, x)) \o MovedIn(d, p, x)

\* Moving in a sequence of two parts moves in each.
MovedIn2(a, b, p, x) == MovedIn(a \o b, p, x) = MovedIn(a, p, x) \o MovedIn(b, p, x)

LEMMA MovedConcat ==
    ASSUME NEW a \in Seq(Points), NEW b \in Seq(Points), NEW x \in Points, NEW p, p = Id(x)
    PROVE  MovedIn2(a, b, p, x)
<1> DEFINE u == a \o b
           ma == MovedIn(a, p, x)
           mb == MovedIn(b, p, x)
           v == ma \o mb
           w == MovedIn(u, p, x)
<1>1. u \in Seq(Points) /\ IsConcat(u, a, b)
  BY ConcatIs
<1> HIDE DEF u
<1>2. ma \in Seq(Points) /\ Len(ma) = Len(a) /\ mb \in Seq(Points) /\ Len(mb) = Len(b)
      /\ w \in Seq(Points) /\ Len(w) = Len(u)
  BY <1>1, MovedIs
<1>3. /\ \A i \in DOMAIN a : ma[i] = IF Id(a[i]) = p THEN x ELSE a[i]
      /\ \A i \in DOMAIN b : mb[i] = IF Id(b[i]) = p THEN x ELSE b[i]
      /\ \A i \in DOMAIN u : w[i] = IF Id(u[i]) = p THEN x ELSE u[i]
  BY DEF MovedIn
<1> HIDE DEF ma, mb, w
<1>4. v \in Seq(Points) /\ IsConcat(v, ma, mb)
  BY <1>2, ConcatIs
<1> HIDE DEF v
<1>5. Len(a) \in Nat /\ Len(b) \in Nat /\ DOMAIN a = 1..Len(a) /\ DOMAIN b = 1..Len(b)
      /\ DOMAIN u = 1..Len(a) + Len(b) /\ Len(v) = Len(a) + Len(b) /\ Len(w) = Len(a) + Len(b)
  BY <1>1, <1>2, <1>4, LenProperties DEF IsConcat
<1>6. ASSUME NEW i \in 1..Len(a) + Len(b)
      PROVE  v[i] = w[i]
  <2>1. CASE i <= Len(a)
    <3>1. i \in DOMAIN a /\ i \in DOMAIN u /\ u[i] = a[i] /\ v[i] = ma[i]
      BY <1>1, <1>2, <1>4, <1>5, <2>1 DEF IsConcat
    <3> QED
      BY <1>3, <3>1
  <2>2. CASE ~(i <= Len(a))
    <3>1. i - Len(a) \in DOMAIN b /\ i \in DOMAIN u
      BY <1>5, <2>2
    <3>2. u[i] = b[i - Len(a)] /\ v[i] = mb[i - Len(a)]
      BY <1>1, <1>2, <1>4, <1>5, <2>2 DEF IsConcat
    <3> QED
      BY <1>3, <3>1, <3>2
  <2> QED
    BY <2>1, <2>2
<1>7. v = w
  BY <1>2, <1>4, <1>5, <1>6, SeqEqual
<1> QED
  BY <1>7 DEF v, w, ma, mb, u, MovedIn2

LEMMA MovedWithin ==
    ASSUME NEW a \in Seq(Points), NEW b \in Seq(Points), NEW d \in Seq(Points),
           NEW x \in Points, NEW p, p = Id(x)
    PROVE  MovedIn3(a, b, d, p, x)
<1>0. MovedIn2(a, b, p, x)
  BY MovedConcat
<1> DEFINE ab == a \o b
<1>1. ab \in Seq(Points) /\ MovedIn(ab, p, x) = MovedIn(a, p, x) \o MovedIn(b, p, x)
  BY <1>0, ConcatProperties DEF MovedIn2
<1> HIDE DEF ab
<1>2. MovedIn2(ab, d, p, x)
  BY <1>1, MovedConcat
<1> QED
  BY <1>1, <1>2 DEF MovedIn2, MovedIn3, ab

LEMMA MovedSet ==
    ASSUME NEW s \in Seq(Points), Distinct(s), NEW x \in Points, NEW y \in ToSet(s),
           Id(x) = Id(y), x # y
    PROVE  ToSet(MovedIn(s, Id(x), x)) = Toggle(Toggle(ToSet(s), y), x)
<1> DEFINE u == MovedIn(s, Id(x), x)
<1>1. DOMAIN u = DOMAIN s /\ \A i \in DOMAIN s : u[i] = IF Id(s[i]) = Id(x) THEN x ELSE s[i]
  BY DEF MovedIn
<1> HIDE DEF u
<1>2. PICK k \in DOMAIN s : s[k] = y
  BY DEF ToSet
<1>3. \A i \in DOMAIN s : Id(s[i]) = Id(x) <=> i = k
  BY <1>2 DEF Distinct
<1>4. ToSet(u) = (ToSet(s) \ {y}) \cup {x}
  <2>1. ASSUME NEW z \in ToSet(u) PROVE z \in (ToSet(s) \ {y}) \cup {x}
    <3>1. PICK i \in DOMAIN s : z = u[i]
      BY <1>1 DEF ToSet
    <3>2. CASE i = k
      BY <1>1, <1>3, <3>1, <3>2
    <3>3. CASE i # k
      <4>1. z = s[i] /\ Id(s[i]) # Id(x)
        BY <1>1, <1>3, <3>1, <3>3
      <4> QED
        BY <4>1 DEF ToSet
    <3> QED
      BY <3>2, <3>3
  <2>2. ASSUME NEW z \in (ToSet(s) \ {y}) \cup {x} PROVE z \in ToSet(u)
    <3>1. CASE z = x
      <4>1. u[k] = x
        BY <1>1, <1>3
      <4> QED
        BY <1>1, <3>1, <4>1 DEF ToSet
    <3>2. CASE z \in ToSet(s) \ {y}
      <4>1. PICK i \in DOMAIN s : z = s[i]
        BY <3>2 DEF ToSet
      <4>2. i # k /\ u[i] = z
        BY <1>1, <1>2, <1>3, <3>2, <4>1
      <4> QED
        BY <1>1, <4>2 DEF ToSet
    <3> QED
      BY <2>2, <3>1, <3>2
  <2> QED
    BY <2>1, <2>2
<1>5. x \notin ToSet(s)
  BY <1>2, <1>3 DEF ToSet
<1> QED
  BY <1>4, <1>5 DEF Toggle, u

LEMMA MoveIndexed ==
    ASSUME NEW cs \in Seq(Chunks), NEW index, Indexed(cs, index), NEW c \in 1..Len(cs),
           NEW k \in Chunks, k.id = cs[c].id, PointIds(k.points) = PointIds(cs[c].points)
    PROVE  Indexed([cs EXCEPT ![c] = k], index)
<1> DEFINE u == [cs EXCEPT ![c] = k]
<1>1. DOMAIN cs = 1..Len(cs) /\ DOMAIN u = DOMAIN cs /\ \A i \in DOMAIN cs : u[i] = IF i = c THEN k ELSE cs[i]
  BY LenProperties
<1> HIDE DEF u
<1>2. \A i \in DOMAIN cs : u[i].id = cs[i].id /\ PointIds(u[i].points) = PointIds(cs[i].points)
  BY <1>1
<1>3. Indexed(u, index)
  BY <1>1, <1>2 DEF Indexed
<1> QED
  BY <1>3 DEF u

\* Move: the new version holds the list with the point at its new place.
LEMMA MoveHolds ==
    ASSUME NEW r, NEW s, Holds(r, s), NEW p \in RoutePoints, NEW place \in Places,
           Find(r, p) \notin {Nil, <<p, place>>}
    PROVE  Holds(Move(r, p, place), MovedIn(s, p, <<p, place>>))
<1> DEFINE x == <<p, place>>
           y == Find(r, p)
           cs == r.chunks
           V == PointsOf(cs)
           q == Move(r, p, place)
<1>0. p \in PointIds(s)
  BY FoundIs
<1>1. Good(r) /\ V = s
  BY <1>0 DEF Holds, PointIds
<1>2. x \in Points /\ Id(x) = p
  BY DEF Points, Id
<1>3. PICK c : Found(r, p, c)
  BY <1>0, <1>1, FindIs
<1>4. /\ r \in RouteVersions /\ cs # <<>> /\ Filed(cs, r.by_id, r.next_chunk)
      /\ Indexed(cs, r.index) /\ Distinct(V) /\ r.size = Len(V) /\ r.fingerprint = ToSet(V)
  BY <1>1 DEF Good
<1>5. cs \in Seq(Chunks) /\ r.by_id \in Seq(Chunks) /\ V \in Seq(Points)
      /\ DOMAIN cs = 1..Len(cs) /\ r.fingerprint \in SUBSET Points
  BY <1>4, VersionFields
<1>6. c \in 1..Len(cs) /\ cs[c] \in Chunks
  BY <1>3, <1>5, ElementOfSeq DEF Found
<1> DEFINE P == cs[c].points
           M == MovedIn(P, p, x)
           k == [cs[c] EXCEPT !.points = M]
           g == Toggle(Toggle(r.fingerprint, y), x)
           r1 == [r EXCEPT !.fingerprint = g]
<1>7. P \in Seq(Points) /\ Len(P) \in Nat /\ y \in ToSet(P) /\ Id(y) = p
  BY <1>3, <1>6, ChunkFields DEF Found
<1>8. /\ M \in Seq(Points) /\ Len(M) = Len(P) /\ PointIds(M) = PointIds(P)
  BY <1>2, <1>7, MovedIs
<1>9. q = ReplaceChunk(r1, k)
  <2>1. y # x
    OBVIOUS
  <2>2. FindChunk(r, FindChunkId(r, p)) = cs[c]
    BY <1>3 DEF Found
  <2>3. k = [cs[c] EXCEPT !.points = [i \in DOMAIN @ |-> IF Id(@[i]) = p THEN x ELSE @[i]]]
    BY DEF MovedIn
  <2> HIDE DEF k, y
  <2> QED
    BY <2>1, <2>2, <2>3 DEF Move, y
<1> HIDE DEF M
<1>10. k \in Chunks /\ k.id = cs[c].id /\ k.points = M
  BY <1>6, <1>8 DEF Chunks
<1>11. y \in ToSet(V)
  <2>1. ToSet(V) = UNION {ToSet(d.points) : d \in ToSet(cs)}
    BY <1>5, PointsSet
  <2>2. cs[c] \in ToSet(cs)
    BY <1>5, <1>6 DEF ToSet
  <2> QED
    BY <1>7, <2>1, <2>2
<1> HIDE DEF k, y
<1>12. g \in SUBSET Points
  <2>1. y \in Points
    BY <1>5, <1>11, ElementOfSeq, LenProperties DEF ToSet
  <2> QED
    BY <1>2, <1>5, <2>1 DEF Toggle
<1> HIDE DEF g
<1>13. r1 \in RouteVersions /\ r1.chunks = cs /\ r1.by_id = r.by_id /\ r1.next_chunk = r.next_chunk
       /\ r1.index = r.index /\ r1.size = r.size /\ r1.fingerprint = g
  BY <1>4, <1>12 DEF RouteVersions
<1> HIDE DEF r1
<1>14. /\ q \in RouteVersions
       /\ q.chunks = Put(r1.chunks, k) /\ q.by_id = Put(r1.by_id, k)
       /\ q.next_chunk = r1.next_chunk /\ q.index = r1.index
       /\ q.size = r1.size /\ q.fingerprint = r1.fingerprint
  BY ONLY <1>9, <1>10, <1>13, ReplaceChunkIs
<1> HIDE DEF q
<1> DEFINE u == [cs EXCEPT ![c] = k]
<1>15. Put(cs, k) = u
  BY ONLY <1>4, <1>5, <1>6, <1>10, PutIsReplace
<1>16. Filed(Put(cs, k), Put(r.by_id, k), r.next_chunk)
  <2>1. Len(k.points) \in 1..ChunkCapacity
    BY <1>4, <1>5, <1>6, <1>8, <1>10 DEF Filed
  <2> QED
    BY ONLY <1>4, <1>5, <1>10, <2>1, PutFiled
<1>17. Indexed(u, r.index)
  BY <1>4, <1>5, <1>6, <1>8, <1>10, MoveIndexed
<1>18. PointsOf(u) = MovedIn(V, p, x)
  <2> DEFINE L == SubSeq(cs, 1, c - 1)
             R == SubSeq(cs, c + 1, Len(cs))
             A == PointsOf(L)
             B == PointsOf(R)
  <2>1. Around(cs, c, L, R)
    BY <1>5, <1>6, AroundChunk
  <2> HIDE DEF L, R
  <2>2. L \in Seq(Chunks) /\ R \in Seq(Chunks) /\ V = (A \o P) \o B /\ PointsOf(u) = (A \o M) \o B
    BY <1>10, <2>1 DEF Around
  <2>3. A \in Seq(Points) /\ B \in Seq(Points)
    BY <2>2, PointsType
  <2>4. p \in PointIds(P)
    BY <1>3 DEF Found
  <2> HIDE DEF A, B, P, V, u
  <2>5. A \o P \in Seq(Points) /\ PointIds(A \o P) = PointIds(A) \cup PointIds(P)
    BY <1>7, <2>3, ConcatProperties, ConcatSets
  <2>6. Distinct(A \o P) /\ PointIds(A \o P) \cap PointIds(B) = {}
    BY <1>4, <2>2, <2>3, <2>5, DistinctConcat
  <2>7. PointIds(A) \cap PointIds(P) = {}
    BY <1>7, <2>3, <2>6, DistinctConcat
  <2>8. p \notin PointIds(A) /\ p \notin PointIds(B)
    BY <2>4, <2>5, <2>6, <2>7
  <2> HIDE DEF x
  <2>9. MovedIn(A, p, x) = A
    BY <1>2, <2>3, <2>8, MovedIs
  <2>10. MovedIn(B, p, x) = B
    BY <1>2, <2>3, <2>8, MovedIs
  <2>11. MovedIn3(A, P, B, p, x)
    BY <1>2, <1>7, <2>3, MovedWithin
  <2> QED
    BY <2>2, <2>9, <2>10, <2>11 DEF MovedIn3, M
<1>19. /\ MovedIn(V, p, x) \in Seq(Points) /\ Len(MovedIn(V, p, x)) = Len(V)
       /\ Distinct(MovedIn(V, p, x))
  <2> HIDE DEF x, V
  <2> QED
    BY <1>2, <1>4, <1>5, MovedIs
<1>20. ToSet(MovedIn(V, p, x)) = g
  <2>1. y # x
    BY DEF y
  <2> HIDE DEF x, V
  <2>2. Id(x) = Id(y)
    BY <1>2, <1>7
  <2>3. ToSet(MovedIn(V, Id(x), x)) = Toggle(Toggle(ToSet(V), y), x)
    BY ONLY <1>2, <1>4, <1>5, <1>11, <2>1, <2>2, MovedSet
  <2> QED
    BY <1>2, <1>4, <2>3 DEF g
<1> HIDE DEF u, V, x
<1>21. q.chunks # <<>>
  <2>1. Len(Put(cs, k)) = Len(cs) /\ Put(cs, k) \in Seq(Chunks)
    BY <1>5, <1>10, PutSeq
  <2> QED
    BY <1>4, <1>5, <1>13, <1>14, <2>1, EmptySeq
<1>22. Good(q)
  <2>1. Filed(q.chunks, q.by_id, q.next_chunk) /\ Indexed(q.chunks, q.index)
    BY <1>13, <1>14, <1>15, <1>16, <1>17
  <2>2. Distinct(PointsOf(q.chunks)) /\ q.size = Len(PointsOf(q.chunks))
        /\ q.fingerprint = ToSet(PointsOf(q.chunks))
    BY <1>4, <1>13, <1>14, <1>15, <1>18, <1>19, <1>20
  <2> QED
    BY <1>14, <1>21, <2>1, <2>2, GoodIs
<1>23. PointsOf(q.chunks) = MovedIn(s, p, x)
  BY <1>1, <1>13, <1>14, <1>15, <1>18
<1> QED
  BY <1>22, <1>23 DEF Holds, q, x

-----------------------------------------------------------------------------
(* Remove: thinning, and the groups of chunks                              *)

(***************************************************************************)
(* RemovePoints: the chunks that are left                                  *)
(***************************************************************************)

\* cs with every chunk's points in K only.
Thinned(cs, ts, K) ==
    /\ ts \in Seq(Chunks) /\ Len(ts) = Len(cs)
    /\ \A i \in 1..Len(cs) : ts[i].id = cs[i].id /\ ts[i].points = Only(cs[i].points, K)

LEMMA ThinnedPoints ==
    ASSUME NEW cs \in Seq(Chunks), NEW ts, NEW K, Thinned(cs, ts, K)
    PROVE  PointsOf(ts) = Only(PointsOf(cs), K)
<1> DEFINE m == Len(cs)
           D == {i \in 0..m : PointsOf(SubSeq(ts, 1, i)) = Only(PointsOf(SubSeq(cs, 1, i)), K)}
<1>1. m \in Nat /\ ts \in Seq(Chunks) /\ Len(ts) = m
  BY LenProperties DEF Thinned
<1>2. 0 \in D
  <2>1. PointsOf(SubSeq(ts, 1, 0)) = <<>> /\ PointsOf(SubSeq(cs, 1, 0)) = <<>>
    BY <1>1, BeforeStep
  <2> QED
    BY <1>1, <2>1, OnlyEmpty
<1>3. ASSUME NEW i \in 0..m, i < m, i \in D
      PROVE  i + 1 \in D
  <2> DEFINE c == i + 1
  <2>1. c \in 1..m /\ c - 1 = i /\ c \in 0..m /\ c \in 1..Len(cs) /\ c \in 1..Len(ts)
    BY <1>1, <1>3
  <2> HIDE DEF c
  <2> DEFINE a == PointsOf(SubSeq(cs, 1, c - 1))
             b == cs[c].points
  <2>2. PointsOf(SubSeq(ts, 1, c)) = PointsOf(SubSeq(ts, 1, c - 1)) \o ts[c].points
    BY <1>1, <2>1, BeforeStep
  <2>3. PointsOf(SubSeq(cs, 1, c)) = a \o b /\ a \in Seq(Points) /\ b \in Seq(Points)
    <3>1. cs[c] \in Chunks
      BY <2>1, ElementOfSeq
    <3> QED
      BY <2>1, <3>1, BeforeStep, PointsType, ChunkFields
  <2>4. ts[c].points = Only(b, K)
    BY <2>1 DEF Thinned
  <2>5. PointsOf(SubSeq(ts, 1, c - 1)) = Only(a, K)
    BY <1>3, <2>1
  <2> HIDE DEF a, b
  <2>6. Only(a \o b, K) = Only(a, K) \o Only(b, K)
    BY <2>3, OnlyConcat
  <2>7. PointsOf(SubSeq(ts, 1, c)) = Only(PointsOf(SubSeq(cs, 1, c)), K)
    BY <2>2, <2>3, <2>4, <2>5, <2>6
  <2>8. c \in D
    BY <2>1, <2>7
  <2> QED
    BY <2>8 DEF c
<1>4. m \in D
  <2> HIDE DEF D
  <2>1. \A i \in 0..m : i \in D
    BY <1>1, <1>2, <1>3, Induct
  <2> QED
    BY <1>1, <2>1
<1>5. PointsOf(SubSeq(cs, 1, Len(cs))) = PointsOf(cs) /\ PointsOf(SubSeq(ts, 1, Len(ts))) = PointsOf(ts)
  BY <1>1, BeforeStep
<1> QED
  BY <1>1, <1>4, <1>5

\* Chunks with no point hold none of the points.
LEMMA FilledPoints ==
    ASSUME NEW N, N = {c \in Chunks : c.points # <<>>}
    PROVE  \A cs \in Seq(Chunks) : PointsOf(Only(cs, N)) = PointsOf(cs)
<1> DEFINE D == {cs \in Seq(Chunks) : PointsOf(Only(cs, N)) = PointsOf(cs)}
<1>1. <<>> \in D
  BY OnlyEmpty, EmptySeq
<1>2. ASSUME NEW cs \in Seq(Chunks), NEW c \in Chunks, cs \in D
      PROVE  Append(cs, c) \in D
  <2>1. Append(cs, c) \in Seq(Chunks)
    BY AppendIs
  <2>2. Only(cs, N) \in Seq(Chunks)
    BY OnlyProperties
  <2>3. PointsOf(Append(cs, c)) = PointsOf(cs) \o c.points
    BY PointsAppend
  <2>4. CASE c \in N
    <3>1. Only(Append(cs, c), N) = Append(Only(cs, N), c)
      BY <2>4, OnlyAppend
    <3>2. PointsOf(Append(Only(cs, N), c)) = PointsOf(Only(cs, N)) \o c.points
      BY <2>2, PointsAppend
    <3> QED
      BY <1>2, <2>1, <2>3, <3>1, <3>2
  <2>5. CASE c \notin N
    <3>1. Only(Append(cs, c), N) = Only(cs, N)
      BY <2>5, OnlyAppend
    <3>2. c.points = <<>>
      BY <2>5
    <3>3. PointsOf(cs) \o <<>> = PointsOf(cs)
      BY PointsType, ConcatEmptySeq
    <3> QED
      BY <1>2, <2>1, <2>3, <3>1, <3>2, <3>3
  <2> QED
    BY <2>4, <2>5
<1> HIDE DEF D
<1>3. \A cs \in Seq(Chunks) : cs \in D
  BY <1>1, <1>2, SeqInduct
<1> QED
  BY <1>3 DEF D

(***************************************************************************)
(* Groups                                                                  *)
(***************************************************************************)
\* Chunks of a legal size, and groups of them that fit into one chunk.
Small == {c \in Chunks : Len(c.points) \in 1..ChunkCapacity}
Group(g) == g \in Seq(Small) /\ g # <<>> /\ Len(PointsOf(g)) \in 0..ChunkCapacity
Groups == {g \in Seq(Small) : Group(g)}

LEMMA GroupsType ==
    ASSUME NEW gs \in Seq(Groups)
    PROVE  gs \in Seq(Seq(Small)) /\ FlattenSeq(gs) \in Seq(Small) /\ FlattenSeq(gs) \in Seq(Chunks)
<1>1. Groups \subseteq Seq(Small) /\ Small \subseteq Chunks
  BY DEF Groups, Small
<1>2. gs \in Seq(Seq(Small))
  BY <1>1, SeqMonotonic
<1>3. FlattenSeq(gs) \in Seq(Small)
  BY <1>2, FlattenType
<1> QED
  BY <1>1, <1>2, <1>3, SeqMonotonic

LEMMA SmallSeq ==
    ASSUME NEW s \in Seq(Small)
    PROVE  s \in Seq(Chunks)
BY DEF Small

\* What Push leaves.
Pushed(q, gs, c) == q \in Seq(Groups) /\ FlattenSeq(q) = Append(FlattenSeq(gs), c)

LEMMA PushIs ==
    ASSUME NEW gs \in Seq(Groups), NEW c \in Small
    PROVE  Pushed(Push(gs, c), gs, c)
<1> DEFINE n == Len(gs)
           from(k) == Append(FlattenSeq(SubSeq(gs, k, n)), c)
           fits(k) == Len(PointsOf(from(k))) <= ChunkCapacity
           Pick(k) == (k = 1 \/ ~fits(k - 1)) /\ \A j \in k..n : fits(j)
           first == CHOOSE k \in 1..n + 1 : Pick(k)
           S == {k \in 1..n + 1 : \A j \in k..n : fits(j)}
<1>1. Push(gs, c) = Append(SubSeq(gs, 1, first - 1), from(first))
  BY DEF Push
<1>2. n \in Nat /\ \A i \in 1..n : gs[i] \in Groups
  BY LenProperties, ElementOfSeq
<1>3. \A k \in 1..n + 1 : SubSeq(gs, k, n) \in Seq(Groups)
  <2> SUFFICES ASSUME NEW k \in 1..n + 1 PROVE SubSeq(gs, k, n) \in Seq(Groups)
    OBVIOUS
  <2>1. k \in Int /\ n \in Int /\ \A i \in k..n : gs[i] \in Groups
    BY <1>2
  <2> QED
    BY <2>1, SubSeqProperties
<1>4. \A k \in 1..n + 1 : from(k) \in Seq(Small) /\ from(k) # <<>>
  <2> SUFFICES ASSUME NEW k \in 1..n + 1 PROVE from(k) \in Seq(Small) /\ from(k) # <<>>
    OBVIOUS
  <2> DEFINE g == FlattenSeq(SubSeq(gs, k, n))
  <2>1. g \in Seq(Small)
    BY <1>3, GroupsType
  <2> HIDE DEF g
  <2>2. Append(g, c) \in Seq(Small) /\ Append(g, c) # <<>>
    BY <2>1, AppendIs
  <2> QED
    BY <2>2 DEF g
<1>5. c \in Chunks /\ Len(c.points) \in 1..ChunkCapacity
  BY DEF Small
<1>6. fits(n + 1)
  <2>1. SubSeq(gs, n + 1, n) = <<>>
    BY <1>2, SubSeqEmpty
  <2>2. from(n + 1) = <<c>>
    BY <2>1, FlattenEmpty, One
  <2>3. PointsOf(<<c>>) = c.points
    BY <1>5, PointsOne
  <2>4. PointsOf(from(n + 1)) = c.points
    BY <2>2, <2>3
  <2> HIDE DEF from
  <2>5. Len(PointsOf(from(n + 1))) = Len(c.points)
    BY <2>4
  <2>6. ChunkCapacity \in Nat
    BY RouteAssumption
  <2>7. Len(c.points) <= ChunkCapacity
    BY <1>5, <2>6
  <2> QED
    BY <2>5, <2>7
<1> HIDE DEF fits, from
<1>7. \E k \in 1..n + 1 : Pick(k)
  <2>1. n + 1 \in S /\ S \in SUBSET Nat
    BY <1>2
  <2>2. PICK m \in S : \A k \in S : m <= k
    BY <2>1, Least
  <2>3. m \in 1..n + 1 /\ (\A j \in m..n : fits(j)) /\ m \in Nat
    BY <1>2, <2>2
  <2>4. m = 1 \/ ~fits(m - 1)
    <3> SUFFICES ASSUME m # 1, fits(m - 1) PROVE FALSE
      OBVIOUS
    <3>1. m - 1 \in 1..n + 1 /\ ~(m <= m - 1)
      BY <1>2, <2>3
    <3>2. \A j \in m - 1..n : j = m - 1 \/ j \in m..n
      BY <1>2, <2>3
    <3>3. m - 1 \in S
      BY <2>3, <3>1, <3>2
    <3> QED
      BY <2>2, <3>1, <3>3
  <2> QED
    BY <2>3, <2>4
<1>8. first \in 1..n + 1 /\ Pick(first)
  BY <1>7
<1> HIDE DEF first
<1>9. fits(first)
  <2>1. first = n + 1 \/ first \in first..n
    BY <1>2, <1>8
  <2> QED
    BY <1>6, <1>8, <2>1
<1>10. from(first) \in Groups
  <2>1. from(first) \in Seq(Small) /\ from(first) # <<>>
    BY <1>4, <1>8
  <2>2. Len(PointsOf(from(first))) \in Nat
    BY <2>1, SmallSeq, PointsType, LenProperties
  <2>3. Len(PointsOf(from(first))) \in 0..ChunkCapacity
    BY <1>9, <2>2, RouteAssumption DEF fits
  <2> QED
    BY <2>1, <2>3 DEF Groups, Group
<1> DEFINE a == SubSeq(gs, 1, first - 1)
           b == SubSeq(gs, first, n)
<1>11. a \in Seq(Groups)
  <2>1. 1 \in Int /\ first - 1 \in Int /\ \A i \in 1..first - 1 : gs[i] \in Groups
    BY <1>2, <1>8
  <2> QED
    BY <2>1, SubSeqProperties
<1>12. b \in Seq(Groups)
  BY <1>3, <1>8
<1>13. a \o b = gs
  <2>1. first - 1 \in 1 - 1..Len(gs) /\ Len(gs) \in first - 1..Len(gs) /\ 1 \in 1..Len(gs) + 1
        /\ (first - 1) + 1 = first
    BY <1>2, <1>8
  <2>2. SubSeq(gs, 1, first - 1) \o SubSeq(gs, (first - 1) + 1, Len(gs)) = SubSeq(gs, 1, Len(gs))
    BY <2>1, ConcatAdjacentSubSeq
  <2>3. SubSeq(gs, 1, Len(gs)) = gs
    BY SubSeqFull
  <2> QED
    BY <2>1, <2>2, <2>3
<1>14. from(first) = Append(FlattenSeq(b), c)
  BY DEF from
<1> HIDE DEF a, b, n
<1>15. Append(a, from(first)) \in Seq(Groups)
  BY <1>10, <1>11, AppendIs
<1>16. FlattenSeq(Append(a, from(first))) = FlattenSeq(a) \o from(first)
  <2>1. a \in Seq(Seq(Small)) /\ from(first) \in Seq(Small)
    BY <1>10, <1>11, GroupsType DEF Groups
  <2> QED
    BY <2>1, FlattenAppend
<1>17. FlattenSeq(gs) = FlattenSeq(a) \o FlattenSeq(b)
  <2>1. a \in Seq(Seq(Small)) /\ b \in Seq(Seq(Small))
    BY <1>11, <1>12, GroupsType
  <2> QED
    BY <1>13, <2>1, FlattenConcat
<1>18. FlattenSeq(a) \o Append(FlattenSeq(b), c) = Append(FlattenSeq(a) \o FlattenSeq(b), c)
  <2>1. FlattenSeq(a) \in Seq(Small) /\ FlattenSeq(b) \in Seq(Small)
    BY <1>11, <1>12, GroupsType
  <2> QED
    BY <2>1, ConcatAppend
<1>19. Push(gs, c) = Append(a, from(first))
  BY <1>1 DEF a
<1> QED
  BY <1>14, <1>15, <1>16, <1>17, <1>18, <1>19 DEF Pushed

-----------------------------------------------------------------------------
(* Remove: one chunk from each group                                       *)

\* f[i] is the groups of the first i chunks (the recursion of Grouped).
GroupChain(s, f) ==
    f = [i \in 0..Len(s) |-> IF i = 0 THEN <<>> ELSE Push(f[i - 1], s[i])]

LEMMA GroupChainExists ==
    ASSUME NEW T, NEW s \in Seq(T)
    PROVE  \E f : GroupChain(s, f)
<1> DEFINE V(f, i) == IF i = 0 THEN <<>> ELSE Push(f[i - 1], s[i])
           B(f, n) == f = [i \in 0..n |-> V(f, i)]
           E == {n \in 0..Len(s) : \E f : B(f, n)}
<1>1. Len(s) \in Nat
  BY LenProperties
<1>2. 0 \in E
  <2> DEFINE f == [i \in 0..0 |-> <<>>]
  <2>1. B(f, 0)
    OBVIOUS
  <2> HIDE DEF f, B
  <2>2. \E h : B(h, 0)
    BY <2>1
  <2> QED
    BY <1>1, <2>2
<1>3. ASSUME NEW n \in 0..Len(s), n < Len(s), n \in E
      PROVE  n + 1 \in E
  <2>1. PICK f : B(f, n)
    BY <1>3
  <2>2. n \in Nat /\ n + 1 \in 0..Len(s)
    BY <1>1, <1>3
  <2> DEFINE g == [i \in 0..n + 1 |-> IF i <= n THEN f[i] ELSE V(f, i)]
  <2>3. \A i \in 0..n : f[i] = V(f, i)
    BY <2>1, <2>2
  <2>4. \A i \in 0..n + 1 : g[i] = V(g, i)
    <3> SUFFICES ASSUME NEW i \in 0..n + 1
                 PROVE  g[i] = V(g, i)
      OBVIOUS
    <3>1. i = 0 \/ (i - 1 \in 0..n /\ i - 1 \in 0..n + 1)
      BY <2>2
    <3>2. i - 1 \in 0..n => g[i - 1] = f[i - 1]
      BY <2>2
    <3>3. CASE i <= n
      BY <2>2, <2>3, <3>1, <3>2, <3>3
    <3>4. CASE ~(i <= n)
      BY <2>2, <3>1, <3>2, <3>4
    <3> QED
      BY <3>3, <3>4
  <2>5. B(g, n + 1)
    <3>1. g = [i \in 0..n + 1 |-> g[i]]
      OBVIOUS
    <3> HIDE DEF g, V
    <3> QED
      BY <2>4, <3>1
  <2> HIDE DEF B, g
  <2> QED
    BY <2>2, <2>5
<1> HIDE DEF E
<1>4. \A n \in 0..Len(s) : n \in E
  BY <1>1, <1>2, <1>3, Induct
<1>5. Len(s) \in E
  BY <1>1, <1>4
<1> QED
  BY <1>5 DEF E, GroupChain

LEMMA GroupChainStep ==
    ASSUME NEW s, NEW f, GroupChain(s, f), NEW i \in 0..Len(s)
    PROVE  f[i] = IF i = 0 THEN <<>> ELSE Push(f[i - 1], s[i])
BY DEF GroupChain

\* The groups have the chunks in their order, and none has too many points.
LEMMA GroupedIs ==
    ASSUME NEW s \in Seq(Small)
    PROVE  Grouped(s) \in Seq(Groups) /\ FlattenSeq(Grouped(s)) = s
<1> DEFINE f == CHOOSE h : GroupChain(s, h)
           E == {i \in 0..Len(s) : f[i] \in Seq(Groups) /\ FlattenSeq(f[i]) = SubSeq(s, 1, i)}
<1>1. GroupChain(s, f)
  BY GroupChainExists
<1>2. Grouped(s) = f[Len(s)]
  BY DEF Grouped, GroupChain
<1> HIDE DEF f
<1>3. Len(s) \in Nat /\ \A i \in 1..Len(s) : s[i] \in Small
  BY LenProperties, ElementOfSeq
<1>4. 0 \in E
  <2>1. 0 \in 0..Len(s)
    BY <1>3
  <2>2. f[0] = <<>>
    BY <1>1, <2>1, GroupChainStep
  <2>3. SubSeq(s, 1, 0) = <<>>
    BY SubSeqEmpty
  <2>4. <<>> \in Seq(Groups)
    BY EmptySeq
  <2> QED
    BY <2>1, <2>2, <2>3, <2>4, FlattenEmpty
<1>5. ASSUME NEW i \in 0..Len(s), i < Len(s), i \in E
      PROVE  i + 1 \in E
  <2> DEFINE k == i + 1
  <2>1. k \in 0..Len(s) /\ k \in 1..Len(s) /\ k - 1 = i /\ k # 0
    BY <1>3, <1>5
  <2> HIDE DEF k
  <2>2. f[k] = Push(f[k - 1], s[k])
    BY <1>1, <2>1, GroupChainStep
  <2>3. f[k - 1] \in Seq(Groups) /\ FlattenSeq(f[k - 1]) = SubSeq(s, 1, k - 1) /\ s[k] \in Small
    BY <1>3, <1>5, <2>1
  <2>4. Pushed(f[k], f[k - 1], s[k])
    BY <2>2, <2>3, PushIs
  <2>5. SubSeq(s, 1, k) = Append(SubSeq(s, 1, k - 1), s[k])
    <3>1. 1 \in 1..Len(s)
      BY <1>3, <2>1
    <3>2. SubSeq(s, 1, k) = SubSeq(s, 1, k - 1) \o <<s[k]>>
      BY <2>1, <3>1, SubSeqRecursiveSecond
    <3>3. SubSeq(s, 1, k - 1) \in Seq(Small)
      <4>1. 1 \in Int /\ k - 1 \in Int /\ \A j \in 1..k - 1 : s[j] \in Small
        BY <1>3, <2>1
      <4> QED
        BY <4>1, SubSeqProperties
    <3>4. Append(SubSeq(s, 1, k - 1), s[k]) = SubSeq(s, 1, k - 1) \o <<s[k]>>
      BY <2>3, <3>3, AppendIs
    <3> QED
      BY <3>2, <3>4
  <2>6. f[k] \in Seq(Groups) /\ FlattenSeq(f[k]) = SubSeq(s, 1, k)
    BY <2>3, <2>4, <2>5 DEF Pushed
  <2>7. k \in E
    BY <2>1, <2>6
  <2> QED
    BY <2>7 DEF k
<1>6. Len(s) \in E
  <2> HIDE DEF E
  <2>1. \A i \in 0..Len(s) : i \in E
    BY <1>3, <1>4, <1>5, Induct
  <2> QED
    BY <1>3, <2>1
<1>7. SubSeq(s, 1, Len(s)) = s
  BY SubSeqFull
<1> QED
  BY <1>2, <1>6, <1>7

\* The chunk whose id stays is one of the group.
LEMMA SurvivorIs ==
    ASSUME NEW g \in Seq(Small), g # <<>>
    PROVE  Survivor(g) \in DOMAIN g
<1> DEFINE size(i) == Len(g[i].points)
           S == {n \in Nat : \A j \in DOMAIN g : size(j) <= n}
           Pick(i) == (\A j \in DOMAIN g : size(j) <= size(i)) /\ (\A j \in 1..i - 1 : size(j) < size(i))
<1>1. DOMAIN g = 1..Len(g) /\ Len(g) \in Nat \ {0} /\ ChunkCapacity \in Nat
  BY EmptySeq, LenProperties, RouteAssumption
<1>2. \A i \in DOMAIN g : size(i) \in Nat /\ size(i) <= ChunkCapacity
  BY <1>1, ElementOfSeq DEF Small
<1>3. ChunkCapacity \in S
  BY <1>1, <1>2
<1>4. Survivor(g) = CHOOSE i \in DOMAIN g : Pick(i)
  BY DEF Survivor
<1> HIDE DEF size
<1>5. PICK m \in S : \A n \in S : m <= n
  BY <1>3, Least
<1>6. m \in Nat /\ \A j \in DOMAIN g : size(j) <= m
  BY <1>5
<1>7. \E i \in DOMAIN g : size(i) = m
  <2> SUFFICES ASSUME \A i \in DOMAIN g : size(i) # m PROVE FALSE
    OBVIOUS
  <2>1. \A i \in DOMAIN g : size(i) < m
    BY <1>2, <1>6
  <2>2. 1 \in DOMAIN g
    BY <1>1
  <2>3. m - 1 \in Nat /\ ~(m <= m - 1)
    BY <1>2, <1>6, <2>1, <2>2
  <2>4. \A j \in DOMAIN g : size(j) <= m - 1
    BY <1>2, <1>6, <2>1
  <2> QED
    BY <1>5, <2>3, <2>4
<1> DEFINE T == {i \in DOMAIN g : size(i) = m}
<1>8. T \in SUBSET Nat /\ T # {}
  BY <1>1, <1>7
<1>9. PICK i \in T : \A n \in T : i <= n
  BY <1>8, Least
<1>10. i \in DOMAIN g /\ i \in Nat /\ size(i) = m
  BY <1>1, <1>9
<1>11. \A j \in 1..i - 1 : size(j) < size(i)
  <2> SUFFICES ASSUME NEW j \in 1..i - 1 PROVE size(j) < size(i)
    OBVIOUS
  <2>1. j \in DOMAIN g /\ ~(i <= j)
    BY <1>1, <1>10
  <2>2. size(j) # m
    BY <1>9, <2>1
  <2> QED
    BY <1>2, <1>6, <1>10, <2>1, <2>2
<1>12. Pick(i)
  BY <1>6, <1>10, <1>11
<1> HIDE DEF Pick
<1> QED
  BY <1>4, <1>10, <1>12

\* One chunk from each group.
MergedAll(gs) == [i \in DOMAIN gs |-> Merged(gs[i])]

LEMMA MergedIs ==
    ASSUME NEW g \in Groups
    PROVE  /\ Merged(g) \in Chunks /\ Merged(g).points = PointsOf(g)
           /\ g \in Seq(Chunks) /\ g # <<>> /\ Len(PointsOf(g)) \in 0..ChunkCapacity
           /\ \E i \in DOMAIN g : Merged(g).id = g[i].id
<1>1. g \in Seq(Small) /\ g # <<>> /\ g \in Seq(Chunks) /\ Len(PointsOf(g)) \in 0..ChunkCapacity
  BY SmallSeq DEF Groups, Group
<1>2. Survivor(g) \in DOMAIN g
  BY <1>1, SurvivorIs
<1>3. g[Survivor(g)].id \in Nat /\ PointsOf(g) \in Seq(Points)
  <2>1. g[Survivor(g)] \in Chunks
    BY <1>1, <1>2, ElementOfSeq, LenProperties
  <2> QED
    BY <1>1, <2>1, ChunkFields, PointsType
<1> QED
  BY <1>1, <1>2, <1>3 DEF Merged, Chunks

LEMMA MergedType ==
    ASSUME NEW gs \in Seq(Groups)
    PROVE  /\ MergedAll(gs) \in Seq(Chunks) /\ Len(MergedAll(gs)) = Len(gs)
           /\ DOMAIN MergedAll(gs) = DOMAIN gs /\ DOMAIN gs = 1..Len(gs) /\ Len(gs) \in Nat
           /\ \A i \in DOMAIN gs : gs[i] \in Groups /\ MergedAll(gs)[i] = Merged(gs[i])
<1>1. DOMAIN gs = 1..Len(gs) /\ Len(gs) \in Nat /\ \A i \in 1..Len(gs) : gs[i] \in Groups
  BY LenProperties, ElementOfSeq
<1>2. \A i \in 1..Len(gs) : Merged(gs[i]) \in Chunks
  BY <1>1, MergedIs
<1>3. MergedAll(gs) \in Seq(Chunks) /\ Len(MergedAll(gs)) = Len(gs)
  BY <1>1, <1>2 DEF MergedAll
<1> QED
  BY <1>1, <1>3 DEF MergedAll

LEMMA MergedPoints ==
    \A gs \in Seq(Groups) : PointsOf(MergedAll(gs)) = PointsOf(FlattenSeq(gs))
<1> DEFINE D == {gs \in Seq(Groups) : PointsOf(MergedAll(gs)) = PointsOf(FlattenSeq(gs))}
<1>1. <<>> \in D
  <2>1. MergedAll(<<>>) = <<>>
    BY DEF MergedAll
  <2> QED
    BY <2>1, FlattenEmpty, EmptySeq
<1>2. ASSUME NEW gs \in Seq(Groups), NEW g \in Groups, gs \in D
      PROVE  Append(gs, g) \in D
  <2> DEFINE hs == Append(gs, g)
  <2>1. /\ hs \in Seq(Groups) /\ Len(hs) = Len(gs) + 1
        /\ (\A i \in 1..Len(gs) : hs[i] = gs[i]) /\ hs[Len(gs) + 1] = g
    BY AppendIs
  <2>2. g \in Seq(Small) /\ gs \in Seq(Seq(Small)) /\ FlattenSeq(gs) \in Seq(Chunks) /\ g \in Seq(Chunks)
    BY GroupsType, MergedIs DEF Groups
  <2>3. FlattenSeq(hs) = FlattenSeq(gs) \o g
    BY <2>2, FlattenAppend
  <2> HIDE DEF hs
  <2>4. PointsOf(FlattenSeq(hs)) = PointsOf(FlattenSeq(gs)) \o PointsOf(g)
    BY <2>2, <2>3, PointsConcat
  <2> DEFINE ms == MergedAll(gs)
             ns == MergedAll(hs)
             k == Merged(g)
  <2>5. /\ ms \in Seq(Chunks) /\ Len(ms) = Len(gs) /\ Len(gs) \in Nat /\ DOMAIN gs = 1..Len(gs)
        /\ \A i \in DOMAIN gs : ms[i] = Merged(gs[i])
    BY MergedType
  <2>6. /\ ns \in Seq(Chunks) /\ Len(ns) = Len(hs) /\ DOMAIN hs = 1..Len(hs)
        /\ \A i \in DOMAIN hs : ns[i] = Merged(hs[i])
    BY <2>1, MergedType
  <2>7. k \in Chunks /\ k.points = PointsOf(g)
    BY MergedIs
  <2> HIDE DEF ms, ns, k
  <2>8. ns = Append(ms, k)
    <3>1. /\ Append(ms, k) \in Seq(Chunks) /\ Len(Append(ms, k)) = Len(ms) + 1
          /\ (\A i \in 1..Len(ms) : Append(ms, k)[i] = ms[i]) /\ Append(ms, k)[Len(ms) + 1] = k
      BY <2>5, <2>7, AppendIs
    <3>2. \A i \in 1..Len(ns) : ns[i] = Append(ms, k)[i]
      <4> SUFFICES ASSUME NEW i \in 1..Len(ns) PROVE ns[i] = Append(ms, k)[i]
        OBVIOUS
      <4>1. CASE i \in 1..Len(gs)
        BY <2>1, <2>5, <2>6, <3>1, <4>1
      <4>2. CASE i = Len(gs) + 1
        BY <2>1, <2>5, <2>6, <3>1, <4>2 DEF k
      <4> QED
        BY <2>1, <2>5, <2>6, <4>1, <4>2
    <3> QED
      BY <2>1, <2>5, <2>6, <3>1, <3>2, SeqEqual
  <2>9. PointsOf(ns) = PointsOf(ms) \o PointsOf(g)
    BY <2>5, <2>7, <2>8, PointsAppend
  <2>10. PointsOf(MergedAll(hs)) = PointsOf(FlattenSeq(hs))
    BY <1>2, <2>4, <2>9 DEF ns, ms
  <2>11. hs \in D
    BY <2>1, <2>10
  <2> QED
    BY <2>11 DEF hs
<1> HIDE DEF D
<1>3. \A gs \in Seq(Groups) : gs \in D
  BY <1>1, <1>2, SeqInduct
<1> QED
  BY <1>3 DEF D

\* A chunk of a group is one of all.
LEMMA GroupIn ==
    \A gs \in Seq(Groups) : \A i \in DOMAIN gs : ToSet(gs[i]) \subseteq ToSet(FlattenSeq(gs))
<1> DEFINE D == {gs \in Seq(Groups) : \A i \in DOMAIN gs : ToSet(gs[i]) \subseteq ToSet(FlattenSeq(gs))}
<1>1. <<>> \in D
  BY EmptySeq
<1>2. ASSUME NEW gs \in Seq(Groups), NEW g \in Groups, gs \in D
      PROVE  Append(gs, g) \in D
  <2> DEFINE hs == Append(gs, g)
  <2>1. /\ hs \in Seq(Groups) /\ Len(hs) = Len(gs) + 1
        /\ (\A i \in 1..Len(gs) : hs[i] = gs[i]) /\ hs[Len(gs) + 1] = g
        /\ DOMAIN hs = 1..Len(hs) /\ DOMAIN gs = 1..Len(gs) /\ Len(gs) \in Nat
    BY AppendIs, LenProperties
  <2>2. g \in Seq(Small) /\ gs \in Seq(Seq(Small)) /\ FlattenSeq(gs) \in Seq(Small)
    BY GroupsType DEF Groups
  <2>3. FlattenSeq(hs) = FlattenSeq(gs) \o g
    BY <2>2, FlattenAppend
  <2> HIDE DEF hs
  <2>4. ToSet(FlattenSeq(hs)) = ToSet(FlattenSeq(gs)) \cup ToSet(g)
    BY <2>2, <2>3, ConcatSets
  <2>5. ASSUME NEW i \in DOMAIN hs PROVE ToSet(hs[i]) \subseteq ToSet(FlattenSeq(hs))
    <3>1. CASE i \in DOMAIN gs
      <4>1. hs[i] = gs[i]
        BY <2>1, <3>1
      <4> QED
        BY <1>2, <2>4, <3>1, <4>1
    <3>2. CASE i = Len(gs) + 1
      BY <2>1, <2>4, <3>2
    <3> QED
      BY <2>1, <3>1, <3>2
  <2>6. hs \in D
    BY <2>1, <2>5
  <2> QED
    BY <2>6 DEF hs
<1> HIDE DEF D
<1>3. \A gs \in Seq(Groups) : gs \in D
  BY <1>1, <1>2, SeqInduct
<1> QED
  BY <1>3 DEF D

-----------------------------------------------------------------------------
(* Remove: how many are left                                               *)

(***************************************************************************)
(* Counting                                                                *)
(***************************************************************************)
LEMMA Counted ==
    ASSUME NEW n \in Nat, NEW S, NEW f \in [1..n -> S],
           \A i, j \in 1..n : f[i] = f[j] => i = j, \A x \in S : \E i \in 1..n : f[i] = x
    PROVE  IsFiniteSet(S) /\ Cardinality(S) = n
<1>1. f \in Bijection(1..n, S)
  BY DEF Bijection, Injection, Surjection, IsInjective
<1>2. ExistsBijection(1..n, S)
  BY <1>1 DEF ExistsBijection
<1> QED
  BY <1>2, FS_NatBijection, FS_CountingElements

LEMMA DistinctCount ==
    ASSUME NEW T, NEW s \in Seq(T), Distinct(s)
    PROVE  IsFiniteSet(PointIds(s)) /\ Cardinality(PointIds(s)) = Len(s)
<1> DEFINE f == [i \in 1..Len(s) |-> Id(s[i])]
<1>1. DOMAIN s = 1..Len(s) /\ Len(s) \in Nat
  BY LenProperties
<1>2. f \in [1..Len(s) -> PointIds(s)] /\ \A x \in PointIds(s) : \E i \in 1..Len(s) : f[i] = x
  BY <1>1 DEF PointIds
<1>3. \A i, j \in 1..Len(s) : f[i] = f[j] => i = j
  BY <1>1 DEF Distinct
<1> HIDE DEF f
<1> QED
  BY <1>1, <1>2, <1>3, Counted

LEMMA SameLength ==
    ASSUME NEW T, NEW u \in Seq(T), NEW v \in Seq(T), ToSet(u) = ToSet(v),
           \A i, j \in DOMAIN u : u[i] = u[j] => i = j, \A i, j \in DOMAIN v : v[i] = v[j] => i = j
    PROVE  Len(u) = Len(v)
<1>1. /\ DOMAIN u = 1..Len(u) /\ Len(u) \in Nat /\ DOMAIN v = 1..Len(v) /\ Len(v) \in Nat
  BY LenProperties
<1>2. u \in [1..Len(u) -> ToSet(u)] /\ \A x \in ToSet(u) : \E i \in 1..Len(u) : u[i] = x
  <2>1. u \in [1..Len(u) -> T]
    BY LenProperties
  <2> QED
    BY <1>1, <2>1 DEF ToSet
<1>3. v \in [1..Len(v) -> ToSet(v)] /\ \A x \in ToSet(v) : \E i \in 1..Len(v) : v[i] = x
  <2>1. v \in [1..Len(v) -> T]
    BY LenProperties
  <2> QED
    BY <1>1, <2>1 DEF ToSet
<1>4. \A i, j \in 1..Len(u) : u[i] = u[j] => i = j
  BY <1>1
<1>5. \A i, j \in 1..Len(v) : v[i] = v[j] => i = j
  BY <1>1
<1>6. Cardinality(ToSet(u)) = Len(u)
  BY <1>1, <1>2, <1>4, Counted
<1>7. Cardinality(ToSet(v)) = Len(v)
  BY <1>1, <1>3, <1>5, Counted
<1> QED
  BY <1>6, <1>7

LEMMA OnlyIds ==
    ASSUME NEW s \in Seq(Points), NEW gone, NEW K, K = {q \in Points : Id(q) \notin gone}
    PROVE  PointIds(Only(s, K)) = PointIds(s) \ gone /\ Only(s, K) \in Seq(Points)
           /\ ToSet(Only(s, K)) = {q \in ToSet(s) : Id(q) \notin gone}
<1>1. Only(s, K) \in Seq(Points) /\ ToSet(Only(s, K)) = ToSet(s) \cap K
  BY OnlyProperties
<1>2. ToSet(s) \subseteq Points
  BY ElementOfSeq, LenProperties DEF ToSet
<1>3. ToSet(Only(s, K)) = {q \in ToSet(s) : Id(q) \notin gone}
  BY <1>1, <1>2
<1>4. PointIds(Only(s, K)) = {Id(x) : x \in ToSet(Only(s, K))} /\ PointIds(s) = {Id(x) : x \in ToSet(s)}
  BY IdsOfSet
<1> QED
  BY <1>1, <1>3, <1>4

LEMMA RemovedSize ==
    ASSUME NEW V \in Seq(Points), Distinct(V), NEW gone, gone \subseteq PointIds(V),
           NEW K, K = {q \in Points : Id(q) \notin gone}
    PROVE  /\ Cardinality(gone) \in Nat /\ Len(V) = Len(Only(V, K)) + Cardinality(gone)
           /\ Len(Only(V, K)) \in Nat /\ Len(Only(V, K)) = Len(V) - Cardinality(gone)
<1> DEFINE W == Only(V, K)
           A == PointIds(V)
           B == PointIds(W)
<1>1. W \in Seq(Points) /\ B = A \ gone
  BY OnlyIds
<1>2. Distinct(W)
  BY DistinctOnly
<1> HIDE DEF W
<1>3. IsFiniteSet(A) /\ Cardinality(A) = Len(V)
  BY DistinctCount
<1>4. IsFiniteSet(B) /\ Cardinality(B) = Len(W)
  BY <1>1, <1>2, DistinctCount
<1>5. IsFiniteSet(gone) /\ Cardinality(gone) \in Nat
  BY <1>3, FS_Subset, FS_CardinalityType
<1> HIDE DEF A, B
<1>6. Cardinality(B \cup gone) = Cardinality(B) + Cardinality(gone) - Cardinality(B \cap gone)
  BY <1>4, <1>5, FS_Union
<1>7. B \cup gone = A /\ B \cap gone = {}
  BY <1>1 DEF A
<1>8. Cardinality(B \cap gone) = 0
  BY <1>7, FS_EmptySet
<1>9. Len(V) \in Nat /\ Len(W) \in Nat
  BY <1>1, LenProperties
<1>10. \A v, w, g, z \in Nat : v = w + g - z /\ z = 0 => v = w + g /\ w = v - g
  OBVIOUS
<1>11. Len(V) = Len(W) + Cardinality(gone) - Cardinality(B \cap gone)
  BY <1>3, <1>4, <1>6, <1>7
<1>12. Len(V) = Len(W) + Cardinality(gone) /\ Len(W) = Len(V) - Cardinality(gone)
  BY <1>5, <1>8, <1>9, <1>10, <1>11
<1> QED
  BY <1>5, <1>9, <1>12 DEF W

(***************************************************************************)
(* RemovePoints: the version that is left                                  *)
(***************************************************************************)
\* What Remove makes on its way from the chunks cs of r to the chunks ms.
Filled == {c \in Chunks : c.points # <<>>}
Remnant(r, gone, K, ts, left, gs, ms) ==
    /\ Good(r) /\ gone \subseteq PointIds(PointsOf(r.chunks)) /\ r.size # Cardinality(gone)
    /\ K = {q \in Points : Id(q) \notin gone}
    /\ Thinned(r.chunks, ts, K) /\ left = Only(ts, Filled)
    /\ gs = Grouped(left) /\ ms = MergedAll(gs)

LEMMA RemnantIs ==
    ASSUME NEW r, NEW gone, NEW K, NEW ts, NEW left, NEW gs, NEW ms,
           Remnant(r, gone, K, ts, left, gs, ms)
    PROVE  /\ left \in Seq(Small) /\ ToSet(left) \subseteq ToSet(ts)
           /\ gs \in Seq(Groups) /\ FlattenSeq(gs) = left
           /\ ms \in Seq(Chunks) /\ Len(ms) = Len(gs) /\ DOMAIN ms = DOMAIN gs
           /\ \A i \in DOMAIN gs : gs[i] \in Groups /\ ms[i] = Merged(gs[i])
           /\ PointsOf(ms) = Only(PointsOf(r.chunks), K)
           /\ ms # <<>> /\ Distinct(PointsOf(ms))
<1> DEFINE cs == r.chunks
           V == PointsOf(cs)
<1>1. /\ cs \in Seq(Chunks) /\ V \in Seq(Points) /\ Distinct(V) /\ r.size = Len(V)
      /\ Filed(cs, r.by_id, r.next_chunk) /\ DOMAIN cs = 1..Len(cs)
  BY VersionFields DEF Remnant, Good
<1>2. Thinned(cs, ts, K) /\ left = Only(ts, Filled) /\ gs = Grouped(left) /\ ms = MergedAll(gs)
      /\ K = {q \in Points : Id(q) \notin gone} /\ gone \subseteq PointIds(V) /\ r.size # Cardinality(gone)
  BY DEF Remnant
<1> HIDE DEF cs, V
<1>3. ts \in Seq(Chunks) /\ Len(ts) = Len(cs)
  BY <1>2 DEF Thinned
<1>4. \A i \in 1..Len(cs) : Len(ts[i].points) <= ChunkCapacity
  <2> SUFFICES ASSUME NEW i \in 1..Len(cs) PROVE Len(ts[i].points) <= ChunkCapacity
    OBVIOUS
  <2> DEFINE P == cs[i].points
  <2>1. P \in Seq(Points) /\ Len(P) \in 1..ChunkCapacity /\ Distinct(P)
    <3>1. cs[i] \in Chunks
      BY <1>1, ElementOfSeq
    <3>2. Distinct(P)
      <4>1. [cs EXCEPT ![i] = cs[i]] = cs
        BY <1>1
      <4> QED
        BY <1>1, <3>1, <4>1, PartDistinct DEF V
    <3> QED
      BY <1>1, <3>1, <3>2, ChunkFields DEF Filed
  <2>2. ts[i].points = Only(P, K)
    BY <1>2 DEF Thinned
  <2> HIDE DEF P
  <2> DEFINE Q == Only(P, K)
  <2>3. Q \in Seq(Points) /\ Distinct(Q) /\ PointIds(Q) \subseteq PointIds(P)
    <3>1. PointIds(Only(P, K)) = PointIds(P) \ gone /\ Only(P, K) \in Seq(Points)
      BY ONLY <1>2, <2>1, OnlyIds
    <3>2. Distinct(Only(P, K))
      BY <2>1, DistinctOnly
    <3> QED
      BY <3>1, <3>2
  <2> HIDE DEF Q
  <2>4. Cardinality(PointIds(Q)) = Len(Q) /\ IsFiniteSet(PointIds(P)) /\ Cardinality(PointIds(P)) = Len(P)
    BY <2>1, <2>3, DistinctCount
  <2>5. Cardinality(PointIds(Q)) <= Cardinality(PointIds(P))
    BY <2>3, <2>4, FS_Subset
  <2>6. Len(Q) \in Nat /\ ChunkCapacity \in Nat
    BY <2>3, LenProperties, RouteAssumption
  <2> QED
    BY <2>1, <2>2, <2>4, <2>5, <2>6 DEF Q
<1>5. left \in Seq(Chunks) /\ ToSet(left) = ToSet(ts) \cap Filled
  BY <1>2, <1>3, OnlyProperties
<1>6. left \in Seq(Small)
  <2>1. \A x \in ToSet(left) : x \in Small
    <3> SUFFICES ASSUME NEW x \in ToSet(left) PROVE x \in Small
      OBVIOUS
    <3>1. x \in Chunks /\ x.points # <<>>
      BY <1>5 DEF Filled
    <3>2. PICK i \in 1..Len(cs) : x = ts[i]
      BY <1>3, <1>5, LenProperties DEF ToSet
    <3>3. x.points \in Seq(Points) /\ Len(x.points) \in Nat
      BY <3>1, ChunkFields
    <3>4. Len(x.points) # 0
      BY <3>1, <3>3, EmptySeq
    <3>5. ChunkCapacity \in Nat /\ Len(x.points) <= ChunkCapacity
      BY <1>4, <3>2, RouteAssumption
    <3>6. Len(x.points) \in 1..ChunkCapacity
      BY <3>3, <3>4, <3>5
    <3> QED
      BY <3>1, <3>6 DEF Small
  <2>2. DOMAIN left = 1..Len(left) /\ Len(left) \in Nat /\ left = [i \in DOMAIN left |-> left[i]]
    BY <1>5, LenProperties
  <2>3. \A i \in 1..Len(left) : left[i] \in Small
    BY <2>1, <2>2 DEF ToSet
  <2>4. left \in [1..Len(left) -> Small]
    BY <2>2, <2>3
  <2> QED
    BY <2>2, <2>4
<1>7. gs \in Seq(Groups) /\ FlattenSeq(gs) = left
  BY <1>2, <1>6, GroupedIs
<1>8. /\ ms \in Seq(Chunks) /\ Len(ms) = Len(gs) /\ DOMAIN ms = DOMAIN gs
      /\ \A i \in DOMAIN gs : gs[i] \in Groups /\ ms[i] = Merged(gs[i])
  BY <1>2, <1>7, MergedType
<1>9. PointsOf(ms) = PointsOf(left)
  BY <1>2, <1>7, MergedPoints
<1>10. PointsOf(left) = PointsOf(ts)
  <2>1. Filled = {c \in Chunks : c.points # <<>>}
    BY DEF Filled
  <2> QED
    BY <1>2, <1>3, <2>1, FilledPoints
<1>11. PointsOf(ts) = Only(V, K)
  BY <1>1, <1>2, ThinnedPoints DEF V
<1>12. Len(Only(V, K)) \in Nat /\ Len(Only(V, K)) # 0
  <2>1. Len(V) = Len(Only(V, K)) + Cardinality(gone) /\ Cardinality(gone) \in Nat /\ Len(Only(V, K)) \in Nat
    BY <1>1, <1>2, RemovedSize
  <2> QED
    BY <1>1, <1>2, <2>1
<1>13. ms # <<>>
  <2>1. PointsOf(<<>>) = <<>> /\ Len(<<>>) = 0
    BY PointsEmpty, EmptySeq
  <2> QED
    BY <1>9, <1>10, <1>11, <1>12, <2>1
<1>14. Distinct(Only(V, K))
  BY <1>1, DistinctOnly
<1> QED
  BY <1>5, <1>6, <1>7, <1>8, <1>9, <1>10, <1>11, <1>13, <1>14 DEF V, cs

-----------------------------------------------------------------------------
(* Remove: by_id and the index                                             *)

\* A chunk of a group is a chunk of the version with some of its points.
Part(cs, K, x, l) ==
    /\ l \in DOMAIN cs /\ x \in Chunks /\ x.id = cs[l].id
    /\ x.points # <<>> /\ PointIds(x.points) \subseteq PointIds(cs[l].points)

LEMMA PartOf ==
    ASSUME NEW r, NEW gone, NEW K, NEW ts, NEW left, NEW gs, NEW ms,
           Remnant(r, gone, K, ts, left, gs, ms), NEW i \in DOMAIN gs, NEW x \in ToSet(gs[i])
    PROVE  (\E l : Part(r.chunks, K, x, l)) /\ PointIds(x.points) \subseteq PointIds(ms[i].points)
<1> DEFINE cs == r.chunks
<1>1. cs \in Seq(Chunks) /\ DOMAIN cs = 1..Len(cs)
  BY VersionFields DEF Remnant, Good
<1>2. Thinned(cs, ts, K) /\ left = Only(ts, Filled) /\ K = {q \in Points : Id(q) \notin gone}
  BY DEF Remnant
<1> HIDE DEF cs
<1>3. ts \in Seq(Chunks) /\ Len(ts) = Len(cs)
  BY <1>2 DEF Thinned
<1>4. gs \in Seq(Groups) /\ FlattenSeq(gs) = left /\ gs[i] \in Groups /\ ms[i] = Merged(gs[i])
  BY RemnantIs
<1>5. x \in ToSet(left)
  BY <1>4, GroupIn
<1>6. ToSet(left) = ToSet(ts) \cap Filled
  BY <1>2, <1>3, OnlyProperties
<1>7. PICK l \in 1..Len(cs) : x = ts[l]
  BY <1>3, <1>5, <1>6, LenProperties DEF ToSet
<1>8. x \in Chunks /\ x.points # <<>>
  BY <1>5, <1>6 DEF Filled
<1>9. x.id = cs[l].id /\ x.points = Only(cs[l].points, K)
  BY <1>2, <1>7 DEF Thinned
<1>10. PointIds(x.points) \subseteq PointIds(cs[l].points)
  <2> DEFINE P == cs[l].points
  <2>1. P \in Seq(Points)
    BY <1>1, ElementOfSeq, ChunkFields
  <2> HIDE DEF P
  <2>2. PointIds(Only(P, K)) = PointIds(P) \ gone
    BY <1>2, <2>1, OnlyIds
  <2> QED
    BY <1>9, <2>2 DEF P
<1>11. Part(cs, K, x, l)
  BY <1>1, <1>8, <1>9, <1>10 DEF Part
<1>12. PointIds(x.points) \subseteq PointIds(ms[i].points)
  <2> DEFINE g == gs[i]
  <2>1. ms[i].points = PointsOf(g) /\ g \in Seq(Chunks)
    BY <1>4, MergedIs
  <2>2. \E j \in DOMAIN g : x = g[j]
    BY DEF ToSet
  <2> HIDE DEF g
  <2>3. \A p \in PointIds(x.points) : p \in PointIds(PointsOf(g))
    BY <2>1, <2>2, ChunkIdsIn
  <2> QED
    BY <2>1, <2>3
<1> QED
  BY <1>11, <1>12 DEF cs

\* The chunk that a group becomes has the id of one of its chunks.
LEMMA NamedAfter ==
    ASSUME NEW r, NEW gone, NEW K, NEW ts, NEW left, NEW gs, NEW ms,
           Remnant(r, gone, K, ts, left, gs, ms), NEW i \in DOMAIN gs
    PROVE  \E l \in DOMAIN r.chunks :
             /\ ms[i].id = r.chunks[l].id
             /\ PointIds(r.chunks[l].points) \cap PointIds(ms[i].points) # {}
<1>1. gs[i] \in Groups /\ ms[i] = Merged(gs[i])
  BY RemnantIs
<1>2. PICK j \in DOMAIN gs[i] : ms[i].id = gs[i][j].id
  BY <1>1, MergedIs
<1> DEFINE x == gs[i][j]
<1>3. x \in ToSet(gs[i])
  BY DEF ToSet
<1> HIDE DEF x
<1>4. PointIds(x.points) \subseteq PointIds(ms[i].points)
  BY <1>3, PartOf
<1>5. PICK l : Part(r.chunks, K, x, l)
  BY <1>3, PartOf
<1>6. PointIds(x.points) # {}
  <2>1. x.points # <<>> /\ x.points \in Seq(Points)
    BY <1>5, ChunkFields DEF Part
  <2>2. 1 \in DOMAIN x.points
    BY <2>1, EmptySeq, LenProperties
  <2> QED
    BY <2>2 DEF PointIds
<1>7. l \in DOMAIN r.chunks /\ ms[i].id = r.chunks[l].id
      /\ PointIds(x.points) \subseteq PointIds(r.chunks[l].points)
  BY <1>2, <1>5 DEF Part, x
<1> QED
  BY <1>4, <1>6, <1>7

LEMMA NamesDiffer ==
    ASSUME NEW r, NEW gone, NEW K, NEW ts, NEW left, NEW gs, NEW ms,
           Remnant(r, gone, K, ts, left, gs, ms)
    PROVE  \A i, j \in DOMAIN ms : ms[i].id = ms[j].id => i = j
<1> SUFFICES ASSUME NEW i \in DOMAIN ms, NEW j \in DOMAIN ms, ms[i].id = ms[j].id, i # j
             PROVE  FALSE
  OBVIOUS
<1>1. /\ gs \in Seq(Groups) /\ ms \in Seq(Chunks) /\ DOMAIN ms = DOMAIN gs
      /\ left \in Seq(Small) /\ FlattenSeq(gs) = left
      /\ Distinct(PointsOf(ms))
      /\ \A k \in DOMAIN gs : gs[k] \in Groups /\ ms[k] = Merged(gs[k])
  BY RemnantIs
<1>2. PICK a \in DOMAIN gs[i] : ms[i].id = gs[i][a].id
  BY <1>1, MergedIs
<1>3. PICK b \in DOMAIN gs[j] : ms[j].id = gs[j][b].id
  BY <1>1, MergedIs
<1> DEFINE x == gs[i][a]
           y == gs[j][b]
<1>4. x \in ToSet(gs[i]) /\ y \in ToSet(gs[j])
  BY DEF ToSet
<1>5. x \in ToSet(left) /\ y \in ToSet(left) /\ x.id = y.id
  BY <1>1, <1>2, <1>3, <1>4, GroupIn
<1> HIDE DEF x, y
<1>6. x = y
  <2> DEFINE cs == r.chunks
  <2>1. Thinned(cs, ts, K) /\ Filed(cs, r.by_id, r.next_chunk) /\ cs \in Seq(Chunks) /\ DOMAIN cs = 1..Len(cs)
    BY VersionFields DEF Remnant, Good
  <2> HIDE DEF cs
  <2>2. ts \in Seq(Chunks) /\ Len(ts) = Len(cs) /\ ToSet(left) \subseteq ToSet(ts)
    BY <2>1, RemnantIs DEF Thinned
  <2>3. DOMAIN ts = 1..Len(cs)
    BY <2>2, LenProperties
  <2>4. PICK l \in 1..Len(cs) : x = ts[l]
    BY <1>5, <2>2, <2>3 DEF ToSet
  <2>5. PICK m \in 1..Len(cs) : y = ts[m]
    BY <1>5, <2>2, <2>3 DEF ToSet
  <2>6. cs[l].id = cs[m].id
    BY <1>5, <2>1, <2>4, <2>5 DEF Thinned
  <2>7. l = m
    BY <2>1, <2>6 DEF Filed
  <2> QED
    BY <2>4, <2>5, <2>7
<1>7. PointIds(x.points) \subseteq PointIds(ms[i].points) /\ PointIds(y.points) \subseteq PointIds(ms[j].points)
  BY <1>1, <1>4, PartOf
<1>8. PICK l : Part(r.chunks, K, x, l)
  BY <1>1, <1>4, PartOf
<1>9. PointIds(x.points) # {}
  <2>1. x.points # <<>> /\ x.points \in Seq(Points)
    BY <1>8, ChunkFields DEF Part
  <2>2. 1 \in DOMAIN x.points
    BY <2>1, EmptySeq, LenProperties
  <2> QED
    BY <2>2 DEF PointIds
<1>10. PointIds(ms[i].points) \cap PointIds(ms[j].points) = {}
  BY <1>1, ChunksDisjoint
<1> QED
  BY <1>6, <1>7, <1>9, <1>10

\* What RemovePoints makes of by_id and of index.
Stayed(r, ms) ==
    LET active == {ms[i].id : i \in DOMAIN ms}
    IN Only(r.by_id, {chunk \in ToSet(r.by_id) : chunk.id \in active})
\* by has, in the order of by_id, the chunks that are left.
ById(by, r, ms) ==
    by = [j \in DOMAIN Stayed(r, ms) |-> ms[CHOOSE i \in DOMAIN ms : ms[i].id = Stayed(r, ms)[j].id]]
\* What RemovePoints makes of the index.
IndexLeft(index, r, gone, gs, ms) ==
    index = [p \in RoutePoints |->
               IF p \in gone THEN 0
               ELSE IF \E i \in DOMAIN gs : Len(gs[i]) > 1 /\ p \in PointIds(ms[i].points)
               THEN ms[CHOOSE i \in DOMAIN gs : p \in PointIds(ms[i].points)].id
               ELSE r.index[p]]

\* The chunks that are left, by their ids.
LEMMA RemnantFiled ==
    ASSUME NEW r, NEW gone, NEW K, NEW ts, NEW left, NEW gs, NEW ms,
           Remnant(r, gone, K, ts, left, gs, ms), NEW by, ById(by, r, ms)
    PROVE  by \in Seq(Chunks) /\ Filed(ms, by, r.next_chunk)
<1> DEFINE active == {ms[i].id : i \in DOMAIN ms}
           stayed == Stayed(r, ms)
<1>0. stayed = Only(r.by_id, {c \in ToSet(r.by_id) : c.id \in active})
  BY DEF Stayed
<1> HIDE DEF stayed
<1>1. /\ r.by_id \in Seq(Chunks) /\ r.chunks \in Seq(Chunks)
      /\ Filed(r.chunks, r.by_id, r.next_chunk) /\ DOMAIN r.by_id = 1..Len(r.by_id)
      /\ Len(r.by_id) \in Nat
  BY VersionFields DEF Remnant, Good
<1>2. /\ ms \in Seq(Chunks) /\ gs \in Seq(Groups) /\ DOMAIN ms = DOMAIN gs
      /\ \A i \in DOMAIN gs : gs[i] \in Groups /\ ms[i] = Merged(gs[i])
  BY RemnantIs
<1>3. \A i, j \in DOMAIN ms : ms[i].id = ms[j].id => i = j
  BY NamesDiffer
<1>4. stayed \in Seq(Chunks) /\ Ordered(stayed, r.by_id)
      /\ ToSet(stayed) = {c \in ToSet(r.by_id) : c.id \in active}
  BY <1>0, <1>1, OnlyProperties
<1>5. DOMAIN stayed = 1..Len(stayed) /\ Len(stayed) \in Nat /\ DOMAIN ms = 1..Len(ms)
  BY <1>2, <1>4, LenProperties
<1>6. \A j \in DOMAIN stayed : \E i \in DOMAIN ms : ms[i].id = stayed[j].id
  BY <1>4 DEF ToSet
<1>7. DOMAIN by = DOMAIN stayed /\ \A j \in DOMAIN stayed :
          \E i \in DOMAIN ms : by[j] = ms[i] /\ ms[i].id = stayed[j].id
  <2>0. by = [j \in DOMAIN stayed |-> ms[CHOOSE i \in DOMAIN ms : ms[i].id = stayed[j].id]]
    BY DEF ById, stayed
  <2> SUFFICES ASSUME NEW j \in DOMAIN stayed
               PROVE  \E i \in DOMAIN ms : by[j] = ms[i] /\ ms[i].id = stayed[j].id
    BY <2>0
  <2> DEFINE i == CHOOSE k \in DOMAIN ms : ms[k].id = stayed[j].id
  <2>1. i \in DOMAIN ms /\ ms[i].id = stayed[j].id
    BY <1>6
  <2>2. by[j] = ms[i]
    BY <2>0
  <2> QED
    BY <2>1, <2>2
<1>8. by \in Seq(Chunks) /\ Len(by) = Len(stayed)
  <2>1. \A j \in DOMAIN stayed : by[j] \in Chunks
    BY <1>2, <1>5, <1>7, ElementOfSeq
  <2>2. by = [j \in DOMAIN stayed |-> by[j]]
    BY DEF ById, stayed
  <2>3. by \in [1..Len(stayed) -> Chunks]
    BY <1>5, <1>7, <2>1, <2>2
  <2> QED
    BY ONLY <1>5, <2>3
<1>9. \A j \in DOMAIN by : by[j].id = stayed[j].id
  BY ONLY <1>7
<1>10. ASSUME NEW i \in DOMAIN by, NEW j \in DOMAIN by, i < j
       PROVE  by[i].id < by[j].id
  <2>1. PICK k, l \in DOMAIN r.by_id : k < l /\ r.by_id[k] = stayed[i] /\ r.by_id[l] = stayed[j]
    BY <1>4, <1>7, <1>10 DEF Ordered
  <2>2. r.by_id[k].id < r.by_id[l].id
    BY <1>1, <2>1 DEF Filed
  <2> QED
    BY <1>9, <2>1, <2>2
<1>11. ToSet(by) = ToSet(ms)
  <2>1. ToSet(by) \subseteq ToSet(ms)
    BY ONLY <1>7 DEF ToSet
  <2>2. ASSUME NEW i \in DOMAIN ms PROVE ms[i] \in ToSet(by)
    <3>1. PICK l \in DOMAIN r.chunks : ms[i].id = r.chunks[l].id
      BY <1>2, NamedAfter
    <3>2. r.chunks[l] \in ToSet(r.by_id)
      BY <1>1 DEF Filed, ToSet
    <3>3. r.chunks[l].id \in active
      BY <3>1
    <3>4. r.chunks[l] \in ToSet(stayed)
      BY <1>4, <3>2, <3>3
    <3>5. PICK j \in DOMAIN stayed : stayed[j] = r.chunks[l]
      BY <3>4 DEF ToSet
    <3>6. PICK k \in DOMAIN ms : by[j] = ms[k] /\ ms[k].id = stayed[j].id
      BY <1>7
    <3>7. k = i
      BY <1>3, <3>1, <3>5, <3>6
    <3> QED
      BY <1>7, <3>6, <3>7 DEF ToSet
  <2> QED
    BY <2>1, <2>2 DEF ToSet
<1>12. Len(ms) = Len(by)
  <2>1. \A i, j \in DOMAIN ms : ms[i] = ms[j] => i = j
    BY <1>3
  <2>2. \A i, j \in DOMAIN by : by[i] = by[j] => i = j
    <3> SUFFICES ASSUME NEW i \in DOMAIN by, NEW j \in DOMAIN by, by[i] = by[j], i # j PROVE FALSE
      OBVIOUS
    <3>1. i \in Nat /\ j \in Nat
      BY <1>5, <1>7
    <3>2. i < j \/ j < i
      BY <3>1
    <3>3. by[i].id \in Nat
      BY <1>8, ElementOfSeq, LenProperties, ChunkFields
    <3>4. by[i].id = by[j].id
      OBVIOUS
    <3>5. by[i].id < by[j].id \/ by[j].id < by[i].id
      BY <1>10, <3>2
    <3> QED
      BY ONLY <3>3, <3>4, <3>5
  <2> QED
    BY <1>2, <1>8, <1>11, <2>1, <2>2, SameLength
<1>13. ASSUME NEW i \in DOMAIN ms
       PROVE  Len(ms[i].points) \in 1..ChunkCapacity /\ ms[i].id \in 1..r.next_chunk - 1
  <2>1. PICK l \in DOMAIN r.chunks : /\ ms[i].id = r.chunks[l].id
                                     /\ PointIds(r.chunks[l].points) \cap PointIds(ms[i].points) # {}
    BY <1>2, NamedAfter
  <2>2. ms[i].id \in 1..r.next_chunk - 1
    BY <1>1, <2>1 DEF Filed
  <2>3. ms[i].points = PointsOf(gs[i]) /\ Len(PointsOf(gs[i])) \in 0..ChunkCapacity
    BY <1>2, MergedIs
  <2>4. ms[i].points # <<>>
    BY <2>1 DEF PointIds
  <2>5. ms[i].points \in Seq(Points)
    BY <1>2, ElementOfSeq, LenProperties, ChunkFields
  <2>6. Len(ms[i].points) # 0
    BY <2>4, <2>5, EmptySeq
  <2>7. Len(ms[i].points) \in 1..ChunkCapacity
    BY <2>3, <2>6, RouteAssumption
  <2> QED
    BY <2>2, <2>7
<1>14. Filed(ms, by, r.next_chunk)
  BY <1>3, <1>10, <1>11, <1>12, <1>13 DEF Filed
<1> QED
  BY <1>8, <1>14

LEMMA RemnantIndexed ==
    ASSUME NEW r, NEW gone, NEW K, NEW ts, NEW left, NEW gs, NEW ms,
           Remnant(r, gone, K, ts, left, gs, ms), NEW index, IndexLeft(index, r, gone, gs, ms)
    PROVE  index \in [RoutePoints -> Nat] /\ Indexed(ms, index)
<1> DEFINE cs == r.chunks
           V == PointsOf(cs)
           Big(p) == \E i \in DOMAIN gs : Len(gs[i]) > 1 /\ p \in PointIds(ms[i].points)
           at(p) == CHOOSE i \in DOMAIN gs : p \in PointIds(ms[i].points)
<1>1. /\ cs \in Seq(Chunks) /\ r.index \in [RoutePoints -> Nat] /\ Indexed(cs, r.index)
      /\ V \in Seq(Points)
  BY VersionFields DEF Remnant, Good
<1>2. /\ ms \in Seq(Chunks) /\ gs \in Seq(Groups) /\ DOMAIN ms = DOMAIN gs /\ Distinct(PointsOf(ms))
      /\ (\A i \in DOMAIN gs : gs[i] \in Groups /\ ms[i] = Merged(gs[i]))
      /\ PointsOf(ms) = Only(V, K)
  BY RemnantIs
<1>3. PointIds(PointsOf(ms)) = PointIds(V) \ gone
  <2>1. K = {q \in Points : Id(q) \notin gone}
    BY DEF Remnant
  <2> HIDE DEF V
  <2>2. PointIds(Only(V, K)) = PointIds(V) \ gone
    BY <1>1, <2>1, OnlyIds
  <2> QED
    BY <1>2, <2>2
<1>4. \A p \in RoutePoints : index[p] = IF p \in gone THEN 0 ELSE IF Big(p) THEN ms[at(p)].id ELSE r.index[p]
  BY DEF IndexLeft
<1>5. \A i \in DOMAIN ms : ms[i] \in Chunks /\ ms[i].id \in Nat /\ PointIds(ms[i].points) \subseteq RoutePoints
  BY <1>2, ElementOfSeq, LenProperties, ChunkFields
<1>6. \A i, j \in DOMAIN ms : i # j => PointIds(ms[i].points) \cap PointIds(ms[j].points) = {}
  BY <1>2, ChunksDisjoint
<1>7. \A i \in DOMAIN ms : \A p \in PointIds(ms[i].points) : at(p) = i
  <2> SUFFICES ASSUME NEW i \in DOMAIN ms, NEW p \in PointIds(ms[i].points) PROVE at(p) = i
    OBVIOUS
  <2>1. \A j \in DOMAIN gs : p \in PointIds(ms[j].points) <=> j = i
    BY <1>2, <1>6
  <2> QED
    BY <1>2, <2>1
<1>8. index \in [RoutePoints -> Nat]
  <2> HIDE DEF at
  <2>1. \A p \in RoutePoints : index[p] \in Nat
    <3> SUFFICES ASSUME NEW p \in RoutePoints PROVE index[p] \in Nat
      OBVIOUS
    <3>1. CASE p \in gone
      BY <1>4, <3>1
    <3>2. CASE p \notin gone /\ Big(p)
      <4>1. PICK i \in DOMAIN ms : p \in PointIds(ms[i].points)
        BY <1>2, <3>2
      <4>2. index[p] = ms[i].id
        BY <1>4, <1>7, <3>2, <4>1
      <4> QED
        BY <1>5, <4>2
    <3>3. CASE p \notin gone /\ ~Big(p)
      BY <1>1, <1>4, <3>3
    <3> QED
      BY <3>1, <3>2, <3>3
  <2>2. index = [p \in RoutePoints |-> index[p]]
    BY DEF IndexLeft
  <2> HIDE DEF Big
  <2> QED
    BY <2>1, <2>2
<1> HIDE DEF at
<1>9. ASSUME NEW i \in DOMAIN ms, NEW p \in PointIds(ms[i].points)
      PROVE  index[p] = ms[i].id
  <2>1. p \in RoutePoints /\ p \notin gone
    <3>1. p \in PointIds(PointsOf(ms))
      BY <1>2, ChunkIdsIn
    <3> QED
      BY <1>3, <1>5, <3>1
  <2>2. CASE Big(p)
    BY <1>4, <1>7, <2>1, <2>2
  <2>3. CASE ~Big(p)
    <3>1. index[p] = r.index[p]
      BY <1>4, <2>1, <2>3
    <3> DEFINE g == gs[i]
    <3>2. g \in Seq(Chunks) /\ g # <<>> /\ ms[i].points = PointsOf(g) /\ ~(Len(g) > 1)
      BY <1>2, <2>3, MergedIs
    <3>3. PICK a \in DOMAIN g : ms[i].id = g[a].id
      BY <1>2, MergedIs
    <3>4. p \in PointIds(PointsOf(g))
      BY <1>9, <3>2
    <3> HIDE DEF g
    <3>5. Len(g) = 1 /\ DOMAIN g = 1..1
      <4>1. Len(g) \in Nat /\ DOMAIN g = 1..Len(g) /\ Len(g) # 0
        BY <3>2, EmptySeq, LenProperties
      <4>2. Len(g) = 1
        BY <3>2, <4>1
      <4> QED
        BY <4>1, <4>2
    <3>6. PICK b \in DOMAIN g : p \in PointIds(g[b].points)
      BY <3>2, <3>4, ChunkIdsIn
    <3>7. a = b
      BY <3>5
    <3>8. g[b] \in ToSet(gs[i])
      BY DEF ToSet, g
    <3>9. PICK l : Part(r.chunks, K, g[b], l)
      BY <1>2, <3>8, PartOf
    <3>10. r.index[p] = cs[l].id
      BY <1>1, <3>6, <3>9 DEF Part, Indexed
    <3>11. g[b].id = cs[l].id
      BY <3>9 DEF Part
    <3> QED
      BY <3>1, <3>3, <3>7, <3>10, <3>11
  <2> QED
    BY <2>2, <2>3
<1>10. ASSUME NEW p \in RoutePoints, \A i \in DOMAIN ms : p \notin PointIds(ms[i].points)
       PROVE  index[p] = 0
  <2>1. CASE p \in gone
    BY <1>4, <2>1
  <2>2. CASE p \notin gone
    <3>1. ~Big(p)
      BY <1>2, <1>10
    <3>2. p \notin PointIds(PointsOf(ms))
      BY <1>2, <1>10, ChunkIdsIn
    <3>3. p \notin PointIds(V)
      BY <1>3, <2>2, <3>2
    <3>4. r.index[p] = 0
      <4>1. \A i \in DOMAIN cs : p \notin PointIds(cs[i].points)
        BY <1>1, <3>3, ChunkIdsIn
      <4> QED
        BY <1>1, <4>1 DEF Indexed
    <3> QED
      BY <1>4, <2>2, <3>1, <3>4
  <2> QED
    BY <2>1, <2>2
<1> HIDE DEF Big
<1>11. Indexed(ms, index)
  BY <1>9, <1>10 DEF Indexed
<1> QED
  BY <1>8, <1>11

-----------------------------------------------------------------------------
(* Remove, ValidateStructure and DifferenceIds                             *)

\* Remove: however the chunks that are left are grouped and merged, the new version
\* holds the list without the points.
THEOREM RemoveHolds ==
    ASSUME NEW r, NEW s, Holds(r, s), NEW gone, gone # {}, gone \subseteq PointIds(s)
    PROVE  Holds(RemovePoints(r, gone), Only(s, {point \in ToSet(s) : Id(point) \notin gone}))
<1> DEFINE cs == r.chunks
           K == {q \in Points : Id(q) \notin gone}
           W == Only(s, K)
           q == RemovePoints(r, gone)
<1>1. Good(r) /\ PointsOf(cs) = s
  BY DEF Holds, PointIds
<1>2. s \in Seq(Points) /\ Distinct(s)
  BY HoldsIs
<1>3. \A u \in Seq(Points) : Only(u, {x \in ToSet(u) : Id(x) \notin gone}) = Only(u, K)
  <2> SUFFICES ASSUME NEW u \in Seq(Points)
               PROVE  Only(u, {x \in ToSet(u) : Id(x) \notin gone}) = Only(u, K)
    OBVIOUS
  <2> DEFINE S == {x \in ToSet(u) : Id(x) \notin gone}
  <2>1. ToSet(u) \subseteq Points
    BY ElementOfSeq, LenProperties DEF ToSet
  <2>2. ToSet(u) \cap S = ToSet(u) \cap K
    BY <2>1
  <2> HIDE DEF S, K
  <2>3. Only(u, S) = Only(u, K)
    BY <2>2, OnlySame
  <2> QED
    BY <2>3 DEF S
<1>4. Only(s, {point \in ToSet(s) : Id(point) \notin gone}) = W
  BY <1>2, <1>3
<1>5. /\ r \in RouteVersions /\ cs \in Seq(Chunks) /\ DOMAIN cs = 1..Len(cs) /\ Len(cs) \in Nat
      /\ r.size = Len(s) /\ r.fingerprint = ToSet(s) /\ r.next_chunk \in Nat
  BY <1>1, VersionFields DEF Good
<1>6. K = {x \in Points : Id(x) \notin gone}
  OBVIOUS
<1>7. /\ W \in Seq(Points) /\ Distinct(W) /\ Len(W) \in Nat /\ Cardinality(gone) \in Nat
      /\ Len(s) = Len(W) + Cardinality(gone) /\ Len(W) = Len(s) - Cardinality(gone)
      /\ ToSet(W) = {x \in ToSet(s) : Id(x) \notin gone}
  <2> HIDE DEF K
  <2>1. W \in Seq(Points) /\ ToSet(W) = {x \in ToSet(s) : Id(x) \notin gone}
    BY <1>2, <1>6, OnlyIds
  <2>2. Distinct(W)
    BY <1>2, DistinctOnly
  <2>3. /\ Cardinality(gone) \in Nat /\ Len(s) = Len(W) + Cardinality(gone)
        /\ Len(W) \in Nat /\ Len(W) = Len(s) - Cardinality(gone)
    BY <1>2, <1>6, RemovedSize
  <2> QED
    BY <2>1, <2>2, <2>3
<1>8. CASE r.size = Cardinality(gone)
  <2>1. q = Nil
    BY <1>8 DEF RemovePoints
  <2>2. Len(W) = 0
    BY <1>5, <1>7, <1>8
  <2>3. W = <<>>
    BY <1>7, <2>2, EmptySeq
  <2> QED
    BY <1>4, <2>1, <2>3 DEF Holds
<1>9. CASE r.size # Cardinality(gone)
  <2> DEFINE thin(chunk) == [chunk EXCEPT !.points = Only(@, {x \in ToSet(@) : Id(x) \notin gone})]
             ts == [i \in DOMAIN cs |-> thin(cs[i])]
             left == Only(ts, {chunk \in ToSet(ts) : chunk.points # <<>>})
             gs == Grouped(left)
             ms == [i \in DOMAIN gs |-> Merged(gs[i])]
             active == {ms[i].id : i \in DOMAIN ms}
             current(id) == ms[CHOOSE i \in DOMAIN ms : ms[i].id = id]
             stayed == Only(r.by_id, {chunk \in ToSet(r.by_id) : chunk.id \in active})
             by == [j \in DOMAIN stayed |-> current(stayed[j].id)]
             index == [p \in RoutePoints |->
               IF p \in gone THEN 0
               ELSE IF \E i \in DOMAIN gs : Len(gs[i]) > 1 /\ p \in PointIds(ms[i].points)
               THEN ms[CHOOSE i \in DOMAIN gs : p \in PointIds(ms[i].points)].id
               ELSE r.index[p]]
  <2>1. q = [r EXCEPT !.chunks = ms, !.by_id = by, !.index = index,
                      !.size = r.size - Cardinality(gone),
                      !.fingerprint = {x \in r.fingerprint : Id(x) \notin gone}]
    BY <1>5, <1>9 DEF RemovePoints, RouteVersions
  <2>2. Thinned(cs, ts, K)
    <3>1. ASSUME NEW i \in 1..Len(cs)
          PROVE  thin(cs[i]) \in Chunks /\ thin(cs[i]).id = cs[i].id
                 /\ thin(cs[i]).points = Only(cs[i].points, K)
      <4> DEFINE P == cs[i].points
      <4>1. cs[i] \in Chunks /\ P \in Seq(Points)
        BY <1>5, ElementOfSeq, ChunkFields
      <4>2. Only(P, {x \in ToSet(P) : Id(x) \notin gone}) = Only(P, K)
        BY <1>3, <4>1
      <4>3. Only(P, K) \in Seq(Points)
        BY <4>1, OnlyProperties
      <4> HIDE DEF K
      <4>4. thin(cs[i]) = [cs[i] EXCEPT !.points = Only(P, K)]
        BY <4>2
      <4> HIDE DEF thin
      <4> QED
        BY <4>1, <4>3, <4>4 DEF Chunks
    <3>2. DOMAIN ts = 1..Len(cs) /\ \A i \in 1..Len(cs) : ts[i] = thin(cs[i])
      BY <1>5
    <3> HIDE DEF thin
    <3>3. ts \in Seq(Chunks) /\ Len(ts) = Len(cs)
      <4>1. ts \in [1..Len(cs) -> Chunks]
        BY <1>5, <3>1
      <4> HIDE DEF ts
      <4> QED
        BY <1>5, <4>1
    <3> HIDE DEF ts, K
    <3> QED
      BY <3>1, <3>2, <3>3 DEF Thinned
  <2> HIDE DEF ts
  <2>3. left = Only(ts, Filled)
    <3>1. ts \in Seq(Chunks)
      BY <2>2 DEF Thinned
    <3>2. ToSet(ts) \subseteq Chunks
      BY <3>1, ElementOfSeq, LenProperties DEF ToSet
    <3>3. ToSet(ts) \cap {chunk \in ToSet(ts) : chunk.points # <<>>} = ToSet(ts) \cap Filled
      BY <3>2 DEF Filled
    <3> QED
      BY <3>1, <3>3, OnlySame
  <2> HIDE DEF left
  <2>4. Remnant(r, gone, K, ts, left, gs, ms)
    <3>1. ms = MergedAll(gs)
      BY DEF MergedAll
    <3> HIDE DEF gs, ms, K
    <3>2. gs = Grouped(left)
      BY DEF gs
    <3> QED
      BY <1>1, <1>6, <1>9, <2>2, <2>3, <3>1, <3>2 DEF Remnant, K
  <2> HIDE DEF K, gs, ms, W
  <2>5. /\ ms \in Seq(Chunks) /\ PointsOf(ms) = Only(PointsOf(r.chunks), K)
        /\ ms # <<>> /\ Distinct(PointsOf(ms))
    BY <2>4, RemnantIs
  <2>6. by \in Seq(Chunks) /\ Filed(ms, by, r.next_chunk)
    <3>1. ById(by, r, ms)
      BY DEF ById, Stayed
    <3> HIDE DEF by
    <3> QED
      BY <2>4, <3>1, RemnantFiled
  <2>7. index \in [RoutePoints -> Nat] /\ Indexed(ms, index)
    <3>1. IndexLeft(index, r, gone, gs, ms)
      BY DEF IndexLeft
    <3> HIDE DEF index
    <3> QED
      BY <2>4, <3>1, RemnantIndexed
  <2> HIDE DEF by, index, q
  <2>8. {x \in r.fingerprint : Id(x) \notin gone} = ToSet(W)
    BY <1>5, <1>7
  <2>9. ToSet(W) \in SUBSET Points /\ r.size - Cardinality(gone) = Len(W)
    BY <1>5, <1>7, ElementOfSeq, LenProperties DEF ToSet
  <2>10. q = [r EXCEPT !.chunks = ms, !.by_id = by, !.index = index,
                       !.size = Len(W), !.fingerprint = ToSet(W)]
    BY <2>1, <2>8, <2>9
  <2>11. /\ q \in RouteVersions /\ q.chunks = ms /\ q.by_id = by /\ q.index = index
         /\ q.size = Len(W) /\ q.fingerprint = ToSet(W) /\ q.next_chunk = r.next_chunk
    BY <1>5, <1>7, <2>5, <2>6, <2>7, <2>9, <2>10 DEF RouteVersions
  <2>12. PointsOf(ms) = W
    BY <1>1, <2>5 DEF W
  <2>13. Good(q)
    BY <2>5, <2>6, <2>7, <2>11, <2>12, GoodIs
  <2> QED
    BY <1>4, <2>11, <2>12, <2>13 DEF Holds, q
<1> QED
  BY <1>8, <1>9

(***************************************************************************)
(* The properties of a version                                             *)
(***************************************************************************)
\* ValidateStructure, without its clause on neighbours, accepts a version.
LEMMA GoodConsistent ==
    ASSUME NEW r, Good(r)
    PROVE  Consistent(r)
<1>1. /\ r.chunks \in Seq(Chunks) /\ r.next_chunk \in Nat /\ PointsOf(r.chunks) \in Seq(Points)
      /\ ToVector(r) = PointsOf(r.chunks)
      /\ Filed(r.chunks, r.by_id, r.next_chunk) /\ Indexed(r.chunks, r.index)
      /\ Distinct(PointsOf(r.chunks)) /\ r.size = Len(PointsOf(r.chunks))
      /\ r.fingerprint = ToSet(PointsOf(r.chunks))
  BY NotNone, VersionFields DEF Good
<1>2. /\ Len(r.chunks) = Len(r.by_id) /\ ToSet(r.chunks) = ToSet(r.by_id)
      /\ \A i, j \in DOMAIN r.by_id : i < j => r.by_id[i].id < r.by_id[j].id
  BY <1>1 DEF Filed
<1>3. \A i \in DOMAIN r.chunks : /\ Len(r.chunks[i].points) \in 1..ChunkCapacity
                                 /\ r.chunks[i].id < r.next_chunk
  BY <1>1 DEF Filed
<1>4. \A p \in RoutePoints :
          IF p \in PointIds(ToVector(r))
          THEN \E i \in DOMAIN r.chunks : r.chunks[i].id = r.index[p] /\ p \in PointIds(r.chunks[i].points)
          ELSE r.index[p] = 0
  <2> SUFFICES ASSUME NEW p \in RoutePoints
               PROVE  IF p \in PointIds(ToVector(r))
                      THEN \E i \in DOMAIN r.chunks : r.chunks[i].id = r.index[p]
                                                      /\ p \in PointIds(r.chunks[i].points)
                      ELSE r.index[p] = 0
    OBVIOUS
  <2>1. p \in PointIds(ToVector(r)) <=> \E i \in DOMAIN r.chunks : p \in PointIds(r.chunks[i].points)
    BY <1>1, ChunkIdsIn
  <2> QED
    BY <1>1, <2>1 DEF Indexed
<1>5. IsInjective(ToVector(r))
  BY <1>1 DEF Distinct, IsInjective
<1> QED
  BY <1>1, <1>2, <1>3, <1>4, <1>5 DEF Consistent

\* Every point is in one chunk, by its id.
LEMMA OwnChunk ==
    ASSUME NEW r, NEW s, Holds(r, s)
    PROVE  /\ \A p : p \in PointIds(s) <=> \E id \in ChunkIds(r) : p \in IdsOfChunk(r, id)
           /\ \A id : id \notin ChunkIds(r) => IdsOfChunk(r, id) = {}
           /\ \A id, jd : id # jd => IdsOfChunk(r, id) \cap IdsOfChunk(r, jd) = {}
<1>1. CASE r = Nil /\ s = <<>>
  BY <1>1 DEF PointIds, ChunkIds, IdsOfChunk
<1>2. CASE Good(r) /\ PointsOf(r.chunks) = s
  <2>1. /\ r # Nil /\ r.chunks \in Seq(Chunks) /\ Filed(r.chunks, r.by_id, r.next_chunk)
        /\ Distinct(PointsOf(r.chunks))
    BY <1>2, NotNone, VersionFields DEF Good
  <2>2. ChunkIds(r) = {r.chunks[c].id : c \in DOMAIN r.chunks}
    <3>1. \A i \in DOMAIN r.by_id : \E c \in DOMAIN r.chunks : r.by_id[i] = r.chunks[c]
      BY <2>1 DEF Filed, ToSet
    <3>2. \A c \in DOMAIN r.chunks : \E i \in DOMAIN r.by_id : r.by_id[i] = r.chunks[c]
      BY <2>1 DEF Filed, ToSet
    <3>3. ChunkIds(r) = {r.by_id[i].id : i \in DOMAIN r.by_id}
      BY <2>1 DEF ChunkIds
    <3> QED
      BY <3>1, <3>2, <3>3
  <2>3. \A id : id \notin ChunkIds(r) => IdsOfChunk(r, id) = {}
    BY DEF IdsOfChunk
  <2>4. \A c \in DOMAIN r.chunks : IdsOfChunk(r, r.chunks[c].id) = PointIds(r.chunks[c].points)
    <3> SUFFICES ASSUME NEW c \in DOMAIN r.chunks
                 PROVE  IdsOfChunk(r, r.chunks[c].id) = PointIds(r.chunks[c].points)
      OBVIOUS
    <3>1. FindChunk(r, r.chunks[c].id) = r.chunks[c]
      BY <1>2, FindChunkIs
    <3>2. r.chunks[c].id \in ChunkIds(r)
      BY <2>2
    <3> QED
      BY <3>1, <3>2 DEF IdsOfChunk
  <2>5. \A c, d \in DOMAIN r.chunks :
           c # d => PointIds(r.chunks[c].points) \cap PointIds(r.chunks[d].points) = {}
    BY <2>1, ChunksDisjoint
  <2>6. \A p : p \in PointIds(s) <=> \E c \in DOMAIN r.chunks : p \in PointIds(r.chunks[c].points)
    BY <1>2, <2>1, ChunkIdsIn
  <2>7. \A p : p \in PointIds(s) <=> \E id \in ChunkIds(r) : p \in IdsOfChunk(r, id)
    BY <2>2, <2>4, <2>6
  <2>8. ASSUME NEW id, NEW jd, id # jd
        PROVE  IdsOfChunk(r, id) \cap IdsOfChunk(r, jd) = {}
    <3>1. CASE id \notin ChunkIds(r) \/ jd \notin ChunkIds(r)
      BY <2>3, <3>1
    <3>2. CASE id \in ChunkIds(r) /\ jd \in ChunkIds(r)
      <4>1. PICK c, d \in DOMAIN r.chunks : id = r.chunks[c].id /\ jd = r.chunks[d].id
        BY <2>2, <3>2
      <4>2. c # d
        BY <2>8, <4>1
      <4> QED
        BY <2>4, <2>5, <4>1, <4>2
    <3> QED
      BY <3>1, <3>2
  <2> QED
    BY <2>3, <2>7, <2>8
<1> QED
  BY <1>1, <1>2 DEF Holds

\* DifferenceIds: of any two versions, whether they share chunks, reuse ids of chunks
\* or have points in other chunks, it is the difference of the lists that they hold.
THEOREM DifferenceIs ==
    ASSUME NEW r, NEW s, Holds(r, s), NEW other, NEW t, Holds(other, t)
    PROVE  DifferenceIds(r, other) = [added |-> PointIds(t) \ PointIds(s),
                                      removed |-> PointIds(s) \ PointIds(t)]
<1> DEFINE R(id) == IdsOfChunk(r, id)
           O(id) == IdsOfChunk(other, id)
           ids == ChunkIds(r) \cup ChunkIds(other)
           more == UNION {O(id) \ R(id) : id \in ids}
           less == UNION {R(id) \ O(id) : id \in ids}
<1>1. /\ \A p : p \in PointIds(s) <=> \E id \in ChunkIds(r) : p \in R(id)
      /\ \A id : id \notin ChunkIds(r) => R(id) = {}
      /\ \A id, jd : id # jd => R(id) \cap R(jd) = {}
  BY OwnChunk
<1>2. /\ \A p : p \in PointIds(t) <=> \E id \in ChunkIds(other) : p \in O(id)
      /\ \A id : id \notin ChunkIds(other) => O(id) = {}
      /\ \A id, jd : id # jd => O(id) \cap O(jd) = {}
  BY OwnChunk
<1>3. DifferenceIds(r, other) = [added |-> more \ less, removed |-> less \ more]
  BY DEF DifferenceIds, ChunkDifference
<1> HIDE DEF R, O
<1>4. \A p : p \in PointIds(s) <=> \E id \in ids : p \in R(id)
  BY <1>1
<1>5. \A p : p \in PointIds(t) <=> \E id \in ids : p \in O(id)
  BY <1>2
<1> HIDE DEF ids
<1>6. \A p : p \in more <=> \E id \in ids : p \in O(id) /\ p \notin R(id)
  OBVIOUS
<1>7. \A p : p \in less <=> \E id \in ids : p \in R(id) /\ p \notin O(id)
  OBVIOUS
<1> HIDE DEF more, less
<1>8. \A p : p \in more \ less <=> p \in PointIds(t) \ PointIds(s)
  BY <1>1, <1>2, <1>4, <1>5, <1>6, <1>7
<1>9. \A p : p \in less \ more <=> p \in PointIds(s) \ PointIds(t)
  BY <1>1, <1>2, <1>4, <1>5, <1>6, <1>7
<1>10. more \ less = PointIds(t) \ PointIds(s) /\ less \ more = PointIds(s) \ PointIds(t)
  BY <1>8, <1>9
<1> QED
  BY <1>3, <1>10

-----------------------------------------------------------------------------
(* The route of a link                                                     *)

(***************************************************************************)
(* The invariant                                                           *)
(***************************************************************************)

\* A version holds the points of a sequence, all of ids already given.
Given(r, s, next) == Holds(r, s) /\ PointIds(s) \subseteq 1..next - 1

\* The inductive invariant: the current version holds the list, the kept one what
\* it was kept with, and ids that are still to be given are in neither.
RouteInv ==
    /\ next_point \in Nat \ {0}
    /\ Given(route, list, next_point)
    /\ Given(kept, ToVector(kept), next_point)

LEMMA GivenMore ==
    ASSUME NEW r, NEW s, NEW n \in Nat \ {0}, Given(r, s, n)
    PROVE  Given(r, s, n + 1)
BY DEF Given

LEMMA RouteInitInv == RouteInit => RouteInv
<1> SUFFICES ASSUME RouteInit PROVE RouteInv
  OBVIOUS
<1>1. /\ StartSize \in Nat \ {0} /\ 1..StartSize \subseteq RoutePoints /\ 0 \in Places
      /\ list = [i \in 1..StartSize |-> <<i, 0>>]
      /\ route = FromVector(list) /\ kept = route /\ next_point = StartSize + 1
  BY RouteAssumption DEF RouteInit
<1>2. \A i \in 1..StartSize : <<i, 0>> \in Points
  BY <1>1 DEF Points
<1>3. list \in Seq(Points) /\ Len(list) = StartSize
  BY <1>1, <1>2
<1>4. list # <<>>
  BY <1>1, <1>3, EmptySeq
<1>5. DOMAIN list = 1..StartSize /\ \A i \in 1..StartSize : Id(list[i]) = i
  BY <1>1 DEF Id
<1>6. Distinct(list) /\ PointIds(list) \subseteq 1..StartSize
  BY <1>5 DEF Distinct, PointIds
<1>7. Good(route) /\ PointsOf(route.chunks) = list
  BY <1>1, <1>3, <1>4, <1>6, FromVectorGood
<1>8. Holds(route, list)
  BY <1>7 DEF Holds
<1>9. PointIds(list) \subseteq 1..next_point - 1 /\ next_point \in Nat \ {0}
  BY <1>1, <1>6
<1>10. ToVector(kept) = list
  BY <1>1, <1>8, HoldsIs
<1> QED
  BY <1>1, <1>8, <1>9, <1>10 DEF RouteInv, Given

LEMMA InsertStepInv ==
    ASSUME RouteInv, InsertStep
    PROVE  RouteInv'
<1>1. /\ next_point \in Nat \ {0} /\ Holds(route, list) /\ PointIds(list) \subseteq 1..next_point - 1
      /\ Given(kept, ToVector(kept), next_point)
  BY DEF RouteInv, Given
<1> DEFINE x == <<next_point, 0>>
<1>2. PICK index \in 0..SizeOf(route) :
        /\ next_point \in RoutePoints
        /\ route' = Insert(route, index, x) /\ list' = InsertAt(list, index + 1, x)
        /\ next_point' = next_point + 1 /\ kept' = kept
  BY DEF InsertStep
<1>3. x \in Points /\ Id(x) = next_point
  BY <1>2, RouteAssumption DEF Points, Id
<1>4. Id(x) \notin PointIds(list)
  BY <1>1, <1>3
<1> HIDE DEF x
<1>5. Holds(Insert(route, index, x), InsertAt(list, index + 1, x))
  BY <1>1, <1>3, <1>4, InsertHolds
<1>6. PointIds(list') = PointIds(list) \cup {next_point}
  <2>1. list \in Seq(Points) /\ Len(list) = SizeOf(route) /\ Len(list) \in Nat
    BY <1>1, HoldsIs, LenProperties
  <2>2. index + 1 \in 1..Len(list) + 1
    BY <2>1
  <2>3. PointIds(InsertAt(list, index + 1, x)) = PointIds(list) \cup {Id(x)}
    BY <1>3, <2>1, <2>2, InsertSets
  <2> QED
    BY <1>2, <1>3, <2>3
<1>7. PointIds(list') \subseteq 1..next_point' - 1 /\ next_point' \in Nat \ {0}
  BY <1>1, <1>2, <1>6
<1>8. Given(route', list', next_point')
  BY <1>2, <1>5, <1>7 DEF Given
<1>9. Given(kept, ToVector(kept), next_point + 1)
  BY <1>1, GivenMore
<1>10. Given(kept', ToVector(kept'), next_point')
  BY <1>2, <1>9
<1> QED
  BY <1>7, <1>8, <1>10 DEF RouteInv

LEMMA MoveStepInv ==
    ASSUME RouteInv, MoveStep
    PROVE  RouteInv'
<1>1. /\ next_point \in Nat \ {0} /\ Holds(route, list) /\ PointIds(list) \subseteq 1..next_point - 1
      /\ Given(kept, ToVector(kept), next_point)
  BY DEF RouteInv, Given
<1>2. PICK p \in RoutePoints, place \in Places :
        /\ Find(route, p) \notin {Nil, <<p, place>>}
        /\ route' = Move(route, p, place) /\ list' = MovedIn(list, p, <<p, place>>)
        /\ kept' = kept /\ next_point' = next_point
  BY DEF MoveStep, MovedIn
<1>3. Holds(Move(route, p, place), MovedIn(list, p, <<p, place>>))
  BY <1>1, <1>2, MoveHolds
<1>4. PointIds(MovedIn(list, p, <<p, place>>)) = PointIds(list)
  <2> DEFINE x == <<p, place>>
  <2>1. x \in Points /\ p = Id(x)
    BY DEF Points, Id
  <2>2. list \in Seq(Points)
    BY <1>1, HoldsIs
  <2> HIDE DEF x
  <2>3. PointIds(MovedIn(list, p, x)) = PointIds(list)
    BY <2>1, <2>2, MovedIs
  <2> QED
    BY <2>3 DEF x
<1>5. Given(route', list', next_point')
  BY <1>1, <1>2, <1>3, <1>4 DEF Given
<1> QED
  BY <1>1, <1>2, <1>5 DEF RouteInv

LEMMA RemoveStepInv ==
    ASSUME RouteInv, RemoveStep
    PROVE  RouteInv'
<1>1. /\ next_point \in Nat \ {0} /\ Holds(route, list) /\ PointIds(list) \subseteq 1..next_point - 1
      /\ Given(kept, ToVector(kept), next_point)
  BY DEF RouteInv, Given
<1>2. PICK gone \in (SUBSET RoutePoints) \ {{}} :
        /\ \A p \in gone : Find(route, p) # Nil
        /\ route' = RemovePoints(route, gone)
        /\ list' = Only(list, {point \in ToSet(list) : Id(point) \notin gone})
        /\ kept' = kept /\ next_point' = next_point
  BY DEF RemoveStep
<1>3. gone # {} /\ gone \subseteq PointIds(list)
  <2>1. gone \in SUBSET RoutePoints /\ gone # {} /\ Holds(route, list)
    BY <1>1, <1>2
  <2>2. ASSUME NEW p \in gone
        PROVE  p \in PointIds(list)
    <3>1. p \in RoutePoints /\ Find(route, p) # Nil
      BY <1>2, <2>1, <2>2
    <3> QED
      BY <2>1, <3>1, FoundIs
  <2> QED
    BY <2>1, <2>2
<1>4. Holds(RemovePoints(route, gone), list')
  BY <1>1, <1>2, <1>3, RemoveHolds
<1>5. PointIds(list') \subseteq PointIds(list)
  <2> DEFINE S == {point \in ToSet(list) : Id(point) \notin gone}
  <2>1. list \in Seq(Points)
    BY <1>1, HoldsIs
  <2>2. ToSet(Only(list, S)) = ToSet(list) \cap S
    BY <2>1, OnlyProperties
  <2>3. ToSet(list') \subseteq ToSet(list)
    BY <1>2, <2>2
  <2> HIDE DEF S
  <2>4. PointIds(list) = {Id(y) : y \in ToSet(list)} /\ PointIds(list') = {Id(y) : y \in ToSet(list')}
    BY IdsOfSet
  <2> QED
    BY <2>3, <2>4
<1>6. Given(route', list', next_point')
  BY <1>1, <1>2, <1>4, <1>5 DEF Given
<1> QED
  BY <1>1, <1>2, <1>6 DEF RouteInv

LEMMA RouteNextInv == RouteInv /\ [RouteNext]_routeVars => RouteInv'
<1> SUFFICES ASSUME RouteInv, [RouteNext]_routeVars
             PROVE  RouteInv'
  OBVIOUS
<1>1. CASE InsertStep
  BY <1>1, InsertStepInv
<1>2. CASE MoveStep
  BY <1>2, MoveStepInv
<1>3. CASE RemoveStep
  BY <1>3, RemoveStepInv
<1>4. CASE KeepStep
  <2>1. kept' = route /\ route' = route /\ next_point' = next_point /\ list' = list
    BY <1>4 DEF KeepStep
  <2>2. ToVector(route) = list
    BY HoldsIs DEF RouteInv, Given
  <2> QED
    BY <2>1, <2>2 DEF RouteInv
<1>5. CASE RestoreStep
  BY <1>5 DEF RestoreStep, RouteInv
<1>6. CASE UNCHANGED routeVars
  BY <1>6 DEF routeVars, RouteInv
<1> QED
  BY <1>1, <1>2, <1>3, <1>4, <1>5, <1>6 DEF RouteNext

LEMMA RouteInvProperties == RouteInv => RouteConsistent /\ DifferenceExact
<1> SUFFICES ASSUME RouteInv PROVE RouteConsistent /\ DifferenceExact
  OBVIOUS
<1>1. Holds(route, list) /\ Holds(kept, ToVector(kept))
  BY DEF RouteInv, Given
<1>2. ToVector(route) = list
  BY <1>1, HoldsIs
<1>3. \A r \in {route, kept} : r # Nil => Consistent(r)
  BY <1>1, GoodConsistent DEF Holds
<1>4. RouteConsistent
  BY <1>2, <1>3 DEF RouteConsistent
<1>5. DifferenceIds(kept, route) =
          [added |-> PointIds(list) \ PointIds(ToVector(kept)),
           removed |-> PointIds(ToVector(kept)) \ PointIds(list)]
  BY <1>1, DifferenceIs
<1>6. DifferenceIds(route, kept) =
          [added |-> PointIds(ToVector(kept)) \ PointIds(list),
           removed |-> PointIds(list) \ PointIds(ToVector(kept))]
  BY <1>1, DifferenceIs
<1>7. DifferenceExact
  BY <1>5, <1>6 DEF DifferenceExact
<1> QED
  BY <1>4, <1>7

\* The inductive invariant holds in every behaviour of edits, keeps and restores
\* of a link's route (GraphPresentation and the commands that revert it).
THEOREM RouteInvariant == RouteSpec => []RouteInv
<1> QED
  BY RouteInitInv, RouteNextInv, PTL DEF RouteSpec

\* Through every such behaviour the version that PersistentRoutePointSequence
\* computes holds the points of the plain list, and passes the index oracle, as
\* does the version that a command keeps while its chunks are shared.
THEOREM RoutesConsistent == RouteSpec => []RouteConsistent
<1> QED
  BY RouteInvariant, RouteInvProperties, PTL

\* What SetLink updates the owners of points from is what was added and removed.
THEOREM DifferencesExact == RouteSpec => []DifferenceExact
<1> QED
  BY RouteInvariant, RouteInvProperties, PTL
=============================================================================
