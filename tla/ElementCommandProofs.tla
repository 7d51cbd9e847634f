------------------------ MODULE ElementCommandProofs ------------------------
(***************************************************************************)
(* The commands on what a graph already has (names, protection, groups,    *)
(* what is shown of nodes and links, routes, links and dynamic pins) keep  *)
(* it valid, leave what is protected alone and can be taken back and done  *)
(* again, for any nodes, links, groups, route points and documents.  The   *)
(* other commands and the history are those of GraphElementsProofs.        *)
(*                                                                         *)
(* For an operation X of a transaction, XIs says what X leads to if it is  *)
(* not refused, what it asked of protection, and when a transaction that   *)
(* does not enforce protection never refuses it.  Where X is a fold over a *)
(* set, the relation that it keeps after each element is named, FoldsExist *)
(* gives the fold and SubsetInduct the induction over it; Iterates and     *)
(* Induct do the same for a list.  For a command, XUndoes says that what   *)
(* it leads to is valid and spares what is protected, and that Revert,     *)
(* with what was captured at the first Apply, gives back the document.     *)
(***************************************************************************)
EXTENDS GraphElements, FiniteSetTheorems, NaturalsInduction, SequenceTheorems,
        WellFoundedInduction, TLAPS

-----------------------------------------------------------------------------
(* Inductions                                                              *)

LEMMA Induct ==
    ASSUME NEW N \in Nat, NEW T, 0 \in T, \A n \in 0..N : n < N /\ n \in T => n + 1 \in T
    PROVE  \A n \in 0..N : n \in T
<1> DEFINE R == OpToRel(<, Nat)
           Out == {n \in 0..N : n \notin T}
<1>1. IsWellFoundedOn(R, Nat)
  BY NatLessThanWellFounded
<1>2. \A m, n \in Nat : <<n, m>> \in R <=> n < m
  BY DEF OpToRel
<1> HIDE DEF R
<1> SUFFICES ASSUME Out # {} PROVE FALSE
  OBVIOUS
<1>3. PICK m \in Out : \A n \in Out : ~(<<n, m>> \in R)
  <2>1. Out \subseteq Nat
    OBVIOUS
  <2> HIDE DEF Out
  <2> QED
    BY <1>1, <2>1, WFMin
<1>4. m \in Nat /\ m <= N /\ m # 0 /\ m \notin T
  OBVIOUS
<1> DEFINE p == m - 1
<1>5. p \in 0..N /\ p < N /\ p + 1 = m /\ p < m /\ p \in Nat
  BY <1>4
<1>6. p \notin Out
  <2> HIDE DEF Out, p
  <2> QED
    BY <1>2, <1>3, <1>4, <1>5
<1>7. p \in T
  BY <1>5, <1>6
<1> HIDE DEF p
<1> QED
  BY <1>4, <1>5, <1>7

\* A list of values, each computed from the one before.
Iterations(N, V, v, step) ==
    {f \in [0..N -> V] : f[0] = v /\ \A i \in 1..N : f[i] = step[<<i, f[i - 1]>>]}
LEMMA Iterates ==
    ASSUME NEW N \in Nat, NEW V, NEW v \in V, NEW step \in [(1..N) \X V -> V]
    PROVE  Iterations(N, V, v, step) # {}
<1> DEFINE Is(f, n) == f[0] = v /\ \A i \in 1..n : f[i] = step[<<i, f[i - 1]>>]
           T == {n \in 0..N : \E f \in [0..n -> V] : Is(f, n)}
<1>1. 0 \in T
  <2>1. [i \in 0..0 |-> v] \in [0..0 -> V] /\ Is([i \in 0..0 |-> v], 0)
    OBVIOUS
  <2>2. 0 \in 0..N
    OBVIOUS
  <2> HIDE DEF Is
  <2> QED
    BY <2>1, <2>2
<1>2. ASSUME NEW n \in 0..N, n < N, n \in T PROVE n + 1 \in T
  <2>1. PICK f \in [0..n -> V] : Is(f, n)
    BY <1>2
  <2> DEFINE g == [i \in 0..(n + 1) |-> IF i = n + 1 THEN step[<<n + 1, f[n]>>] ELSE f[i]]
  <2>2. <<n + 1, f[n]>> \in (1..N) \X V
    BY <1>2
  <2>3. g \in [0..(n + 1) -> V]
    BY <2>2
  <2>4. g[0] = f[0] /\ \A i \in 1..n : g[i] = f[i] /\ g[i - 1] = f[i - 1]
    OBVIOUS
  <2>5. g[n + 1] = step[<<n + 1, g[(n + 1) - 1]>>]
    <3>1. (n + 1) - 1 = n /\ n # n + 1 /\ n \in 0..(n + 1) /\ n + 1 \in 0..(n + 1)
      OBVIOUS
    <3>2. g[n] = f[n] /\ g[n + 1] = step[<<n + 1, f[n]>>]
      BY <3>1
    <3> HIDE DEF g
    <3> QED
      BY <3>1, <3>2
  <2> HIDE DEF g
  <2>6. Is(g, n + 1)
    <3> SUFFICES ASSUME NEW i \in 1..(n + 1) PROVE g[i] = step[<<i, g[i - 1]>>]
      BY <2>1, <2>4
    <3> QED
      BY <2>1, <2>4, <2>5
  <2> QED
    BY <2>3, <2>6, <1>2
<1> HIDE DEF T
<1>3. N \in T
  BY <1>1, <1>2, Induct
<1> QED
  BY <1>3 DEF T, Iterations

-----------------------------------------------------------------------------
(* The orders of the pins of a node                                        *)

Dynamic(values, p) == values[p].storage = "dynamic"

LEMMA SameSequence ==
    ASSUME NEW S, NEW s \in Seq(S), NEW t \in Seq(S), Len(s) = Len(t),
           \A i \in 1..Len(s) : s[i] = t[i]
    PROVE  s = t
<1>1. s = [i \in 1..Len(s) |-> s[i]] /\ t = [i \in 1..Len(t) |-> t[i]]
  OBVIOUS
<1> QED
  BY <1>1

LEMMA InsertAtIs ==
    ASSUME NEW S, NEW s \in Seq(S), NEW k \in 1..(Len(s) + 1), NEW x \in S
    PROVE  /\ InsertAt(s, k, x) \in Seq(S)
           /\ Len(InsertAt(s, k, x)) = Len(s) + 1
           /\ \A i \in 1..(Len(s) + 1) :
                 InsertAt(s, k, x)[i] = IF i < k THEN s[i] ELSE IF i = k THEN x ELSE s[i - 1]
<1> DEFINE a == SubSeq(s, 1, k - 1)
           b == SubSeq(s, k, Len(s))
<1>1. /\ a \in Seq(S) /\ Len(a) = k - 1 /\ \A i \in 1..(k - 1) : a[i] = s[i]
      /\ b \in Seq(S) /\ Len(b) = Len(s) - k + 1
      /\ \A i \in 1..(Len(s) - k + 1) : b[i] = s[k + i - 1]
  OBVIOUS
<1>2. InsertAt(s, k, x) = (a \o <<x>>) \o b
  BY DEF InsertAt
<1> HIDE DEF a, b
<1>3. /\ a \o <<x>> \in Seq(S) /\ Len(a \o <<x>>) = k
      /\ \A i \in 1..k : (a \o <<x>>)[i] = IF i < k THEN s[i] ELSE x
  <2>1. <<x>> \in Seq(S) /\ Len(<<x>>) = 1 /\ <<x>>[1] = x
    OBVIOUS
  <2> DEFINE y == <<x>>
  <2> HIDE DEF y
  <2>2. /\ a \o y \in Seq(S) /\ Len(a \o y) = Len(a) + Len(y)
        /\ \A i \in 1..(Len(a) + Len(y)) :
              (a \o y)[i] = IF i <= Len(a) THEN a[i] ELSE y[i - Len(a)]
    BY <1>1, <2>1, ConcatProperties DEF y
  <2>3. Len(y) = 1 /\ y[1] = x
    BY <2>1 DEF y
  <2>4. Len(a) + Len(y) = k
    BY <1>1, <2>3
  <2>5. ASSUME NEW i \in 1..k PROVE (a \o y)[i] = IF i < k THEN s[i] ELSE x
    BY <1>1, <2>2, <2>3, <2>4
  <2> QED
    BY <2>2, <2>4, <2>5 DEF y
<1> DEFINE c == a \o <<x>>
<1> HIDE DEF c
<1>4. /\ c \in Seq(S) /\ Len(c) = k /\ \A i \in 1..k : c[i] = IF i < k THEN s[i] ELSE x
      /\ InsertAt(s, k, x) = c \o b
  BY <1>2, <1>3 DEF c
<1>5. /\ c \o b \in Seq(S) /\ Len(c \o b) = Len(s) + 1
      /\ \A i \in 1..(Len(s) + 1) : (c \o b)[i] = IF i <= k THEN c[i] ELSE b[i - k]
  <2>1. /\ c \o b \in Seq(S) /\ Len(c \o b) = Len(c) + Len(b)
        /\ \A i \in 1..(Len(c) + Len(b)) :
              (c \o b)[i] = IF i <= Len(c) THEN c[i] ELSE b[i - Len(c)]
    BY <1>1, <1>4, ConcatProperties
  <2>2. Len(c) + Len(b) = Len(s) + 1 /\ Len(c) = k
    BY <1>1, <1>4
  <2> QED
    BY <2>1, <2>2
<1>6. ASSUME NEW i \in 1..(Len(s) + 1), i > k PROVE b[i - k] = s[i - 1]
  <2>1. i - k \in 1..(Len(s) - k + 1) /\ k + (i - k) - 1 = i - 1
    BY <1>6
  <2> QED
    BY <1>1, <2>1
<1>7. \A i \in 1..(Len(s) + 1) : i <= k => i \in 1..k
  OBVIOUS
<1> QED
  BY <1>4, <1>5, <1>6, <1>7

LEMMA RemoveAtIs ==
    ASSUME NEW S, NEW s \in Seq(S), NEW k \in 1..Len(s)
    PROVE  /\ RemoveAt(s, k) \in Seq(S)
           /\ Len(RemoveAt(s, k)) = Len(s) - 1
           /\ \A i \in 1..(Len(s) - 1) :
                 RemoveAt(s, k)[i] = IF i < k THEN s[i] ELSE s[i + 1]
<1> DEFINE a == SubSeq(s, 1, k - 1)
           b == SubSeq(s, k + 1, Len(s))
<1>1. /\ a \in Seq(S) /\ Len(a) = k - 1 /\ \A i \in 1..(k - 1) : a[i] = s[i]
      /\ b \in Seq(S) /\ Len(b) = Len(s) - k
      /\ \A i \in 1..(Len(s) - k) : b[i] = s[k + i]
  OBVIOUS
<1>2. RemoveAt(s, k) = a \o b
  BY DEF RemoveAt
<1> HIDE DEF a, b
<1>3. /\ a \o b \in Seq(S) /\ Len(a \o b) = Len(s) - 1
      /\ \A i \in 1..(Len(s) - 1) : (a \o b)[i] = IF i < k THEN a[i] ELSE b[i - (k - 1)]
  <2>1. /\ a \o b \in Seq(S) /\ Len(a \o b) = Len(a) + Len(b)
        /\ \A i \in 1..(Len(a) + Len(b)) :
              (a \o b)[i] = IF i <= Len(a) THEN a[i] ELSE b[i - Len(a)]
    BY <1>1, ConcatProperties
  <2>2. Len(a) + Len(b) = Len(s) - 1 /\ Len(a) = k - 1
    BY <1>1
  <2>3. \A i \in 1..(Len(s) - 1) : i <= k - 1 <=> i < k
    OBVIOUS
  <2> QED
    BY <2>1, <2>2, <2>3
<1>4. ASSUME NEW i \in 1..(Len(s) - 1), ~(i < k) PROVE b[i - (k - 1)] = s[i + 1]
  <2>1. i - (k - 1) \in 1..(Len(s) - k) /\ k + (i - (k - 1)) = i + 1
    BY <1>4
  <2> QED
    BY <1>1, <2>1
<1>5. \A i \in 1..(Len(s) - 1) : i < k => i \in 1..(k - 1)
  OBVIOUS
<1> QED
  BY <1>1, <1>2, <1>3, <1>4, <1>5

\* What is inserted and taken out again leaves no trace.
LEMMA InsertThenRemove ==
    ASSUME NEW S, NEW s \in Seq(S), NEW k \in 1..(Len(s) + 1), NEW x \in S
    PROVE  RemoveAt(InsertAt(s, k, x), k) = s
<1> DEFINE t == InsertAt(s, k, x)
<1>1. /\ t \in Seq(S) /\ Len(t) = Len(s) + 1
      /\ \A i \in 1..(Len(s) + 1) : t[i] = IF i < k THEN s[i] ELSE IF i = k THEN x ELSE s[i - 1]
  <2>1. /\ InsertAt(s, k, x) \in Seq(S)
        /\ Len(InsertAt(s, k, x)) = Len(s) + 1
        /\ \A i \in 1..(Len(s) + 1) :
              InsertAt(s, k, x)[i] = IF i < k THEN s[i] ELSE IF i = k THEN x ELSE s[i - 1]
    BY InsertAtIs
  <2> QED
    BY <2>1
<1> HIDE DEF t
<1>2. k \in 1..Len(t) /\ Len(t) - 1 = Len(s) /\ Len(s) \in Nat
  BY <1>1
<1>3. /\ RemoveAt(t, k) \in Seq(S) /\ Len(RemoveAt(t, k)) = Len(s)
      /\ \A i \in 1..Len(s) : RemoveAt(t, k)[i] = IF i < k THEN t[i] ELSE t[i + 1]
  BY <1>1, <1>2, RemoveAtIs
<1>4. ASSUME NEW i \in 1..Len(s) PROVE RemoveAt(t, k)[i] = s[i]
  <2>1. RemoveAt(t, k)[i] = IF i < k THEN t[i] ELSE t[i + 1]
    BY <1>3
  <2>2. CASE i < k
    <3>1. i \in 1..(Len(s) + 1)
      BY <1>2
    <3>2. t[i] = s[i]
      BY <1>1, <2>2, <3>1
    <3> QED
      BY <2>1, <2>2, <3>2
  <2>3. CASE ~(i < k)
    <3>1. i + 1 \in 1..(Len(s) + 1) /\ ~(i + 1 < k) /\ i + 1 # k /\ (i + 1) - 1 = i
      BY <1>2, <2>3
    <3>2. t[i + 1] = s[i]
      BY <1>1, <3>1
    <3> QED
      BY <2>1, <2>3, <3>2
  <2> QED
    BY <2>2, <2>3
<1>5. RemoveAt(t, k) = s
  BY <1>3, <1>4, SameSequence
<1> QED
  BY <1>5 DEF t

LEMMA RemoveThenInsert ==
    ASSUME NEW S, NEW s \in Seq(S), NEW k \in 1..Len(s)
    PROVE  InsertAt(RemoveAt(s, k), k, s[k]) = s
<1> DEFINE t == RemoveAt(s, k)
<1>1. /\ t \in Seq(S) /\ Len(t) = Len(s) - 1 /\ Len(s) \in Nat /\ s[k] \in S
      /\ \A i \in 1..(Len(s) - 1) : t[i] = IF i < k THEN s[i] ELSE s[i + 1]
  BY RemoveAtIs
<1> HIDE DEF t
<1>2. k \in 1..(Len(t) + 1) /\ Len(t) + 1 = Len(s)
  BY <1>1
<1> DEFINE u == InsertAt(t, k, s[k])
<1>3. /\ u \in Seq(S) /\ Len(u) = Len(s)
      /\ \A i \in 1..Len(s) : u[i] = IF i < k THEN t[i] ELSE IF i = k THEN s[k] ELSE t[i - 1]
  <2> DEFINE x == s[k]
  <2>1. x \in S
    OBVIOUS
  <2> HIDE DEF x
  <2>2. /\ InsertAt(t, k, x) \in Seq(S)
        /\ Len(InsertAt(t, k, x)) = Len(t) + 1
        /\ \A i \in 1..(Len(t) + 1) :
              InsertAt(t, k, x)[i] = IF i < k THEN t[i] ELSE IF i = k THEN x ELSE t[i - 1]
    BY <1>1, <1>2, <2>1, InsertAtIs
  <2> QED
    BY <1>2, <2>2 DEF x
<1> HIDE DEF u
<1>4. ASSUME NEW i \in 1..Len(s) PROVE u[i] = s[i]
  <2>1. u[i] = IF i < k THEN t[i] ELSE IF i = k THEN s[k] ELSE t[i - 1]
    BY <1>3
  <2>2. CASE i < k
    <3>1. i \in 1..(Len(s) - 1)
      BY <1>1, <2>2
    <3> QED
      BY <1>1, <2>1, <2>2, <3>1
  <2>3. CASE i = k
    BY <2>1, <2>3
  <2>4. CASE i > k
    <3>1. i - 1 \in 1..(Len(s) - 1) /\ ~(i - 1 < k) /\ (i - 1) + 1 = i /\ ~(i < k) /\ i # k
      BY <1>1, <2>4
    <3>2. t[i - 1] = s[i]
      BY <1>1, <3>1
    <3> QED
      BY <2>1, <3>1, <3>2
  <2> QED
    BY <2>2, <2>3, <2>4
<1>5. u = s
  BY <1>3, <1>4, SameSequence
<1> QED
  BY <1>5 DEF u, t

LEMMA StaticIs ==
    ASSUME NEW pins \in Seq(Pins), NEW values
    PROVE  LET static == StaticAmong(pins, values) IN
           /\ static \in [0..Len(pins) -> Seq(Pins)]
           /\ static[0] = <<>>
           /\ \A i \in 1..Len(pins) :
                 static[i] = IF Dynamic(values, pins[i]) THEN static[i - 1]
                             ELSE Append(static[i - 1], pins[i])
<1> DEFINE N == Len(pins)
           Rest(s, i) == IF Dynamic(values, pins[i]) THEN s ELSE Append(s, pins[i])
           Loop(f) == f = [i \in 0..N |-> IF i = 0 THEN <<>> ELSE Rest(f[i - 1], i)]
           step == [x \in (1..N) \X Seq(Pins) |-> Rest(x[2], x[1])]
<1>1. N \in Nat /\ <<>> \in Seq(Pins) /\ \A i \in 1..N : pins[i] \in Pins
  OBVIOUS
<1>2. step \in [(1..N) \X Seq(Pins) -> Seq(Pins)]
  BY <1>1
<1>3. PICK g \in [0..N -> Seq(Pins)] : g[0] = <<>> /\ \A i \in 1..N : g[i] = step[<<i, g[i - 1]>>]
  <2> DEFINE V == Seq(Pins)
             e == <<>>
  <2>1. e \in V /\ step \in [(1..N) \X V -> V] /\ N \in Nat
    BY <1>1, <1>2
  <2> HIDE DEF N, step, V, e
  <2>2. Iterations(N, V, e, step) # {}
    BY <2>1, Iterates
  <2> QED
    BY <2>2 DEF V, e, Iterations
<1>4. ASSUME NEW i \in 1..N PROVE g[i] = Rest(g[i - 1], i)
  <2>1. i - 1 \in 0..N /\ g[i - 1] \in Seq(Pins)
    BY <1>1, <1>3
  <2>2. <<i, g[i - 1]>> \in (1..N) \X Seq(Pins)
    BY <2>1
  <2> HIDE DEF Rest
  <2> QED
    BY <1>3, <2>2
<1>5. Loop(g)
  <2>1. g = [i \in 0..N |-> g[i]]
    BY <1>3
  <2>2. \A i \in 0..N : i # 0 => i \in 1..N
    BY <1>1
  <2> HIDE DEF Rest, N
  <2> QED
    BY <1>3, <1>4, <2>1, <2>2
<1>6. ASSUME NEW f, Loop(f) PROVE f = g
  <2> DEFINE T == {i \in 0..N : f[i] = g[i]}
  <2>1. 0 \in T
    BY <1>1, <1>3, <1>6
  <2>2. ASSUME NEW i \in 0..N, i < N, i \in T PROVE i + 1 \in T
    <3>1. i + 1 \in 1..N /\ i + 1 \in 0..N /\ (i + 1) - 1 = i /\ i + 1 # 0 /\ f[i] = g[i]
      BY <1>1, <2>2
    <3>2. f[i + 1] = Rest(f[(i + 1) - 1], i + 1)
      <4> HIDE DEF Rest, N
      <4> QED
        BY <1>6, <3>1
    <3>3. g[i + 1] = Rest(g[(i + 1) - 1], i + 1)
      <4> HIDE DEF Rest, N
      <4> QED
        BY <1>4, <3>1
    <3> HIDE DEF Rest
    <3> QED
      BY <3>1, <3>2, <3>3
  <2> HIDE DEF T
  <2>3. \A i \in 0..N : i \in T
    <3> HIDE DEF N
    <3> QED
      BY <1>1, <2>1, <2>2, Induct
  <2>4. f = [i \in 0..N |-> f[i]]
    <3> HIDE DEF Rest, N
    <3> QED
      BY <1>6
  <2> HIDE DEF Loop, N
  <2> QED
    BY <1>3, <2>3, <2>4 DEF T
<1>7. StaticAmong(pins, values) = CHOOSE f : Loop(f)
  BY DEF StaticAmong, Dynamic
<1>8. StaticAmong(pins, values) = g
  <2> HIDE DEF Loop
  <2> QED
    BY <1>5, <1>6, <1>7
<1> HIDE DEF step, Loop
<1> QED
  BY <1>3, <1>4, <1>8

\* The orders agree as far as the lists of pins do.
LEMMA StaticSame ==
    ASSUME NEW pins \in Seq(Pins), NEW values, NEW qins \in Seq(Pins), NEW walues,
           NEW m \in Nat, m <= Len(pins), m <= Len(qins),
           \A i \in 1..m : /\ Dynamic(values, pins[i]) <=> Dynamic(walues, qins[i])
                           /\ ~Dynamic(values, pins[i]) => pins[i] = qins[i]
    PROVE  \A i \in 0..m : StaticAmong(pins, values)[i] = StaticAmong(qins, walues)[i]
<1> DEFINE s == StaticAmong(pins, values)
           t == StaticAmong(qins, walues)
           T == {i \in 0..m : s[i] = t[i]}
<1>1. /\ s[0] = <<>>
      /\ \A i \in 1..Len(pins) : s[i] = IF Dynamic(values, pins[i]) THEN s[i - 1]
                                        ELSE Append(s[i - 1], pins[i])
  BY StaticIs
<1>2. /\ t[0] = <<>>
      /\ \A i \in 1..Len(qins) : t[i] = IF Dynamic(walues, qins[i]) THEN t[i - 1]
                                        ELSE Append(t[i - 1], qins[i])
  BY StaticIs
<1> HIDE DEF s, t
<1>3. 0 \in T
  BY <1>1, <1>2
<1>4. ASSUME NEW i \in 0..m, i < m, i \in T PROVE i + 1 \in T
  <2>1. /\ i + 1 \in 1..Len(pins) /\ i + 1 \in 1..Len(qins) /\ (i + 1) - 1 = i
        /\ i + 1 \in 1..m /\ i + 1 \in 0..m /\ s[i] = t[i]
    BY <1>4
  <2>2. s[i + 1] = IF Dynamic(values, pins[i + 1]) THEN s[i] ELSE Append(s[i], pins[i + 1])
    BY <1>1, <2>1
  <2>3. t[i + 1] = IF Dynamic(walues, qins[i + 1]) THEN t[i] ELSE Append(t[i], qins[i + 1])
    BY <1>2, <2>1
  <2>4. /\ Dynamic(values, pins[i + 1]) <=> Dynamic(walues, qins[i + 1])
        /\ ~Dynamic(values, pins[i + 1]) => pins[i + 1] = qins[i + 1]
    BY <2>1
  <2> QED
    BY <2>1, <2>2, <2>3, <2>4
<1> HIDE DEF T
<1>5. \A i \in 0..m : i \in T
  BY <1>3, <1>4, Induct
<1> QED
  BY <1>5 DEF T, s, t

\* A dynamic pin that is inserted changes nothing in the static ones.
LEMMA StaticInsert ==
    ASSUME NEW pins \in Seq(Pins), NEW values, NEW walues,
           NEW k \in 1..(Len(pins) + 1), NEW p \in Pins, Dynamic(walues, p),
           \A i \in 1..Len(pins) : Dynamic(values, pins[i]) <=> Dynamic(walues, pins[i])
    PROVE  StaticAmong(InsertAt(pins, k, p), walues)[Len(pins) + 1] =
              StaticAmong(pins, values)[Len(pins)]
<1> DEFINE qins == InsertAt(pins, k, p)
           N == Len(pins)
<1>1. /\ qins \in Seq(Pins) /\ Len(qins) = N + 1 /\ N \in Nat
      /\ \A i \in 1..(N + 1) :
            qins[i] = IF i < k THEN pins[i] ELSE IF i = k THEN p ELSE pins[i - 1]
  BY InsertAtIs
<1> HIDE DEF qins
<1> DEFINE s == StaticAmong(pins, values)
           t == StaticAmong(qins, walues)
           T == {i \in 0..(N + 1) : t[i] = IF i < k THEN s[i] ELSE s[i - 1]}
<1>2. /\ s[0] = <<>>
      /\ \A i \in 1..N : s[i] = IF Dynamic(values, pins[i]) THEN s[i - 1]
                                ELSE Append(s[i - 1], pins[i])
  BY StaticIs
<1>3. /\ t[0] = <<>>
      /\ \A i \in 1..(N + 1) : t[i] = IF Dynamic(walues, qins[i]) THEN t[i - 1]
                                      ELSE Append(t[i - 1], qins[i])
  BY <1>1, StaticIs
<1> HIDE DEF s, t
<1>4. 0 \in T
  BY <1>1, <1>2, <1>3
<1>5. ASSUME NEW i \in 0..(N + 1), i < N + 1, i \in T PROVE i + 1 \in T
  <2>1. /\ i + 1 \in 1..(N + 1) /\ (i + 1) - 1 = i /\ i + 1 \in 0..(N + 1) /\ i \in Nat
        /\ t[i] = IF i < k THEN s[i] ELSE s[i - 1]
    BY <1>1, <1>5
  <2>2. t[i + 1] = IF Dynamic(walues, qins[i + 1]) THEN t[i] ELSE Append(t[i], qins[i + 1])
    BY <1>3, <2>1
  <2>3. qins[i + 1] = IF i + 1 < k THEN pins[i + 1] ELSE IF i + 1 = k THEN p ELSE pins[i]
    BY <1>1, <2>1
  <2>4. CASE i + 1 < k
    <3>1. i + 1 \in 1..N /\ i < k
      BY <1>1, <2>4
    <3>2. s[i + 1] = IF Dynamic(values, pins[i + 1]) THEN s[i] ELSE Append(s[i], pins[i + 1])
      BY <1>2, <2>1, <3>1
    <3>3. t[i + 1] = s[i + 1]
      BY <2>1, <2>2, <2>3, <2>4, <3>1, <3>2
    <3> QED
      BY <2>1, <2>4, <3>3
  <2>5. CASE i + 1 = k
    <3>1. i < k /\ ~(i + 1 < k)
      BY <1>1, <2>5
    <3>2. t[i + 1] = s[i]
      BY <2>1, <2>2, <2>3, <2>5, <3>1
    <3> QED
      BY <2>1, <3>1, <3>2
  <2>6. CASE i + 1 > k
    <3>1. i \in 1..N /\ ~(i < k) /\ ~(i + 1 < k) /\ i + 1 # k
      <4>1. k \in Nat /\ k >= 1 /\ i \in Nat /\ i <= N /\ N \in Nat
        BY <1>1, <1>5
      <4> QED
        BY <2>6, <4>1
    <3>2. s[i] = IF Dynamic(values, pins[i]) THEN s[i - 1] ELSE Append(s[i - 1], pins[i])
      BY <1>2, <3>1
    <3>3. t[i + 1] = s[i]
      BY <2>1, <2>2, <2>3, <3>1, <3>2
    <3> QED
      BY <2>1, <3>1, <3>3
  <2> QED
    BY <1>1, <2>1, <2>4, <2>5, <2>6
<1> HIDE DEF T
<1>6. N + 1 \in Nat
  BY <1>1
<1>7. \A i \in 0..(N + 1) : i \in T
  <2> DEFINE M == N + 1
  <2> HIDE DEF M, N
  <2>1. M \in Nat /\ 0 \in T /\ \A i \in 0..M : i < M /\ i \in T => i + 1 \in T
    BY <1>4, <1>5, <1>6 DEF M
  <2>2. \A i \in 0..M : i \in T
    BY <2>1, Induct
  <2> QED
    BY <2>2 DEF M
<1>8. N + 1 \in T /\ ~(N + 1 < k) /\ (N + 1) - 1 = N
  BY <1>1, <1>7
<1>9. t[N + 1] = s[N]
  BY <1>8 DEF T
<1> QED
  BY <1>9 DEF s, t, qins

\* The static pins are those of the list that are static.
LEMMA StaticMembers ==
    ASSUME NEW pins \in Seq(Pins), NEW values, NEW m \in 0..Len(pins)
    PROVE  LET static == StaticAmong(pins, values)[m] IN
           /\ static \in Seq(Pins)
           /\ Len(static) <= m
           /\ \A i \in 1..Len(static) :
                 \E k \in 1..m : pins[k] = static[i] /\ ~Dynamic(values, pins[k])
           /\ \A k \in 1..m : ~Dynamic(values, pins[k]) =>
                 \E i \in 1..Len(static) : static[i] = pins[k]
<1> DEFINE s == StaticAmong(pins, values)
           N == Len(pins)
           Lists(r, n) == /\ r \in Seq(Pins)
                          /\ Len(r) <= n
                          /\ \A i \in 1..Len(r) :
                                \E k \in 1..n : pins[k] = r[i] /\ ~Dynamic(values, pins[k])
                          /\ \A k \in 1..n : ~Dynamic(values, pins[k]) =>
                                \E i \in 1..Len(r) : r[i] = pins[k]
           T == {n \in 0..N : Lists(s[n], n)}
<1>1. /\ s[0] = <<>> /\ N \in Nat
      /\ \A i \in 1..N : s[i] = IF Dynamic(values, pins[i]) THEN s[i - 1]
                                ELSE Append(s[i - 1], pins[i])
  BY StaticIs
<1> HIDE DEF s
<1>2. 0 \in T
  <2>1. Lists(<<>>, 0)
    OBVIOUS
  <2> HIDE DEF Lists
  <2> QED
    BY <1>1, <2>1
<1>3. ASSUME NEW n \in 0..N, n < N, n \in T PROVE n + 1 \in T
  <2>1. n + 1 \in 1..N /\ (n + 1) - 1 = n /\ n + 1 \in 0..N /\ n \in Nat
    BY <1>1, <1>3
  <2>2. Lists(s[n], n) /\ pins[n + 1] \in Pins
    BY <1>3, <2>1
  <2>3. s[n + 1] = IF Dynamic(values, pins[n + 1]) THEN s[n] ELSE Append(s[n], pins[n + 1])
    BY <1>1, <2>1
  <2>4. CASE Dynamic(values, pins[n + 1])
    <3> DEFINE r == s[n]
    <3>0. Lists(r, n)
      BY <2>2
    <3> HIDE DEF r
    <3>1. Lists(r, n + 1)
      <4>1. r \in Seq(Pins) /\ Len(r) <= n + 1
        BY <2>1, <3>0
      <4>2. \A i \in 1..Len(r) :
               \E k \in 1..(n + 1) : pins[k] = r[i] /\ ~Dynamic(values, pins[k])
        BY <2>1, <3>0
      <4>3. ASSUME NEW k \in 1..(n + 1), ~Dynamic(values, pins[k])
            PROVE  \E i \in 1..Len(r) : r[i] = pins[k]
        <5>1. k # n + 1
          BY <2>4, <4>3
        <5>2. k \in 1..n
          BY <2>1, <5>1
        <5> QED
          BY <3>0, <4>3, <5>2
      <4> QED
        BY <4>1, <4>2, <4>3
    <3> HIDE DEF Lists
    <3> QED
      BY <2>1, <2>3, <2>4, <3>1 DEF r
  <2>5. CASE ~Dynamic(values, pins[n + 1])
    <3> DEFINE r == Append(s[n], pins[n + 1])
    <3>1. /\ r \in Seq(Pins) /\ Len(r) = Len(s[n]) + 1 /\ Len(s[n]) \in Nat
          /\ \A i \in 1..Len(s[n]) : r[i] = s[n][i]
          /\ r[Len(s[n]) + 1] = pins[n + 1]
      BY <2>2, AppendProperties
    <3> HIDE DEF r
    <3>2. ASSUME NEW i \in 1..Len(r)
          PROVE  \E k \in 1..(n + 1) : pins[k] = r[i] /\ ~Dynamic(values, pins[k])
      <4>1. CASE i = Len(s[n]) + 1
        BY <2>1, <2>5, <3>1, <4>1
      <4>2. CASE i \in 1..Len(s[n])
        BY <2>1, <2>2, <3>1, <4>2
      <4> QED
        BY <3>1, <4>1, <4>2
    <3>3. ASSUME NEW k \in 1..(n + 1), ~Dynamic(values, pins[k])
          PROVE  \E i \in 1..Len(r) : r[i] = pins[k]
      <4>1. CASE k = n + 1
        <5>1. Len(s[n]) + 1 \in 1..Len(r)
          BY <3>1
        <5> QED
          BY <3>1, <4>1, <5>1
      <4>2. CASE k \in 1..n
        <5>1. PICK i \in 1..Len(s[n]) : s[n][i] = pins[k]
          BY <2>2, <3>3, <4>2
        <5>2. i \in 1..Len(r)
          BY <3>1
        <5> QED
          BY <3>1, <5>1, <5>2
      <4> QED
        BY <2>1, <4>1, <4>2
    <3>4. Lists(r, n + 1)
      BY <2>1, <2>2, <3>1, <3>2, <3>3
    <3> HIDE DEF Lists
    <3> QED
      BY <2>1, <2>3, <2>5, <3>4 DEF r
  <2> QED
    BY <2>4, <2>5
<1> HIDE DEF T
<1>4. m \in T
  <2> HIDE DEF N
  <2>1. \A n \in 0..N : n \in T
    BY <1>1, <1>2, <1>3, Induct
  <2> QED
    BY <2>1 DEF N
<1> HIDE DEF Lists
<1>5. Lists(s[m], m)
  BY <1>4 DEF T
<1> QED
  BY <1>5 DEF Lists, s

Placements == [order : Seq(Pins), next : Nat \ {0}]
Placing(values, order, p, before) ==
    IF Dynamic(values, p) THEN [order |-> Append(before.order, p), next |-> before.next]
    ELSE IF before.next > Len(order) THEN before
    ELSE [order |-> Append(before.order, order[before.next]), next |-> before.next + 1]

LEMMA PlacingIs ==
    ASSUME NEW values, NEW order \in Seq(Pins), NEW p \in Pins, NEW before \in Placements
    PROVE  Placing(values, order, p, before) \in Placements
<1>1. before.order \in Seq(Pins) /\ before.next \in Nat \ {0}
  BY DEF Placements
<1>2. Append(before.order, p) \in Seq(Pins)
  BY <1>1
<1>3. CASE ~(before.next > Len(order))
  <2>1. before.next \in 1..Len(order)
    BY <1>1, <1>3
  <2>2. Append(before.order, order[before.next]) \in Seq(Pins) /\ before.next + 1 \in Nat \ {0}
    BY <1>1, <2>1
  <2> QED
    BY <1>1, <1>2, <2>2, <1>3 DEF Placing, Placements
<1>4. CASE before.next > Len(order)
  BY <1>1, <1>2, <1>4 DEF Placing, Placements
<1> QED
  BY <1>3, <1>4

LEMMA PlacedIs ==
    ASSUME NEW pins \in Seq(Pins), NEW values, NEW order \in Seq(Pins)
    PROVE  LET placed == PlacedAmong(pins, values, order) IN
           /\ placed \in [0..Len(pins) -> Placements]
           /\ placed[0] = [order |-> <<>>, next |-> 1]
           /\ \A i \in 1..Len(pins) :
                 placed[i] = Placing(values, order, pins[i], placed[i - 1])
<1> DEFINE N == Len(pins)
           e == [order |-> <<>>, next |-> 1]
           Loop(f) == f = [i \in 0..N |-> IF i = 0 THEN e
                                          ELSE Placing(values, order, pins[i], f[i - 1])]
           step == [x \in (1..N) \X Placements |-> Placing(values, order, pins[x[1]], x[2])]
<1>1. N \in Nat /\ e \in Placements /\ \A i \in 1..N : pins[i] \in Pins
  BY DEF Placements
<1>2. step \in [(1..N) \X Placements -> Placements]
  <2> HIDE DEF N
  <2> QED
    BY <1>1, PlacingIs
<1>3. PICK g \in [0..N -> Placements] :
         g[0] = e /\ \A i \in 1..N : g[i] = step[<<i, g[i - 1]>>]
  <2> HIDE DEF N, step, e
  <2>1. Iterations(N, Placements, e, step) # {}
    BY <1>1, <1>2, Iterates
  <2> QED
    BY <2>1 DEF Iterations
<1>4. ASSUME NEW i \in 1..N PROVE g[i] = Placing(values, order, pins[i], g[i - 1])
  <2>1. i - 1 \in 0..N /\ g[i - 1] \in Placements
    BY <1>1, <1>3
  <2>2. <<i, g[i - 1]>> \in (1..N) \X Placements
    BY <2>1
  <2> QED
    BY <1>3, <2>2
<1> HIDE DEF step, e
<1>5. Loop(g)
  <2>1. g = [i \in 0..N |-> g[i]]
    BY <1>3
  <2>2. \A i \in 0..N : i # 0 => i \in 1..N
    BY <1>1
  <2> HIDE DEF N
  <2> QED
    BY <1>3, <1>4, <2>1, <2>2
<1>6. ASSUME NEW f, Loop(f) PROVE f = g
  <2> DEFINE T == {i \in 0..N : f[i] = g[i]}
  <2> HIDE DEF N
  <2>1. 0 \in T
    BY <1>1, <1>3, <1>6
  <2>2. ASSUME NEW i \in 0..N, i < N, i \in T PROVE i + 1 \in T
    <3>1. i + 1 \in 1..N /\ i + 1 \in 0..N /\ (i + 1) - 1 = i /\ i + 1 # 0 /\ f[i] = g[i]
      BY <1>1, <2>2
    <3>2. f[i + 1] = Placing(values, order, pins[i + 1], f[(i + 1) - 1])
      BY <1>6, <3>1
    <3>3. g[i + 1] = Placing(values, order, pins[i + 1], g[(i + 1) - 1])
      BY <1>4, <3>1
    <3> QED
      BY <3>1, <3>2, <3>3
  <2> HIDE DEF T
  <2>3. \A i \in 0..N : i \in T
    BY <1>1, <2>1, <2>2, Induct
  <2>4. f = [i \in 0..N |-> f[i]]
    BY <1>6
  <2> HIDE DEF Loop
  <2> QED
    BY <1>3, <2>3, <2>4 DEF T
<1>7. PlacedAmong(pins, values, order) = CHOOSE f : Loop(f)
  BY DEF PlacedAmong, Placing, Dynamic, e
<1>8. PlacedAmong(pins, values, order) = g
  <2> HIDE DEF Loop
  <2> QED
    BY <1>5, <1>6, <1>7
<1> HIDE DEF Loop
<1> QED
  BY <1>3, <1>4, <1>8 DEF e

\* As long as the projected pins are the static ones, they stay in place.
LEMMA PlacedStay ==
    ASSUME NEW pins \in Seq(Pins), NEW values, NEW order \in Seq(Pins), NEW m \in 0..Len(pins),
           LET static == StaticAmong(pins, values)[m] IN
               Len(static) <= Len(order) /\ \A i \in 1..Len(static) : order[i] = static[i]
    PROVE  PlacedAmong(pins, values, order)[m] =
              [order |-> SubSeq(pins, 1, m), next |-> Len(StaticAmong(pins, values)[m]) + 1]
<1> DEFINE s == StaticAmong(pins, values)
           placed == PlacedAmong(pins, values, order)
           N == Len(pins)
           Fits(n) == Len(s[n]) <= Len(order) /\ \A i \in 1..Len(s[n]) : order[i] = s[n][i]
           T == {n \in 0..N : Fits(n) =>
                    placed[n] = [order |-> SubSeq(pins, 1, n), next |-> Len(s[n]) + 1]}
<1>1. /\ s \in [0..N -> Seq(Pins)] /\ s[0] = <<>> /\ N \in Nat
      /\ \A i \in 1..N : s[i] = IF Dynamic(values, pins[i]) THEN s[i - 1]
                                ELSE Append(s[i - 1], pins[i])
  BY StaticIs
<1>2. /\ placed[0] = [order |-> <<>>, next |-> 1]
      /\ \A i \in 1..N : placed[i] = Placing(values, order, pins[i], placed[i - 1])
  BY PlacedIs
<1>3. SubSeq(pins, 1, 0) = <<>>
  OBVIOUS
<1>4. ASSUME NEW n \in 0..N, n < N
      PROVE  Append(SubSeq(pins, 1, n), pins[n + 1]) = SubSeq(pins, 1, n + 1)
  <2> DEFINE a == SubSeq(pins, 1, n)
             b == SubSeq(pins, 1, n + 1)
  <2>1. /\ a \in Seq(Pins) /\ Len(a) = n /\ \A i \in 1..n : a[i] = pins[i]
        /\ b \in Seq(Pins) /\ Len(b) = n + 1 /\ \A i \in 1..(n + 1) : b[i] = pins[i]
        /\ pins[n + 1] \in Pins /\ n \in Nat
    BY <1>1, <1>4
  <2> HIDE DEF a, b
  <2> DEFINE c == Append(a, pins[n + 1])
  <2>2. /\ c \in Seq(Pins) /\ Len(c) = n + 1 /\ \A i \in 1..n : c[i] = a[i]
        /\ c[n + 1] = pins[n + 1]
    BY <2>1, AppendProperties
  <2> HIDE DEF c
  <2>3. ASSUME NEW i \in 1..(n + 1) PROVE c[i] = b[i]
    <3>1. CASE i = n + 1
      BY <2>1, <2>2, <3>1
    <3>2. CASE i \in 1..n
      BY <2>1, <2>2, <3>2
    <3> QED
      BY <2>1, <3>1, <3>2
  <2>4. c = b
    BY <2>1, <2>2, <2>3, SameSequence
  <2> QED
    BY <2>4 DEF a, b, c
<1> HIDE DEF s, placed
<1>5. 0 \in T
  BY <1>1, <1>2, <1>3
<1>6. ASSUME NEW n \in 0..N, n < N, n \in T PROVE n + 1 \in T
  <2>1. n + 1 \in 1..N /\ (n + 1) - 1 = n /\ n + 1 \in 0..N
    BY <1>1, <1>6
  <2> SUFFICES ASSUME Fits(n + 1)
               PROVE  placed[n + 1] = [order |-> SubSeq(pins, 1, n + 1),
                                       next |-> Len(s[n + 1]) + 1]
    BY <2>1
  <2>2. s[n + 1] = IF Dynamic(values, pins[n + 1]) THEN s[n] ELSE Append(s[n], pins[n + 1])
    BY <1>1, <2>1
  <2>3. placed[n + 1] = Placing(values, order, pins[n + 1], placed[n])
    BY <1>2, <2>1
  <2>4. s[n] \in Seq(Pins) /\ pins[n + 1] \in Pins /\ Len(s[n]) \in Nat
    BY <1>1, <2>1
  <2>5. CASE Dynamic(values, pins[n + 1])
    <3>1. placed[n] = [order |-> SubSeq(pins, 1, n), next |-> Len(s[n]) + 1]
      BY <1>6, <2>2, <2>5
    <3>2. placed[n + 1] = [order |-> Append(SubSeq(pins, 1, n), pins[n + 1]),
                           next |-> Len(s[n]) + 1]
      BY <2>3, <2>5, <3>1 DEF Placing
    <3> QED
      BY <1>4, <1>6, <2>2, <2>5, <3>2
  <2>6. CASE ~Dynamic(values, pins[n + 1])
    <3> DEFINE r == Append(s[n], pins[n + 1])
    <3>1. /\ Len(r) = Len(s[n]) + 1 /\ \A i \in 1..Len(s[n]) : r[i] = s[n][i]
          /\ r[Len(s[n]) + 1] = pins[n + 1]
      BY <2>4, AppendProperties
    <3>2. s[n + 1] = r
      BY <2>2, <2>6
    <3> HIDE DEF r
    <3>3. /\ Len(s[n]) + 1 <= Len(order) /\ order[Len(s[n]) + 1] = pins[n + 1]
          /\ \A i \in 1..Len(s[n]) : order[i] = s[n][i]
      BY <2>4, <3>1, <3>2
    <3>4. Fits(n) /\ ~(Len(s[n]) + 1 > Len(order))
      BY <2>4, <3>3
    <3>5. placed[n] = [order |-> SubSeq(pins, 1, n), next |-> Len(s[n]) + 1]
      BY <1>6, <3>4
    <3>6. placed[n + 1] = [order |-> Append(SubSeq(pins, 1, n), pins[n + 1]),
                           next |-> (Len(s[n]) + 1) + 1]
      <4> DEFINE a == SubSeq(pins, 1, n)
                 k == Len(s[n]) + 1
      <4>1. /\ placed[n] = [order |-> a, next |-> k] /\ ~(k > Len(order))
            /\ order[k] = pins[n + 1]
        BY <3>3, <3>4, <3>5
      <4> HIDE DEF a, k
      <4>2. placed[n].next = k /\ placed[n].order = a
        BY <4>1
      <4>3. placed[n + 1] = [order |-> Append(a, pins[n + 1]), next |-> k + 1]
        BY <2>3, <2>6, <4>1, <4>2 DEF Placing
      <4> QED
        BY <4>3 DEF a, k
    <3> QED
      BY <1>4, <1>6, <3>1, <3>2, <3>6
  <2> QED
    BY <2>5, <2>6
<1> HIDE DEF T
<1>7. m \in T
  <2> HIDE DEF N
  <2>1. \A n \in 0..N : n \in T
    BY <1>1, <1>5, <1>6, Induct
  <2> QED
    BY <2>1 DEF N
<1> QED
  BY <1>7 DEF T, s, placed

-----------------------------------------------------------------------------
(* Documents and transactions                                              *)

LEMMA SameDocument ==
    ASSUME NEW d \in Docs, NEW e \in Docs,
           d.read_only = e.read_only, d.nodes = e.nodes, d.pins = e.pins, d.links = e.links,
           d.node_states = e.node_states, d.link_states = e.link_states, d.groups = e.groups
    PROVE  d = e
  BY DEF Docs

LEMMA BeginIs ==
    ASSUME NEW d \in Docs, NEW enforce \in BOOLEAN
    PROVE  /\ Begin(d, enforce) \in Transactions
           /\ Begin(d, enforce).now = d /\ Begin(d, enforce).base = d
           /\ Begin(d, enforce).enforce = enforce
  BY DEF Begin, Transactions

LEMMA NotNone ==
    /\ \A x \in NodeValues : x # None
    /\ \A x \in PinValues : x # None
    /\ \A x \in LinkValues : x # None
    /\ \A x \in NodeStates : x # None
    /\ \A x \in LinkStates : x # None
    /\ \A x \in GroupValues : x # None
    /\ \A x \in Docs : x # None
    /\ \A x \in Transactions : x # None
    /\ \A l \in Links : l # None
  BY ElementDocumentAssumption, ElementTransactionAssumption

LEMMA PartsAre ==
    ASSUME NEW d \in Docs
    PROVE  /\ d.read_only \in BOOLEAN
           /\ d.nodes \in [Nodes -> NodeValues \cup {None}]
           /\ d.pins \in [Pins -> PinValues \cup {None}]
           /\ d.links \in [Links -> LinkValues \cup {None}]
           /\ d.node_states \in [Nodes -> NodeStates \cup {None}]
           /\ d.link_states \in [Links -> LinkStates \cup {None}]
           /\ d.groups \in [Groups -> GroupValues \cup {None}]
  BY DEF Docs

OnlyReadOnly(d, e) ==
    /\ e \in Docs /\ e.nodes = d.nodes /\ e.pins = d.pins /\ e.links = d.links
    /\ e.node_states = d.node_states /\ e.link_states = d.link_states /\ e.groups = d.groups
OnlyStructure(d, e) ==
    /\ e \in Docs /\ e.read_only = d.read_only
    /\ e.node_states = d.node_states /\ e.link_states = d.link_states /\ e.groups = d.groups
OnlyNodeStates(d, e) ==
    /\ e \in Docs /\ e.read_only = d.read_only
    /\ e.nodes = d.nodes /\ e.pins = d.pins /\ e.links = d.links
    /\ e.link_states = d.link_states /\ e.groups = d.groups
OnlyLinkStates(d, e) ==
    /\ e \in Docs /\ e.read_only = d.read_only
    /\ e.nodes = d.nodes /\ e.pins = d.pins /\ e.links = d.links
    /\ e.node_states = d.node_states /\ e.groups = d.groups
OnlyGroups(d, e) ==
    /\ e \in Docs /\ e.read_only = d.read_only
    /\ e.nodes = d.nodes /\ e.pins = d.pins /\ e.links = d.links
    /\ e.node_states = d.node_states /\ e.link_states = d.link_states

-----------------------------------------------------------------------------
(* What a valid document is, node by node and link by link                 *)

Held(d, n) ==
    /\ IsInjective(d.nodes[n].pins)
    /\ \A p \in ToSet(d.nodes[n].pins) : p[1] = n /\ d.pins[p] # None
Fitted(d, n) ==
    /\ MatchesDescriptor(d, n)
    /\ d.nodes[n].schema # "narrow" => d.pins[Last(d.nodes[n].pins)].storage = "static"
Rooted(d, p) ==
    /\ d.nodes[p[1]] # None /\ p \in ToSet(d.nodes[p[1]].pins)
    /\ d.pins[p].storage = "dynamic" => p[2] \in DynamicKeys
Joins(d, link) ==
    /\ d.pins[link.output] # None /\ d.pins[link.input] # None
    /\ d.pins[link.output].direction = "out" /\ d.pins[link.input].direction = "in"
    /\ Check(d.pins[link.output].type, d.pins[link.input].type) = "allowed"
Ends(d, l) == {d.links[l].output, d.links[l].input}
Distinct(d, l, m) ==
    /\ ~(d.links[l].output = d.links[m].output /\ d.links[l].input = d.links[m].input)
    /\ \A p \in Ends(d, l) \cap Ends(d, m) : ~d.pins[p].single

GoodGraph(d) ==
    /\ \A n \in Nodes : d.nodes[n] # None => Held(d, n) /\ Fitted(d, n)
    /\ \A p \in Pins : d.pins[p] # None => Rooted(d, p)
    /\ \A l \in Links : d.links[l] # None => Joins(d, d.links[l])
    /\ \A l, m \in Links :
          l # m /\ d.links[l] # None /\ d.links[m] # None => Distinct(d, l, m)
Good(d) == Openable(d) /\ StaticLast(d)

LEMMA GoodIs ==
    ASSUME NEW d \in Docs
    PROVE  Good(d) <=> GoodGraph(d) /\ ValidPresentation(d)
<1>0. /\ \A l \in Links : d.links[l] # None => d.links[l].output \in Pins /\ d.links[l].input \in Pins
      /\ \A n \in Nodes : d.nodes[n] # None => ToSet(d.nodes[n].pins) \subseteq Pins
      /\ \A p \in Pins : p[1] \in Nodes
  BY DEF Docs, LinkValues, NodeValues, ToSet, Pins
<1>1. ASSUME Good(d) PROVE GoodGraph(d) /\ ValidPresentation(d)
  <2>1. /\ ValidStructure(d) /\ ValidTypes(d) /\ ValidPresentation(d)
        /\ \A n \in Nodes : d.nodes[n] # None => MatchesDescriptor(d, n)
        /\ \A p \in Pins :
              d.pins[p] # None /\ d.pins[p].storage = "dynamic" => p[2] \in DynamicKeys
        /\ \A n \in Nodes : d.nodes[n] # None /\ d.nodes[n].schema # "narrow" =>
              d.pins[Last(d.nodes[n].pins)].storage = "static"
    BY <1>1 DEF Good, Openable, StaticLast, ValidGraph
  <2>2. \A n \in Nodes : d.nodes[n] # None => Held(d, n) /\ Fitted(d, n)
    BY <1>0, <2>1 DEF ValidStructure, Held, Fitted
  <2>3. \A p \in Pins : d.pins[p] # None => Rooted(d, p)
    BY <1>0, <2>1 DEF ValidStructure, Rooted
  <2>4. \A l \in Links : d.links[l] # None => Joins(d, d.links[l])
    BY <1>0, <2>1 DEF ValidStructure, ValidTypes, Joins
  <2>5. ASSUME NEW l \in Links, NEW m \in Links, l # m, d.links[l] # None, d.links[m] # None
        PROVE  Distinct(d, l, m)
    <3>1. FindLinkBetween(d, d.links[l].output, d.links[l].input) = {l}
      BY <2>1, <2>5 DEF ValidStructure
    <3>2. ~(d.links[l].output = d.links[m].output /\ d.links[l].input = d.links[m].input)
      BY <2>5, <3>1 DEF FindLinkBetween
    <3>3. ASSUME NEW p \in Ends(d, l) \cap Ends(d, m) PROVE ~d.pins[p].single
      <4>1. p \in Pins /\ d.pins[p] # None
        BY <1>0, <2>4, <2>5 DEF Ends, Joins
      <4>2. l \in IncidentLinks(d, p) /\ m \in IncidentLinks(d, p)
        BY <2>5 DEF Ends, IncidentLinks
      <4> QED
        BY <2>1, <2>5, <4>1, <4>2 DEF ValidStructure
    <3> QED
      BY <3>2, <3>3 DEF Distinct
  <2> QED
    BY <2>1, <2>2, <2>3, <2>4, <2>5 DEF GoodGraph
<1>2. ASSUME GoodGraph(d), ValidPresentation(d) PROVE Good(d)
  <2>1. ASSUME NEW p \in Pins
        PROVE  d.pins[p] # None <=> d.nodes[p[1]] # None /\ p \in ToSet(d.nodes[p[1]].pins)
    BY <1>0, <1>2 DEF GoodGraph, Held, Rooted
  <2>2. ASSUME NEW l \in Links, d.links[l] # None
        PROVE  FindLinkBetween(d, d.links[l].output, d.links[l].input) = {l}
    <3>1. \A m \in Links : m # l /\ d.links[m] # None => Distinct(d, l, m)
      BY <1>2, <2>2 DEF GoodGraph
    <3> QED
      BY <2>2, <3>1 DEF FindLinkBetween, Distinct
  <2>3. ASSUME NEW p \in Pins, d.pins[p] # None, d.pins[p].single,
               NEW l \in IncidentLinks(d, p), NEW m \in IncidentLinks(d, p)
        PROVE  l = m
    <3>1. /\ l \in Links /\ m \in Links /\ d.links[l] # None /\ d.links[m] # None
          /\ p \in Ends(d, l) \cap Ends(d, m)
      BY DEF IncidentLinks, Ends
    <3> QED
      BY <1>2, <2>3, <3>1 DEF GoodGraph, Distinct
  <2>4. /\ \A l \in Links : d.links[l] # None => Joins(d, d.links[l])
        /\ \A n \in Nodes : d.nodes[n] # None => Held(d, n) /\ Fitted(d, n)
    BY <1>2 DEF GoodGraph
  <2>5. ValidStructure(d)
    BY <2>1, <2>2, <2>3, <2>4 DEF ValidStructure, Joins, Held
  <2>6. ValidGraph(d)
    BY <2>4, <2>5 DEF ValidGraph, ValidTypes, Joins, Fitted
  <2>7. \A p \in Pins : d.pins[p] # None /\ d.pins[p].storage = "dynamic" => p[2] \in DynamicKeys
    BY <1>2 DEF GoodGraph, Rooted
  <2>8. StaticLast(d)
    BY <2>4 DEF StaticLast, Fitted
  <2> QED
    BY <1>2, <2>6, <2>7, <2>8 DEF Good, Openable
<1> QED
  BY <1>1, <1>2

\* What a commit asks of a document is there when the document is valid.
LEMMA GoodAccepted ==
    ASSUME NEW base \in Docs, NEW d \in Docs, Good(d)
    PROVE  Accepted(base, d)
<1>1. GoodGraph(d) /\ ValidPresentation(d)
  BY GoodIs
<1>2. ASSUME NEW n \in Nodes
      PROVE  IF d.nodes[n] # None THEN NodeRelationsHold(d, n)
             ELSE d.node_states[n] = None /\ GroupsForNode(d, n) = {}
  <2>1. CASE d.nodes[n] # None
    BY <1>1, <2>1 DEF GoodGraph, Held, NodeRelationsHold
  <2>2. CASE d.nodes[n] = None
    BY <1>1, <2>2 DEF ValidPresentation, GroupsForNode
  <2> QED
    BY <2>1, <2>2
<1>3. TouchedNodes(base, d) \subseteq Nodes
  BY DEF TouchedNodes, Pins
<1>4. /\ \A n \in Nodes : d.node_states[n] # None => d.nodes[n] # None
      /\ \A l \in Links : d.link_states[l] # None => d.links[l] # None
  BY <1>1 DEF ValidPresentation
<1> QED
  BY <1>2, <1>3, <1>4 DEF Accepted

\* The relation of a command that was executed on d and of what it led to.
Spared(d, e) ==
    /\ ~d.read_only
    /\ \A n \in Nodes : d.nodes[n] # None /\ d.nodes[n].read_only =>
          /\ e.nodes[n] = d.nodes[n]
          /\ \A p \in ToSet(d.nodes[n].pins) : e.pins[p] = d.pins[p]
    /\ \A p \in Pins : d.pins[p] # None =>
          /\ d.pins[p].read_only => e.pins[p] = d.pins[p]
          /\ d.pins[p].read_only \/ d.nodes[p[1]].read_only =>
                /\ IncidentLinks(e, p) = IncidentLinks(d, p)
                /\ \A l \in IncidentLinks(d, p) : e.links[l] = d.links[l]
    /\ \A l \in Links : d.links[l] # None /\ d.links[l].read_only => e.links[l] = d.links[l]
    /\ \A n \in Nodes : d.node_states[n] # None /\ d.node_states[n].locked =>
          e.node_states[n] = d.node_states[n]
    /\ \A l \in Links : d.link_states[l] # None /\ d.link_states[l].locked =>
          e.link_states[l] = d.link_states[l]
    /\ \A g \in Groups : d.groups[g] # None /\ d.groups[g].locked => e.groups[g] = d.groups[g]

Unguarded == {"graph", "read_only", "locked", "link_locked"}
Entry(d, c) == [command |-> c, saved |-> Capture(d, c)]
Executed(d, c) == Apply(Begin(d, TRUE), c, Capture(d, c))
Led(d, c) == Executed(d, c).now
TakenBack(d, c) == Revert(Begin(Led(d, c), FALSE), c, Capture(d, c))
Changes(d, c) == Executed(d, c) # None /\ Led(d, c) # d /\ Accepted(d, Led(d, c))

Undoes(d, c) ==
    LET e == Applied(d, Entry(d, c)) IN
    e \notin {None, d} => /\ e \in Docs /\ Good(e)
                          /\ Reverted(e, Entry(d, c)) = d
                          /\ c.kind \notin Unguarded => Spared(d, e)

LEMMA CommitIs ==
    ASSUME NEW base, NEW t, Committed(base, t) # None
    PROVE  t # None /\ Committed(base, t) = t.now /\ Accepted(base, t.now)
  BY DEF Committed

LEMMA RevertCommits ==
    ASSUME NEW base \in Docs, NEW d \in Docs, Good(d), NEW t \in Transactions, t.now = d
    PROVE  Committed(base, t) = d
  BY GoodAccepted, NotNone DEF Committed

LEMMA EntryIs ==
    ASSUME NEW d, NEW c
    PROVE  Entry(d, c).command = c /\ Entry(d, c).saved = Capture(d, c)
  BY DEF Entry

\* How a command is shown to do what it should.
LEMMA UndoesFrom ==
    ASSUME NEW d \in Docs, Good(d), NEW c,
           Changes(d, c) => /\ Led(d, c) \in Docs /\ Good(Led(d, c))
                            /\ TakenBack(d, c) \in Transactions /\ TakenBack(d, c).now = d
                            /\ c.kind \notin Unguarded => Spared(d, Led(d, c))
    PROVE  Undoes(d, c)
<1> DEFINE e == Applied(d, Entry(d, c))
<1>1. e = Committed(d, Executed(d, c))
  BY EntryIs DEF Applied, Executed
<1> SUFFICES ASSUME e # None, e # d
             PROVE  /\ e \in Docs /\ Good(e)
                    /\ Reverted(e, Entry(d, c)) = d
                    /\ c.kind \notin Unguarded => Spared(d, e)
  BY DEF Undoes
<1> HIDE DEF e
<1>2. Changes(d, c) /\ e = Led(d, c)
  BY <1>1, CommitIs DEF Changes, Led
<1>3. /\ e \in Docs /\ Good(e)
      /\ TakenBack(d, c) \in Transactions /\ TakenBack(d, c).now = d
      /\ c.kind \notin Unguarded => Spared(d, e)
  BY <1>2
<1>4. Reverted(e, Entry(d, c)) = Committed(e, TakenBack(d, c))
  BY <1>2, EntryIs DEF Reverted, TakenBack
<1> QED
  BY <1>3, <1>4, RevertCommits

-----------------------------------------------------------------------------
(* What is left alone stays valid                                          *)

Alike(v, w) ==
    /\ w # None
    /\ w.direction = v.direction /\ w.type = v.type /\ w.single = v.single
    /\ w.storage = v.storage

LEMMA NodeFrame ==
    ASSUME NEW d \in Docs, NEW e \in Docs, NEW n \in Nodes,
           d.nodes[n] # None, Held(d, n), Fitted(d, n), e.nodes[n] # None,
           e.nodes[n].pins = d.nodes[n].pins, e.nodes[n].schema = d.nodes[n].schema,
           \A p \in ToSet(d.nodes[n].pins) : Alike(d.pins[p], e.pins[p])
    PROVE  Held(e, n) /\ Fitted(e, n)
<1> DEFINE pins == d.nodes[n].pins
<1>1. /\ pins \in Seq(Pins) /\ e.nodes[n].pins = pins /\ Len(pins) \in Nat
      /\ \A i \in 1..Len(pins) : pins[i] \in ToSet(pins) /\ pins[i] \in Pins
  BY PartsAre DEF NodeValues, ToSet
<1>2. \A i \in 1..Len(pins) : Dynamic(d.pins, pins[i]) <=> Dynamic(e.pins, pins[i])
  BY <1>1 DEF Dynamic, Alike
<1>3. StaticOrder(e, n) = StaticOrder(d, n)
  <2> HIDE DEF pins
  <2>1. \A i \in 0..Len(pins) : StaticAmong(pins, d.pins)[i] = StaticAmong(pins, e.pins)[i]
    BY <1>1, <1>2, StaticSame
  <2>2. StaticAmong(pins, d.pins)[Len(pins)] = StaticAmong(pins, e.pins)[Len(pins)]
    BY <1>1, <2>1
  <2> QED
    BY <1>1, <2>2 DEF StaticOrder, pins
<1>4. ASSUME NEW p \in ToSet(StaticOrder(d, n))
      PROVE  [e.pins[p] EXCEPT !.read_only = FALSE] = [d.pins[p] EXCEPT !.read_only = FALSE]
  <2> HIDE DEF pins
  <2>0. StaticOrder(d, n) = StaticAmong(pins, d.pins)[Len(pins)]
    BY DEF StaticOrder, pins
  <2>1. /\ StaticOrder(d, n) \in Seq(Pins)
        /\ \A i \in 1..Len(StaticOrder(d, n)) :
              \E k \in 1..Len(pins) : pins[k] = StaticOrder(d, n)[i]
    <3>1. Len(pins) \in 0..Len(pins)
      BY <1>1
    <3> QED
      BY <1>1, <2>0, <3>1, StaticMembers
  <2>2. p \in ToSet(pins)
    BY <1>1, <2>1 DEF ToSet
  <2>3. p \in Pins /\ d.pins[p] # None /\ Alike(d.pins[p], e.pins[p])
    BY <1>1, <2>2 DEF Held, ToSet, pins
  <2>4. d.pins[p] \in PinValues /\ e.pins[p] \in PinValues
    BY <2>3, PartsAre DEF Alike
  <2> QED
    BY <2>3, <2>4 DEF Alike, PinValues
<1>5. MatchesDescriptor(e, n)
  BY <1>3, <1>4 DEF MatchesDescriptor, Fitted
<1>6. Held(e, n)
  BY DEF Held, Alike
<1>7. ASSUME d.nodes[n].schema # "narrow" PROVE e.pins[Last(pins)].storage = "static"
  <2>1. d.pins[Last(pins)].storage = "static"
    BY <1>7 DEF Fitted
  <2>2. Len(pins) # 0
    <3>1. StaticOrder(d, n) = [i \in DOMAIN ResolvePinSchema(d.nodes[n].schema).order |->
                                  <<n, ResolvePinSchema(d.nodes[n].schema).order[i]>>]
      BY DEF Fitted, MatchesDescriptor
    <3>2. d.nodes[n].schema \in SchemaNames
      BY PartsAre DEF NodeValues
    <3>3. 1 \in DOMAIN ResolvePinSchema(d.nodes[n].schema).order
      BY <3>2 DEF ResolvePinSchema, SchemaNames
    <3>4. StaticOrder(d, n) # <<>>
      BY <3>1, <3>3
    <3>5. StaticAmong(pins, d.pins)[0] = <<>>
      BY <1>1, StaticIs
    <3> QED
      BY <3>4, <3>5 DEF StaticOrder
  <2>3. Last(pins) \in ToSet(pins)
    <3> HIDE DEF pins
    <3> QED
      BY <1>1, <2>2 DEF Last
  <2> QED
    BY <2>1, <2>3 DEF Alike
<1> QED
  BY <1>5, <1>6, <1>7 DEF Fitted

LEMMA SameGraph ==
    ASSUME NEW d \in Docs, NEW e \in Docs, GoodGraph(d),
           \A n \in Nodes : /\ e.nodes[n] = None <=> d.nodes[n] = None
                            /\ d.nodes[n] # None =>
                                  /\ e.nodes[n].pins = d.nodes[n].pins
                                  /\ e.nodes[n].schema = d.nodes[n].schema,
           \A p \in Pins : /\ e.pins[p] = None <=> d.pins[p] = None
                           /\ d.pins[p] # None => Alike(d.pins[p], e.pins[p]),
           \A l \in Links : /\ e.links[l] = None <=> d.links[l] = None
                            /\ d.links[l] # None => /\ e.links[l].output = d.links[l].output
                                                    /\ e.links[l].input = d.links[l].input
    PROVE  GoodGraph(e)
<1>1. ASSUME NEW n \in Nodes, e.nodes[n] # None PROVE Held(e, n) /\ Fitted(e, n)
  <2>1. d.nodes[n] # None /\ Held(d, n) /\ Fitted(d, n)
    BY <1>1 DEF GoodGraph
  <2>2. ToSet(d.nodes[n].pins) \subseteq Pins
    BY <2>1, PartsAre DEF NodeValues, ToSet
  <2>3. \A p \in ToSet(d.nodes[n].pins) : Alike(d.pins[p], e.pins[p])
    BY <2>1, <2>2 DEF Held
  <2> QED
    BY <1>1, <2>1, <2>3, NodeFrame
<1>2. ASSUME NEW p \in Pins, e.pins[p] # None PROVE Rooted(e, p)
  <2>1. Rooted(d, p) /\ Alike(d.pins[p], e.pins[p]) /\ p[1] \in Nodes
    BY <1>2 DEF GoodGraph, Pins
  <2> QED
    BY <2>1 DEF Rooted, Alike
<1>3. ASSUME NEW l \in Links, e.links[l] # None PROVE Joins(e, e.links[l])
  <2>1. Joins(d, d.links[l]) /\ d.links[l] # None
    BY <1>3 DEF GoodGraph
  <2>2. d.links[l].output \in Pins /\ d.links[l].input \in Pins
    BY <2>1, PartsAre DEF LinkValues
  <2> QED
    BY <2>1, <2>2 DEF Joins, Alike
<1>4. ASSUME NEW l \in Links, NEW m \in Links, l # m, e.links[l] # None, e.links[m] # None
      PROVE  Distinct(e, l, m)
  <2>1. Distinct(d, l, m) /\ d.links[l] # None /\ d.links[m] # None /\ Joins(d, d.links[l])
    BY <1>4 DEF GoodGraph
  <2>2. d.links[l].output \in Pins /\ d.links[l].input \in Pins
    BY <2>1, PartsAre DEF LinkValues
  <2>3. Ends(e, l) = Ends(d, l) /\ Ends(e, m) = Ends(d, m)
    BY <2>1 DEF Ends
  <2>4. \A p \in Ends(d, l) : e.pins[p].single = d.pins[p].single
    BY <2>1, <2>2 DEF Ends, Alike, Joins
  <2> QED
    BY <2>1, <2>3, <2>4 DEF Distinct
<1> QED
  BY <1>1, <1>2, <1>3, <1>4 DEF GoodGraph

LEMMA SameShown ==
    ASSUME NEW d \in Docs, NEW e \in Docs, ValidPresentation(d),
           \A n \in Nodes : e.nodes[n] = None <=> d.nodes[n] = None,
           \A l \in Links : e.links[l] = None <=> d.links[l] = None,
           e.node_states = d.node_states, e.link_states = d.link_states, e.groups = d.groups
    PROVE  ValidPresentation(e)
<1>1. \A g \in Groups : d.groups[g] # None => d.groups[g].members \subseteq Nodes
  BY PartsAre DEF GroupValues
<1> QED
  BY <1>1 DEF ValidPresentation, RoutePointOwner

LEMMA SparedStates ==
    ASSUME NEW d \in Docs, NEW e \in Docs, ~d.read_only,
           e.nodes = d.nodes, e.pins = d.pins, e.links = d.links,
           \A n \in Nodes : d.node_states[n] # None /\ d.node_states[n].locked =>
              e.node_states[n] = d.node_states[n],
           \A l \in Links : d.link_states[l] # None /\ d.link_states[l].locked =>
              e.link_states[l] = d.link_states[l],
           \A g \in Groups : d.groups[g] # None /\ d.groups[g].locked => e.groups[g] = d.groups[g]
    PROVE  Spared(d, e)
  BY DEF Spared, IncidentLinks

LEMMA OnlyStatesGood ==
    ASSUME NEW d \in Docs, NEW e \in Docs, Good(d),
           e.nodes = d.nodes, e.pins = d.pins, e.links = d.links
    PROVE  /\ GoodGraph(e)
           /\ ValidPresentation(e) => Good(e)
<1>1. GoodGraph(d)
  BY GoodIs
<1>2. GoodGraph(e)
  <2>1. \A p \in Pins : d.pins[p] # None => Alike(d.pins[p], d.pins[p])
    BY DEF Alike
  <2> QED
    BY <1>1, <2>1, SameGraph
<1> QED
  BY <1>2, GoodIs

-----------------------------------------------------------------------------
(* Transactions: what an operation leads to, if it is not refused          *)

Staged == Transactions \cup {None}
Follows(t, x) == x \in Transactions /\ x.base = t.base /\ x.enforce = t.enforce

LEMMA NowIs ==
    ASSUME NEW t \in Transactions
    PROVE  /\ t.now \in Docs /\ t.base \in Docs /\ t.enforce \in BOOLEAN /\ t # None
           /\ t \in Staged
           /\ Follows(t, t)
  BY NotNone DEF Transactions, Follows, Staged

LEMMA StageIs ==
    ASSUME NEW t \in Transactions, NEW d \in Docs
    PROVE  Follows(t, Stage(t, d)) /\ Stage(t, d).now = d /\ Stage(t, d) # None
  BY NotNone DEF Stage, Transactions, Follows

LEMMA FollowsOn ==
    ASSUME NEW t, NEW x, NEW y, Follows(t, x), Follows(x, y)
    PROVE  Follows(t, y)
  BY DEF Follows

LEMMA SameTransaction ==
    ASSUME NEW t \in Transactions, NEW x, Follows(t, x), x.now = t.now
    PROVE  x = t
  BY DEF Follows, Transactions

LEMMA PutReadOnly ==
    ASSUME NEW d \in Docs, NEW x \in BOOLEAN
    PROVE  OnlyReadOnly(d, [d EXCEPT !.read_only = x]) /\ [d EXCEPT !.read_only = x].read_only = x
  BY DEF Docs, OnlyReadOnly

LEMMA PutNodes ==
    ASSUME NEW d \in Docs, NEW x \in [Nodes -> NodeValues \cup {None}]
    PROVE  LET e == [d EXCEPT !.nodes = x] IN
           OnlyStructure(d, e) /\ e.nodes = x /\ e.pins = d.pins /\ e.links = d.links
  BY DEF Docs, OnlyStructure

LEMMA PutPins ==
    ASSUME NEW d \in Docs, NEW x \in [Pins -> PinValues \cup {None}]
    PROVE  LET e == [d EXCEPT !.pins = x] IN
           OnlyStructure(d, e) /\ e.nodes = d.nodes /\ e.pins = x /\ e.links = d.links
  BY DEF Docs, OnlyStructure

LEMMA PutLinks ==
    ASSUME NEW d \in Docs, NEW x \in [Links -> LinkValues \cup {None}]
    PROVE  LET e == [d EXCEPT !.links = x] IN
           OnlyStructure(d, e) /\ e.nodes = d.nodes /\ e.pins = d.pins /\ e.links = x
  BY DEF Docs, OnlyStructure

LEMMA PutStructure ==
    ASSUME NEW d \in Docs, NEW x \in [Nodes -> NodeValues \cup {None}],
           NEW y \in [Pins -> PinValues \cup {None}], NEW z \in [Links -> LinkValues \cup {None}]
    PROVE  LET e == [d EXCEPT !.nodes = x, !.pins = y]
               f == [d EXCEPT !.nodes = x, !.pins = y, !.links = z] IN
           /\ OnlyStructure(d, e) /\ e.nodes = x /\ e.pins = y /\ e.links = d.links
           /\ OnlyStructure(d, f) /\ f.nodes = x /\ f.pins = y /\ f.links = z
  BY DEF Docs, OnlyStructure

LEMMA PutNodeStates ==
    ASSUME NEW d \in Docs, NEW x \in [Nodes -> NodeStates \cup {None}]
    PROVE  LET e == [d EXCEPT !.node_states = x] IN OnlyNodeStates(d, e) /\ e.node_states = x
  BY DEF Docs, OnlyNodeStates

LEMMA PutLinkStates ==
    ASSUME NEW d \in Docs, NEW x \in [Links -> LinkStates \cup {None}]
    PROVE  LET e == [d EXCEPT !.link_states = x] IN OnlyLinkStates(d, e) /\ e.link_states = x
  BY DEF Docs, OnlyLinkStates

LEMMA PutGroups ==
    ASSUME NEW d \in Docs, NEW x \in [Groups -> GroupValues \cup {None}]
    PROVE  LET e == [d EXCEPT !.groups = x] IN OnlyGroups(d, e) /\ e.groups = x
  BY DEF Docs, OnlyGroups

\* What an enforcing transaction found unprotected when it began.
OpenGraph(t) == t.enforce => ~t.base.read_only
FreeNode(t, n) ==
    t.enforce /\ t.base.nodes[n] # None => ~t.base.nodes[n].read_only
FreePin(t, p) ==
    t.enforce /\ t.base.pins[p] # None => ~t.base.pins[p].read_only
FreeEnd(t, p) == FreePin(t, p) /\ FreeNode(t, p[1])
FreeLink(t, l) ==
    t.enforce /\ t.base.links[l] # None => ~t.base.links[l].read_only
FreeNodeState(t, n) ==
    t.enforce /\ t.base.node_states[n] # None => ~t.base.node_states[n].locked
FreeLinkState(t, l) ==
    t.enforce /\ t.base.link_states[l] # None => ~t.base.link_states[l].locked
FreeGroup(t, g) ==
    t.enforce /\ t.base.groups[g] # None => ~t.base.groups[g].locked

LEMMA ProtectionIs ==
    ASSUME NEW t \in Transactions
    PROVE  /\ ~GraphReadOnly(t) => OpenGraph(t)
           /\ \A n : ~NodeReadOnly(t, n) => FreeNode(t, n)
           /\ \A p : ~PinReadOnly(t, p) => FreePin(t, p)
           /\ \A p : ~EndpointReadOnly(t, p) => FreeEnd(t, p)
           /\ \A l : ~LinkReadOnly(t, l) => FreeLink(t, l)
           /\ \A n : ~NodeLocked(t, n) => FreeNodeState(t, n)
           /\ \A l : ~LinkLocked(t, l) => FreeLinkState(t, l)
           /\ \A g : ~GroupLocked(t, g) => FreeGroup(t, g)
  BY DEF GraphReadOnly, NodeReadOnly, NodeLocked, PinReadOnly, LinkReadOnly, LinkLocked,
         GroupLocked, EndpointReadOnly, Flagged, OpenGraph, FreeNode, FreePin, FreeEnd, FreeLink,
         FreeNodeState, FreeLinkState, FreeGroup

LEMMA FreeIs ==
    ASSUME NEW t \in Transactions, ~t.enforce
    PROVE  /\ ~GraphReadOnly(t)
           /\ \A n : ~NodeReadOnly(t, n) /\ ~NodeLocked(t, n)
           /\ \A p : ~PinReadOnly(t, p) /\ ~EndpointReadOnly(t, p)
           /\ \A l : ~LinkReadOnly(t, l) /\ ~LinkLocked(t, l)
           /\ \A g : ~GroupLocked(t, g)
  BY DEF GraphReadOnly, NodeReadOnly, NodeLocked, PinReadOnly, EndpointReadOnly,
         LinkReadOnly, LinkLocked, GroupLocked, Flagged

\* The transaction of a command that was executed on d enforces, and that of
\* its Revert does not.
LEMMA ExecutedIs ==
    ASSUME NEW d \in Docs
    PROVE  LET t == Begin(d, TRUE) IN
           /\ t \in Transactions /\ t.now = d /\ t.base = d /\ t.enforce = TRUE
           /\ OpenGraph(t) => ~d.read_only
           /\ \A n : FreeNode(t, n) /\ d.nodes[n] # None => ~d.nodes[n].read_only
           /\ \A p : FreePin(t, p) /\ d.pins[p] # None => ~d.pins[p].read_only
           /\ \A l : FreeLink(t, l) /\ d.links[l] # None => ~d.links[l].read_only
           /\ \A n : FreeNodeState(t, n) /\ d.node_states[n] # None => ~d.node_states[n].locked
           /\ \A l : FreeLinkState(t, l) /\ d.link_states[l] # None => ~d.link_states[l].locked
           /\ \A g : FreeGroup(t, g) /\ d.groups[g] # None => ~d.groups[g].locked
  BY BeginIs DEF OpenGraph, FreeNode, FreePin, FreeLink, FreeNodeState, FreeLinkState, FreeGroup

LEMMA RevertedIs ==
    ASSUME NEW e \in Docs
    PROVE  LET t == Begin(e, FALSE) IN
           t \in Transactions /\ t.now = e /\ t.base = e /\ ~t.enforce
  BY BeginIs

-----------------------------------------------------------------------------
(* Groups                                                                  *)

OnlyGroup(d, e, g) == OnlyGroups(d, e) /\ \A h \in Groups \ {g} : e.groups[h] = d.groups[h]

LEMMA PutGroup ==
    ASSUME NEW d \in Docs, NEW g \in Groups, NEW x \in GroupValues \cup {None}
    PROVE  LET e == [d EXCEPT !.groups[g] = x] IN
           e \in Docs /\ OnlyGroup(d, e, g) /\ e.groups[g] = x
<1> DEFINE groups == [d.groups EXCEPT ![g] = x]
           e == [d EXCEPT !.groups = groups]
<1>1. groups \in [Groups -> GroupValues \cup {None}] /\ groups[g] = x
      /\ \A h \in Groups \ {g} : groups[h] = d.groups[h]
  BY PartsAre
<1> HIDE DEF groups
<1>2. OnlyGroups(d, e) /\ e.groups = groups
  BY <1>1, PutGroups
<1>3. e \in Docs /\ OnlyGroup(d, e, g) /\ e.groups[g] = x
  BY <1>1, <1>2 DEF OnlyGroup, OnlyGroups
<1> QED
  BY <1>3 DEF e, groups

\* The commands that change one group: what they lead to and what takes it back.
LEMMA GroupUndoes ==
    ASSUME NEW d \in Docs, Good(d), NEW c, NEW g \in Groups,
           Changes(d, c) =>
              LET e == Led(d, c)
                  u == TakenBack(d, c)
              IN /\ OnlyGroup(d, e, g)
                 /\ e.groups[g] # None => \A n \in e.groups[g].members : d.nodes[n] # None
                 /\ \/ c.kind \in Unguarded
                    \/ ~d.read_only /\ (d.groups[g] # None => ~d.groups[g].locked)
                 /\ u \in Transactions /\ OnlyGroup(e, u.now, g)
                 /\ u.now.groups[g] = d.groups[g]
    PROVE  Undoes(d, c)
<1> DEFINE e == Led(d, c)
           u == TakenBack(d, c)
<1>1. ASSUME Changes(d, c)
      PROVE  /\ e \in Docs /\ Good(e)
             /\ u \in Transactions /\ u.now = d
             /\ c.kind \notin Unguarded => Spared(d, e)
  <2>1. /\ OnlyGroup(d, e, g)
        /\ e.groups[g] # None => \A n \in e.groups[g].members : d.nodes[n] # None
        /\ \/ c.kind \in Unguarded
           \/ ~d.read_only /\ (d.groups[g] # None => ~d.groups[g].locked)
        /\ u \in Transactions /\ OnlyGroup(e, u.now, g) /\ u.now.groups[g] = d.groups[g]
    BY <1>1
  <2> HIDE DEF e, u
  <2>2. /\ OnlyGroups(d, e) /\ OnlyGroups(e, u.now) /\ e \in Docs /\ u.now \in Docs
        /\ \A h \in Groups \ {g} : e.groups[h] = d.groups[h] /\ u.now.groups[h] = e.groups[h]
    BY <2>1 DEF OnlyGroup, OnlyGroups
  <2>3. ValidPresentation(d)
    BY GoodIs
  <2>4. ValidPresentation(e)
    BY <2>1, <2>2, <2>3 DEF ValidPresentation, OnlyGroups, RoutePointOwner
  <2>5. Good(e)
    BY <2>2, <2>4, OnlyStatesGood DEF OnlyGroups
  <2>6. u.now.groups = d.groups
    BY <2>1, <2>2, PartsAre
  <2>7. u.now = d
    BY <2>2, <2>6, SameDocument DEF OnlyGroups
  <2>8. ~d.read_only /\ (d.groups[g] # None => ~d.groups[g].locked) => Spared(d, e)
    BY <2>2, SparedStates DEF OnlyGroups
  <2> QED
    BY <2>1, <2>2, <2>5, <2>7, <2>8
<1> QED
  BY <1>1, UndoesFrom

LEMMA SetGroupLookIs ==
    ASSUME NEW t \in Transactions, NEW g \in Groups, NEW look \in Looks
    PROVE  LET x == SetGroupLook(t, g, look) IN
           /\ x # None =>
                 /\ Follows(t, x) /\ OnlyGroup(t.now, x.now, g)
                 /\ t.now.groups[g] # None
                 /\ x.now.groups[g] = [t.now.groups[g] EXCEPT !.look = look]
                 /\ x.now = t.now \/ (OpenGraph(t) /\ FreeGroup(t, g))
           /\ ~t.enforce /\ t.now.groups[g] # None => x # None
<1> DEFINE d == t.now
           x == SetGroupLook(t, g, look)
           v == [d.groups[g] EXCEPT !.look = look]
           e == [d EXCEPT !.groups[g].look = look]
<1>0. d \in Docs /\ t # None /\ Follows(t, t)
  BY NowIs
<1>1. CASE d.groups[g] = None
  BY <1>1 DEF SetGroupLook, When, GroupMayChange
<1>2. CASE d.groups[g] # None
  <2>1. v \in GroupValues /\ d.groups[g] \in GroupValues
    BY <1>0, <1>2, PartsAre DEF GroupValues
  <2>2. e \in Docs /\ OnlyGroup(d, e, g) /\ e.groups[g] = v
    BY <1>0, <2>1, PutGroup
  <2>3. CASE d.groups[g].look = look
    <3>1. x = t /\ v = d.groups[g]
      BY <1>2, <2>1, <2>3 DEF SetGroupLook, GroupValues
    <3> QED
      BY <1>0, <1>2, <3>1 DEF OnlyGroup, OnlyGroups
  <2>4. CASE d.groups[g].look # look
    <3>1. x = When(GroupMayChange(t, g), Stage(t, e))
      BY <1>2, <2>4 DEF SetGroupLook, DressGroup, When
    <3> HIDE DEF e, v, x
    <3>2. Follows(t, Stage(t, e)) /\ Stage(t, e).now = e /\ Stage(t, e) # None
      BY <2>2, StageIs
    <3>3. GroupMayChange(t, g) => OpenGraph(t) /\ FreeGroup(t, g)
      BY ProtectionIs DEF GroupMayChange
    <3>4. ~t.enforce => GroupMayChange(t, g)
      BY <1>2, FreeIs DEF GroupMayChange
    <3>5. /\ x # None => /\ Follows(t, x) /\ OnlyGroup(d, x.now, g) /\ x.now.groups[g] = v
                         /\ OpenGraph(t) /\ FreeGroup(t, g)
          /\ ~t.enforce => x # None
      BY <2>2, <3>1, <3>2, <3>3, <3>4 DEF When
    <3> QED
      BY <1>2, <3>5 DEF x, v
  <2> QED
    BY <2>3, <2>4
<1> QED
  BY <1>1, <1>2

LEMMA GroupLookUndoes ==
    ASSUME NEW d \in Docs, Good(d), NEW g \in Groups, d.groups[g] # None, NEW look \in Looks
    PROVE  Undoes(d, [kind |-> "group_look", group |-> g, look |-> look])
<1> DEFINE c == [kind |-> "group_look", group |-> g, look |-> look]
           b == Begin(d, TRUE)
           t == Executed(d, c)
           e == Led(d, c)
           f == Begin(e, FALSE)
           u == TakenBack(d, c)
<1>1. /\ t = SetGroupLook(b, g, look)
      /\ u = SetGroupLook(f, g, d.groups[g].look)
  BY DEF Executed, TakenBack, Apply, Revert, Capture
<1>2. /\ d.groups[g] \in GroupValues /\ d.groups[g].look \in Looks
      /\ ValidPresentation(d)
  BY PartsAre, GoodIs DEF GroupValues
<1>3. /\ b \in Transactions /\ b.now = d
      /\ OpenGraph(b) => ~d.read_only
      /\ FreeGroup(b, g) => ~d.groups[g].locked
  BY ExecutedIs
<1> HIDE DEF c, b
<1> SUFFICES ASSUME t # None, e # d
             PROVE  /\ OnlyGroup(d, e, g)
                    /\ \A n \in e.groups[g].members : d.nodes[n] # None
                    /\ ~d.read_only /\ ~d.groups[g].locked
                    /\ u \in Transactions /\ OnlyGroup(e, u.now, g)
                    /\ u.now.groups[g] = d.groups[g]
  <2>1. Undoes(d, c)
    BY GroupUndoes DEF Changes
  <2> QED
    BY <2>1 DEF c
<1>4. /\ OnlyGroup(d, e, g)
      /\ e.groups[g] = [d.groups[g] EXCEPT !.look = look]
      /\ ~d.read_only /\ ~d.groups[g].locked
  <2> HIDE DEF t
  <2> QED
    BY <1>1, <1>3, SetGroupLookIs DEF Led, t
<1>5. \A n \in e.groups[g].members : d.nodes[n] # None
  BY <1>2, <1>4 DEF ValidPresentation, GroupValues
<1>6. /\ e \in Docs /\ e.groups[g] # None
      /\ [e.groups[g] EXCEPT !.look = d.groups[g].look] = d.groups[g]
  BY <1>2, <1>4, NotNone DEF OnlyGroup, OnlyGroups, GroupValues
<1> HIDE DEF e, t
<1>7. f \in Transactions /\ f.now = e /\ ~f.enforce
  BY <1>6, RevertedIs
<1> HIDE DEF f, u
<1>8. u # None /\ Follows(f, u) /\ OnlyGroup(e, u.now, g) /\ u.now.groups[g] = d.groups[g]
  BY <1>1, <1>2, <1>6, <1>7, SetGroupLookIs
<1> QED
  BY <1>4, <1>5, <1>8 DEF Follows

LEMMA SetGroupMembersIs ==
    ASSUME NEW t \in Transactions, NEW g \in Groups, NEW members \in SUBSET Nodes
    PROVE  LET x == SetGroupMembers(t, g, members) IN
           /\ x # None =>
                 /\ Follows(t, x) /\ OnlyGroup(t.now, x.now, g)
                 /\ t.now.groups[g] # None
                 /\ x.now.groups[g] = [t.now.groups[g] EXCEPT !.members = members]
                 /\ x.now = t.now \/ (OpenGraph(t) /\ FreeGroup(t, g))
                 /\ x.now = t.now \/ (\A n \in members : t.now.nodes[n] # None)
           /\ ~t.enforce /\ t.now.groups[g] # None /\ (\A n \in members : t.now.nodes[n] # None) => x # None
<1> DEFINE d == t.now
           x == SetGroupMembers(t, g, members)
           v == [d.groups[g] EXCEPT !.members = members]
           e == [d EXCEPT !.groups[g].members = members]
<1>0. d \in Docs /\ t # None /\ Follows(t, t)
  BY NowIs
<1>1. CASE d.groups[g] = None
  BY <1>1 DEF SetGroupMembers, When, GroupMayChange, WriteMembers, Stage
<1>2. CASE d.groups[g] # None
  <2>1. v \in GroupValues /\ d.groups[g] \in GroupValues
    BY <1>0, <1>2, PartsAre DEF GroupValues
  <2>2. e \in Docs /\ OnlyGroup(d, e, g) /\ e.groups[g] = v
    <3>1. e = [d EXCEPT !.groups[g] = v]
      OBVIOUS
    <3> HIDE DEF d, e, v
    <3> QED
      BY <1>0, <2>1, <3>1, PutGroup
  <2>3. CASE d.groups[g].members = members
    <3>1. x = t /\ v = d.groups[g]
      BY <1>2, <2>1, <2>3 DEF SetGroupMembers, GroupValues
    <3> QED
      BY <1>0, <1>2, <3>1 DEF OnlyGroup, OnlyGroups
  <2>4. CASE ~(d.groups[g].members = members)
    <3>1. x = When((\A n \in members : t.now.nodes[n] # None) /\ GroupMayChange(t, g), Stage(t, e))
      BY <1>2, <2>4 DEF SetGroupMembers, WriteMembers, When
    <3> HIDE DEF e, v, x
    <3>2. Follows(t, Stage(t, e)) /\ Stage(t, e).now = e /\ Stage(t, e) # None
      BY <2>2, StageIs
    <3>3. GroupMayChange(t, g) => OpenGraph(t) /\ FreeGroup(t, g)
      BY ProtectionIs DEF GroupMayChange
    <3>4. ~t.enforce => GroupMayChange(t, g)
      BY <1>2, FreeIs DEF GroupMayChange
    <3>5. /\ x # None => /\ Follows(t, x) /\ OnlyGroup(d, x.now, g) /\ x.now.groups[g] = v
                         /\ OpenGraph(t) /\ FreeGroup(t, g) /\ (\A n \in members : t.now.nodes[n] # None)
          /\ ~t.enforce /\ (\A n \in members : t.now.nodes[n] # None) => x # None
      BY <2>2, <3>1, <3>2, <3>3, <3>4 DEF When
    <3> QED
      BY <1>2, <3>5 DEF x, v
  <2> QED
    BY <2>3, <2>4
<1> QED
  BY <1>1, <1>2

LEMMA AddGroupMembersIs ==
    ASSUME NEW t \in Transactions, NEW g \in Groups, NEW members \in SUBSET Nodes
    PROVE  LET x == AddGroupMembers(t, g, members) IN
           /\ x # None =>
                 /\ Follows(t, x) /\ OnlyGroup(t.now, x.now, g)
                 /\ t.now.groups[g] # None
                 /\ x.now.groups[g] = [t.now.groups[g] EXCEPT !.members = @ \cup members]
                 /\ x.now = t.now \/ (OpenGraph(t) /\ FreeGroup(t, g))
                 /\ x.now = t.now \/ (\A n \in members : t.now.nodes[n] # None)
           /\ ~t.enforce /\ t.now.groups[g] # None /\ (\A n \in members : t.now.nodes[n] # None) => x # None
<1> DEFINE d == t.now
           x == AddGroupMembers(t, g, members)
           v == [d.groups[g] EXCEPT !.members = @ \cup members]
           e == [d EXCEPT !.groups[g].members = @ \cup members]
<1>0. d \in Docs /\ t # None /\ Follows(t, t)
  BY NowIs
<1>1. CASE d.groups[g] = None
  BY <1>1 DEF AddGroupMembers, When, GroupMayChange, InsertMembers, Stage
<1>2. CASE d.groups[g] # None
  <2>1. v \in GroupValues /\ d.groups[g] \in GroupValues
    BY <1>0, <1>2, PartsAre DEF GroupValues
  <2>2. e \in Docs /\ OnlyGroup(d, e, g) /\ e.groups[g] = v
    <3>1. e = [d EXCEPT !.groups[g] = v]
      OBVIOUS
    <3> HIDE DEF d, e, v
    <3> QED
      BY <1>0, <2>1, <3>1, PutGroup
  <2>3. CASE members \subseteq d.groups[g].members
    <3>1. x = t /\ v = d.groups[g]
      BY <1>2, <2>1, <2>3 DEF AddGroupMembers, GroupValues
    <3> QED
      BY <1>0, <1>2, <3>1 DEF OnlyGroup, OnlyGroups
  <2>4. CASE ~(members \subseteq d.groups[g].members)
    <3>1. x = When((\A n \in members : t.now.nodes[n] # None) /\ GroupMayChange(t, g), Stage(t, e))
      BY <1>2, <2>4 DEF AddGroupMembers, InsertMembers, When
    <3> HIDE DEF e, v, x
    <3>2. Follows(t, Stage(t, e)) /\ Stage(t, e).now = e /\ Stage(t, e) # None
      BY <2>2, StageIs
    <3>3. GroupMayChange(t, g) => OpenGraph(t) /\ FreeGroup(t, g)
      BY ProtectionIs DEF GroupMayChange
    <3>4. ~t.enforce => GroupMayChange(t, g)
      BY <1>2, FreeIs DEF GroupMayChange
    <3>5. /\ x # None => /\ Follows(t, x) /\ OnlyGroup(d, x.now, g) /\ x.now.groups[g] = v
                         /\ OpenGraph(t) /\ FreeGroup(t, g) /\ (\A n \in members : t.now.nodes[n] # None)
          /\ ~t.enforce /\ (\A n \in members : t.now.nodes[n] # None) => x # None
      BY <2>2, <3>1, <3>2, <3>3, <3>4 DEF When
    <3> QED
      BY <1>2, <3>5 DEF x, v
  <2> QED
    BY <2>3, <2>4
<1> QED
  BY <1>1, <1>2

LEMMA RemoveGroupMembersIs ==
    ASSUME NEW t \in Transactions, NEW g \in Groups, NEW members \in SUBSET Nodes
    PROVE  LET x == RemoveGroupMembers(t, g, members) IN
           /\ x # None =>
                 /\ Follows(t, x) /\ OnlyGroup(t.now, x.now, g)
                 /\ t.now.groups[g] # None
                 /\ x.now.groups[g] = [t.now.groups[g] EXCEPT !.members = @ \ members]
                 /\ x.now = t.now \/ (OpenGraph(t) /\ FreeGroup(t, g))
           /\ ~t.enforce /\ t.now.groups[g] # None => x # None
<1> DEFINE d == t.now
           x == RemoveGroupMembers(t, g, members)
           v == [d.groups[g] EXCEPT !.members = @ \ members]
           e == [d EXCEPT !.groups[g].members = @ \ members]
<1>0. d \in Docs /\ t # None /\ Follows(t, t)
  BY NowIs
<1>1. CASE d.groups[g] = None
  BY <1>1 DEF RemoveGroupMembers, When, GroupMayChange, EraseMembers, Stage
<1>2. CASE d.groups[g] # None
  <2>1. v \in GroupValues /\ d.groups[g] \in GroupValues
    BY <1>0, <1>2, PartsAre DEF GroupValues
  <2>2. e \in Docs /\ OnlyGroup(d, e, g) /\ e.groups[g] = v
    <3>1. e = [d EXCEPT !.groups[g] = v]
      OBVIOUS
    <3> HIDE DEF d, e, v
    <3> QED
      BY <1>0, <2>1, <3>1, PutGroup
  <2>3. CASE members \cap d.groups[g].members = {}
    <3>1. x = t /\ v = d.groups[g]
      BY <1>2, <2>1, <2>3 DEF RemoveGroupMembers, GroupValues
    <3> QED
      BY <1>0, <1>2, <3>1 DEF OnlyGroup, OnlyGroups
  <2>4. CASE ~(members \cap d.groups[g].members = {})
    <3>1. x = When(GroupMayChange(t, g), Stage(t, e))
      BY <1>2, <2>4 DEF RemoveGroupMembers, EraseMembers, When
    <3> HIDE DEF e, v, x
    <3>2. Follows(t, Stage(t, e)) /\ Stage(t, e).now = e /\ Stage(t, e) # None
      BY <2>2, StageIs
    <3>3. GroupMayChange(t, g) => OpenGraph(t) /\ FreeGroup(t, g)
      BY ProtectionIs DEF GroupMayChange
    <3>4. ~t.enforce => GroupMayChange(t, g)
      BY <1>2, FreeIs DEF GroupMayChange
    <3>5. /\ x # None => /\ Follows(t, x) /\ OnlyGroup(d, x.now, g) /\ x.now.groups[g] = v
                         /\ OpenGraph(t) /\ FreeGroup(t, g)
          /\ ~t.enforce => x # None
      BY <2>2, <3>1, <3>2, <3>3, <3>4 DEF When
    <3> QED
      BY <1>2, <3>5 DEF x, v
  <2> QED
    BY <2>3, <2>4
<1> QED
  BY <1>1, <1>2

LEMMA SetGroupLockedIs ==
    ASSUME NEW t \in Transactions, NEW g \in Groups, NEW flag \in BOOLEAN
    PROVE  LET x == SetGroupLocked(t, g, flag) IN
           /\ x # None =>
                 /\ Follows(t, x) /\ OnlyGroup(t.now, x.now, g)
                 /\ t.now.groups[g] # None
                 /\ x.now.groups[g] = [t.now.groups[g] EXCEPT !.locked = flag]
                 /\ x.now = t.now \/ OpenGraph(t)
           /\ ~t.enforce /\ t.now.groups[g] # None => x # None
<1> DEFINE d == t.now
           x == SetGroupLocked(t, g, flag)
           v == [d.groups[g] EXCEPT !.locked = flag]
           e == [d EXCEPT !.groups[g].locked = flag]
<1>0. d \in Docs /\ t # None /\ Follows(t, t)
  BY NowIs
<1>1. CASE d.groups[g] = None
  BY <1>1 DEF SetGroupLocked, When, GroupMayChange, LockGroup, Stage
<1>2. CASE d.groups[g] # None
  <2>1. v \in GroupValues /\ d.groups[g] \in GroupValues
    BY <1>0, <1>2, PartsAre DEF GroupValues
  <2>2. e \in Docs /\ OnlyGroup(d, e, g) /\ e.groups[g] = v
    <3>1. e = [d EXCEPT !.groups[g] = v]
      OBVIOUS
    <3> HIDE DEF d, e, v
    <3> QED
      BY <1>0, <2>1, <3>1, PutGroup
  <2>3. CASE d.groups[g].locked = flag
    <3>1. x = t /\ v = d.groups[g]
      BY <1>2, <2>1, <2>3 DEF SetGroupLocked, GroupValues
    <3> QED
      BY <1>0, <1>2, <3>1 DEF OnlyGroup, OnlyGroups
  <2>4. CASE ~(d.groups[g].locked = flag)
    <3>1. x = When(~GraphReadOnly(t), Stage(t, e))
      BY <1>2, <2>4 DEF SetGroupLocked, LockGroup, When
    <3> HIDE DEF e, v, x
    <3>2. Follows(t, Stage(t, e)) /\ Stage(t, e).now = e /\ Stage(t, e) # None
      BY <2>2, StageIs
    <3>3. ~GraphReadOnly(t) => OpenGraph(t)
      BY ProtectionIs DEF GroupMayChange
    <3>4. ~t.enforce => ~GraphReadOnly(t)
      BY <1>2, FreeIs DEF GroupMayChange
    <3>5. /\ x # None => /\ Follows(t, x) /\ OnlyGroup(d, x.now, g) /\ x.now.groups[g] = v
                         /\ OpenGraph(t)
          /\ ~t.enforce => x # None
      BY <2>2, <3>1, <3>2, <3>3, <3>4 DEF When
    <3> QED
      BY <1>2, <3>5 DEF x, v
  <2> QED
    BY <2>3, <2>4
<1> QED
  BY <1>1, <1>2

LEMMA MembersCommandUndoes ==
    ASSUME NEW d \in Docs, Good(d), NEW g \in Groups, d.groups[g] # None, NEW members \in SUBSET Nodes
    PROVE  Undoes(d, [kind |-> "members", group |-> g, members |-> members])
<1> DEFINE c == [kind |-> "members", group |-> g, members |-> members]
           b == Begin(d, TRUE)
           t == Executed(d, c)
           e == Led(d, c)
           f == Begin(e, FALSE)
           u == TakenBack(d, c)
<1>1. /\ t = SetGroupMembers(b, g, members)
      /\ u = SetGroupMembers(f, g, d.groups[g].members)
      /\ c.kind = "members"
  BY DEF Executed, TakenBack, Apply, Revert, Capture
<1>2. /\ d.groups[g] \in GroupValues /\ d.groups[g].locked \in BOOLEAN
      /\ d.groups[g].members \in SUBSET Nodes
      /\ ValidPresentation(d)
  BY PartsAre, GoodIs DEF GroupValues
<1>3. /\ b \in Transactions /\ b.now = d
      /\ OpenGraph(b) => ~d.read_only
      /\ FreeGroup(b, g) => ~d.groups[g].locked
  BY ExecutedIs
<1> HIDE DEF c, b
<1> SUFFICES ASSUME t # None, e # d
             PROVE  /\ OnlyGroup(d, e, g)
                    /\ \A n \in e.groups[g].members : d.nodes[n] # None
                    /\ c.kind \in Unguarded \/ (~d.read_only /\ ~d.groups[g].locked)
                    /\ u \in Transactions /\ OnlyGroup(e, u.now, g)
                    /\ u.now.groups[g] = d.groups[g]
  <2>1. Undoes(d, c)
    BY GroupUndoes DEF Changes
  <2> QED
    BY <2>1 DEF c
<1>4. /\ OnlyGroup(d, e, g)
      /\ e.groups[g] = [d.groups[g] EXCEPT !.members = members]
      /\ ~d.read_only /\ ~d.groups[g].locked /\ \A n \in members : d.nodes[n] # None
  <2> HIDE DEF t
  <2> QED
    BY <1>1, <1>2, <1>3, SetGroupMembersIs DEF Led, t, Unguarded
<1>5. \A n \in e.groups[g].members : d.nodes[n] # None
  BY <1>2, <1>4 DEF ValidPresentation, GroupValues
<1>6. /\ e \in Docs /\ e.groups[g] # None /\ e.nodes = d.nodes
      /\ [e.groups[g] EXCEPT !.members = d.groups[g].members] = d.groups[g]
  BY <1>2, <1>4, NotNone DEF OnlyGroup, OnlyGroups, GroupValues
<1> HIDE DEF e, t
<1>7. f \in Transactions /\ f.now = e /\ ~f.enforce
  BY <1>6, RevertedIs
<1> HIDE DEF f, u
<1>8. u # None /\ Follows(f, u) /\ OnlyGroup(e, u.now, g) /\ u.now.groups[g] = d.groups[g]
  BY <1>1, <1>2, <1>6, <1>7, SetGroupMembersIs DEF ValidPresentation
<1> QED
  BY <1>1, <1>4, <1>5, <1>8 DEF Follows, Unguarded

LEMMA GroupLockedCommandUndoes ==
    ASSUME NEW d \in Docs, Good(d), NEW g \in Groups, d.groups[g] # None, NEW flag \in BOOLEAN
    PROVE  Undoes(d, [kind |-> "locked", part |-> "groups", id |-> g, flag |-> flag])
<1> DEFINE c == [kind |-> "locked", part |-> "groups", id |-> g, flag |-> flag]
           b == Begin(d, TRUE)
           t == Executed(d, c)
           e == Led(d, c)
           f == Begin(e, FALSE)
           u == TakenBack(d, c)
<1>1. /\ t = SetGroupLocked(b, g, flag)
      /\ u = SetGroupLocked(f, g, d.groups[g].locked)
      /\ c.kind = "locked"
  BY DEF Executed, TakenBack, Apply, Revert, Capture, SetPartLocked
<1>2. /\ d.groups[g] \in GroupValues /\ d.groups[g].locked \in BOOLEAN
      /\ d.groups[g].members \in SUBSET Nodes
      /\ ValidPresentation(d)
  BY PartsAre, GoodIs DEF GroupValues
<1>3. /\ b \in Transactions /\ b.now = d
      /\ OpenGraph(b) => ~d.read_only
      /\ FreeGroup(b, g) => ~d.groups[g].locked
  BY ExecutedIs
<1> HIDE DEF c, b
<1> SUFFICES ASSUME t # None, e # d
             PROVE  /\ OnlyGroup(d, e, g)
                    /\ \A n \in e.groups[g].members : d.nodes[n] # None
                    /\ c.kind \in Unguarded \/ (~d.read_only /\ ~d.groups[g].locked)
                    /\ u \in Transactions /\ OnlyGroup(e, u.now, g)
                    /\ u.now.groups[g] = d.groups[g]
  <2>1. Undoes(d, c)
    BY GroupUndoes DEF Changes
  <2> QED
    BY <2>1 DEF c
<1>4. /\ OnlyGroup(d, e, g)
      /\ e.groups[g] = [d.groups[g] EXCEPT !.locked = flag]
      /\ TRUE
  <2> HIDE DEF t
  <2> QED
    BY <1>1, <1>2, <1>3, SetGroupLockedIs DEF Led, t, Unguarded
<1>5. \A n \in e.groups[g].members : d.nodes[n] # None
  BY <1>2, <1>4 DEF ValidPresentation, GroupValues
<1>6. /\ e \in Docs /\ e.groups[g] # None /\ e.nodes = d.nodes
      /\ [e.groups[g] EXCEPT !.locked = d.groups[g].locked] = d.groups[g]
  BY <1>2, <1>4, NotNone DEF OnlyGroup, OnlyGroups, GroupValues
<1> HIDE DEF e, t
<1>7. f \in Transactions /\ f.now = e /\ ~f.enforce
  BY <1>6, RevertedIs
<1> HIDE DEF f, u
<1>8. u # None /\ Follows(f, u) /\ OnlyGroup(e, u.now, g) /\ u.now.groups[g] = d.groups[g]
  BY <1>1, <1>2, <1>6, <1>7, SetGroupLockedIs DEF ValidPresentation
<1> QED
  BY <1>1, <1>4, <1>5, <1>8 DEF Follows, Unguarded

LEMMA AddGroupIs ==
    ASSUME NEW t \in Transactions, NEW g \in Groups, NEW group \in GroupValues
    PROVE  LET x == AddGroup(t, g, group) IN
           /\ x # None =>
                 /\ Follows(t, x) /\ OnlyGroup(t.now, x.now, g)
                 /\ t.now.groups[g] = None /\ x.now.groups[g] = group
                 /\ \A n \in group.members : t.now.nodes[n] # None
                 /\ OpenGraph(t)
           /\ /\ ~t.enforce /\ t.now.groups[g] = None
              /\ \A n \in group.members : t.now.nodes[n] # None
              => x # None
<1> DEFINE d == t.now
           x == AddGroup(t, g, group)
           e == [d EXCEPT !.groups[g] = group]
<1>0. d \in Docs /\ t # None
  BY NowIs
<1>1. e \in Docs /\ OnlyGroup(d, e, g) /\ e.groups[g] = group
  BY <1>0, PutGroup
<1>2. x = IF /\ \A n \in group.members : d.nodes[n] # None
             /\ ~GraphReadOnly(t) /\ d.groups[g] = None
          THEN Stage(t, e) ELSE None
  BY <1>0 DEF AddGroup, InsertGroup, When, Stage
<1> HIDE DEF e, x
<1>3. Follows(t, Stage(t, e)) /\ Stage(t, e).now = e /\ Stage(t, e) # None
  BY <1>1, StageIs
<1>4. (~GraphReadOnly(t) => OpenGraph(t)) /\ (~t.enforce => ~GraphReadOnly(t))
  BY ProtectionIs, FreeIs
<1>5. x # None => /\ Follows(t, x) /\ OnlyGroup(d, x.now, g)
                  /\ d.groups[g] = None /\ x.now.groups[g] = group
                  /\ \A n \in group.members : d.nodes[n] # None
                  /\ OpenGraph(t)
  BY <1>1, <1>2, <1>3, <1>4
<1>6. ~t.enforce /\ d.groups[g] = None /\ (\A n \in group.members : d.nodes[n] # None) => x # None
  BY <1>2, <1>3, <1>4
<1> QED
  BY <1>5, <1>6 DEF x

LEMMA RemoveGroupIs ==
    ASSUME NEW t \in Transactions, NEW g \in Groups
    PROVE  LET x == RemoveGroup(t, g) IN
           /\ x # None =>
                 /\ Follows(t, x) /\ OnlyGroup(t.now, x.now, g)
                 /\ t.now.groups[g] # None /\ x.now.groups[g] = None
                 /\ OpenGraph(t) /\ FreeGroup(t, g)
           /\ ~t.enforce /\ t.now.groups[g] # None => x # None
<1> DEFINE d == t.now
           x == RemoveGroup(t, g)
           e == [d EXCEPT !.groups[g] = None]
<1>0. d \in Docs /\ t # None
  BY NowIs
<1>1. e \in Docs /\ OnlyGroup(d, e, g) /\ e.groups[g] = None
  BY <1>0, PutGroup
<1>2. x = IF GroupMayChange(t, g) THEN Stage(t, e) ELSE None
  BY <1>0 DEF RemoveGroup, EraseGroup, When, GroupMayChange
<1> HIDE DEF e, x
<1>3. Follows(t, Stage(t, e)) /\ Stage(t, e).now = e /\ Stage(t, e) # None
  BY <1>1, StageIs
<1>4. /\ GroupMayChange(t, g) => OpenGraph(t) /\ FreeGroup(t, g) /\ d.groups[g] # None
      /\ ~t.enforce /\ d.groups[g] # None => GroupMayChange(t, g)
  BY ProtectionIs, FreeIs DEF GroupMayChange
<1>5. /\ x # None => /\ Follows(t, x) /\ OnlyGroup(d, x.now, g)
                     /\ d.groups[g] # None /\ x.now.groups[g] = None
                     /\ OpenGraph(t) /\ FreeGroup(t, g)
      /\ ~t.enforce /\ d.groups[g] # None => x # None
  BY <1>1, <1>2, <1>3, <1>4
<1> QED
  BY <1>5 DEF x

LEMMA AddGroupUndoes ==
    ASSUME NEW d \in Docs, Good(d), NEW g \in Groups, NEW group \in GroupValues
    PROVE  Undoes(d, [kind |-> "add_group", group |-> g, instance |-> group])
<1> DEFINE c == [kind |-> "add_group", group |-> g, instance |-> group]
           b == Begin(d, TRUE)
           t == Executed(d, c)
           e == Led(d, c)
           f == Begin(e, FALSE)
           u == TakenBack(d, c)
<1>1. t = AddGroup(b, g, group) /\ u = RemoveGroup(f, g)
  BY DEF Executed, TakenBack, Apply, Revert, Capture
<1>2. /\ b \in Transactions /\ b.now = d
      /\ OpenGraph(b) => ~d.read_only
  BY ExecutedIs
<1> HIDE DEF c, b
<1> SUFFICES ASSUME t # None, e # d
             PROVE  /\ OnlyGroup(d, e, g) /\ d.groups[g] = None /\ e.groups[g] # None
                    /\ \A n \in e.groups[g].members : d.nodes[n] # None
                    /\ ~d.read_only
                    /\ u \in Transactions /\ OnlyGroup(e, u.now, g)
                    /\ u.now.groups[g] = d.groups[g]
  <2>1. Undoes(d, c)
    BY GroupUndoes DEF Changes
  <2> QED
    BY <2>1 DEF c
<1>3. /\ OnlyGroup(d, e, g) /\ d.groups[g] = None /\ e.groups[g] = group
      /\ \A n \in group.members : d.nodes[n] # None
      /\ ~d.read_only
  <2> HIDE DEF t
  <2> QED
    BY <1>1, <1>2, AddGroupIs DEF Led, t
<1>4. e \in Docs /\ e.groups[g] # None
  BY <1>3, NotNone DEF OnlyGroup, OnlyGroups
<1> HIDE DEF e, t
<1>5. f \in Transactions /\ f.now = e /\ ~f.enforce
  BY <1>4, RevertedIs
<1> HIDE DEF f, u
<1>6. u # None /\ Follows(f, u) /\ OnlyGroup(e, u.now, g) /\ u.now.groups[g] = None
  BY <1>1, <1>4, <1>5, RemoveGroupIs
<1> QED
  BY <1>3, <1>4, <1>6 DEF Follows

LEMMA RemoveGroupUndoes ==
    ASSUME NEW d \in Docs, Good(d), NEW g \in Groups, d.groups[g] # None
    PROVE  Undoes(d, [kind |-> "remove_group", group |-> g])
<1> DEFINE c == [kind |-> "remove_group", group |-> g]
           b == Begin(d, TRUE)
           t == Executed(d, c)
           e == Led(d, c)
           f == Begin(e, FALSE)
           u == TakenBack(d, c)
<1>1. t = RemoveGroup(b, g) /\ u = AddGroup(f, g, d.groups[g])
  BY DEF Executed, TakenBack, Apply, Revert, Capture
<1>2. /\ b \in Transactions /\ b.now = d
      /\ OpenGraph(b) => ~d.read_only
      /\ FreeGroup(b, g) => ~d.groups[g].locked
  BY ExecutedIs
<1>3. d.groups[g] \in GroupValues /\ d.groups[g].members \in SUBSET Nodes /\ ValidPresentation(d)
  BY PartsAre, GoodIs DEF GroupValues
<1> HIDE DEF c, b
<1> SUFFICES ASSUME t # None, e # d
             PROVE  /\ OnlyGroup(d, e, g) /\ e.groups[g] = None
                    /\ ~d.read_only /\ ~d.groups[g].locked
                    /\ u \in Transactions /\ OnlyGroup(e, u.now, g)
                    /\ u.now.groups[g] = d.groups[g]
  <2>1. Undoes(d, c)
    BY GroupUndoes DEF Changes
  <2> QED
    BY <2>1 DEF c
<1>4. OnlyGroup(d, e, g) /\ e.groups[g] = None /\ ~d.read_only /\ ~d.groups[g].locked
  <2> HIDE DEF t
  <2> QED
    BY <1>1, <1>2, RemoveGroupIs DEF Led, t
<1>5. /\ e \in Docs /\ e.nodes = d.nodes
      /\ \A n \in d.groups[g].members : d.nodes[n] # None
  BY <1>3, <1>4 DEF OnlyGroup, OnlyGroups, ValidPresentation
<1> HIDE DEF e, t
<1>6. f \in Transactions /\ f.now = e /\ ~f.enforce
  BY <1>5, RevertedIs
<1> HIDE DEF f, u
<1>7. u # None /\ Follows(f, u) /\ OnlyGroup(e, u.now, g) /\ u.now.groups[g] = d.groups[g]
  BY <1>1, <1>3, <1>4, <1>5, <1>6, AddGroupIs
<1> QED
  BY <1>4, <1>7 DEF Follows

LEMMA ChangeMembersIs ==
    ASSUME NEW t \in Transactions, NEW g \in Groups,
           NEW removed \in SUBSET Nodes, NEW added \in SUBSET Nodes
    PROVE  LET x == ChangeMembers(t, g, removed, added) IN
           /\ x # None =>
                 /\ Follows(t, x) /\ OnlyGroup(t.now, x.now, g)
                 /\ t.now.groups[g] # None
                 /\ x.now.groups[g] = [t.now.groups[g] EXCEPT !.members = (@ \ removed) \cup added]
                 /\ x.now = t.now \/ (OpenGraph(t) /\ FreeGroup(t, g))
                 /\ \A n \in added : n \in t.now.groups[g].members \/ t.now.nodes[n] # None
           /\ /\ ~t.enforce /\ t.now.groups[g] # None
              /\ \A n \in added : t.now.nodes[n] # None
              => x # None
<1> DEFINE d == t.now
           y == RemoveGroupMembers(t, g, removed)
           x == AddGroupMembers(y, g, added)
           z == ChangeMembers(t, g, removed, added)
<1>0. d \in Docs /\ t # None
  BY NowIs
<1>1. y # None => /\ Follows(t, y) /\ OnlyGroup(d, y.now, g)
                  /\ d.groups[g] # None
                  /\ y.now.groups[g] = [d.groups[g] EXCEPT !.members = @ \ removed]
                  /\ y.now = d \/ (OpenGraph(t) /\ FreeGroup(t, g))
  BY RemoveGroupMembersIs
<1>2. ~t.enforce /\ d.groups[g] # None => y # None
  BY RemoveGroupMembersIs
<1>3. z = IF y = None THEN None ELSE x
  BY DEF ChangeMembers, Then
<1>4. ASSUME y # None
      PROVE  /\ x # None =>
                   /\ Follows(y, x) /\ OnlyGroup(y.now, x.now, g)
                   /\ y.now.groups[g] # None
                   /\ x.now.groups[g] = [y.now.groups[g] EXCEPT !.members = @ \cup added]
                   /\ x.now = y.now \/ (OpenGraph(y) /\ FreeGroup(y, g))
                   /\ x.now = y.now \/ (\A n \in added : y.now.nodes[n] # None)
             /\ /\ ~y.enforce /\ y.now.groups[g] # None
                /\ \A n \in added : y.now.nodes[n] # None
                => x # None
  <2>1. y \in Transactions
    BY <1>1, <1>4 DEF Follows
  <2> HIDE DEF y
  <2> QED
    BY <2>1, AddGroupMembersIs
<1> HIDE DEF x, y, z
<1>5. d.groups[g] # None => d.groups[g] \in GroupValues
  BY <1>0, PartsAre
<1>6. ASSUME y # None
      PROVE  /\ OpenGraph(y) <=> OpenGraph(t)
             /\ FreeGroup(y, g) <=> FreeGroup(t, g)
             /\ y.now.groups[g] # None /\ y.now.nodes = d.nodes
             /\ y.now.groups[g].members = d.groups[g].members \ removed
             /\ [y.now.groups[g] EXCEPT !.members = @ \cup added] =
                   [d.groups[g] EXCEPT !.members = (@ \ removed) \cup added]
  <2>1. y.now.groups[g] \in GroupValues
    BY <1>1, <1>5, <1>6 DEF GroupValues
  <2> QED
    BY <1>1, <1>5, <1>6, <2>1, NotNone
       DEF OpenGraph, FreeGroup, Follows, OnlyGroup, OnlyGroups, GroupValues
<1>7. ASSUME z # None
      PROVE  /\ Follows(t, z) /\ OnlyGroup(d, z.now, g)
             /\ d.groups[g] # None
             /\ z.now.groups[g] = [d.groups[g] EXCEPT !.members = (@ \ removed) \cup added]
             /\ z.now = d \/ (OpenGraph(t) /\ FreeGroup(t, g))
             /\ \A n \in added : n \in d.groups[g].members \/ d.nodes[n] # None
  <2>1. y # None /\ x # None /\ z = x
    BY <1>3, <1>7
  <2>2. Follows(t, z)
    BY <1>1, <1>4, <2>1, FollowsOn
  <2>3. OnlyGroup(d, z.now, g)
    BY <1>1, <1>4, <2>1 DEF OnlyGroup, OnlyGroups
  <2>4. z.now.groups[g] = [d.groups[g] EXCEPT !.members = (@ \ removed) \cup added]
    BY <1>4, <1>6, <2>1
  <2>5. \A n \in added : n \in d.groups[g].members \/ d.nodes[n] # None
    <3>1. CASE x.now = y.now
      <4>1. [y.now.groups[g] EXCEPT !.members = @ \cup added] = y.now.groups[g]
        BY <1>4, <2>1, <3>1
      <4>2. y.now.groups[g] \in GroupValues
        BY <1>1, <1>5, <2>1 DEF GroupValues
      <4>3. added \subseteq y.now.groups[g].members
        <5>1. [y.now.groups[g] EXCEPT !.members = @ \cup added].members =
                 y.now.groups[g].members \cup added
          BY <4>2 DEF GroupValues
        <5> QED
          BY <4>1, <5>1
      <4> QED
        BY <1>6, <2>1, <4>3
    <3> QED
      BY <1>4, <1>6, <2>1, <3>1
  <2> QED
    BY <1>1, <1>4, <1>6, <2>1, <2>2, <2>3, <2>4, <2>5
<1>8. ASSUME ~t.enforce, d.groups[g] # None, \A n \in added : d.nodes[n] # None
      PROVE  z # None
  <2>1. y # None /\ ~y.enforce
    BY <1>1, <1>2, <1>8 DEF Follows
  <2> QED
    BY <1>3, <1>4, <1>6, <1>8, <2>1
<1> QED
  BY <1>7, <1>8 DEF z

LEMMA ChangeMembersUndoes ==
    ASSUME NEW d \in Docs, Good(d), NEW g \in Groups, d.groups[g] # None,
           NEW added \in SUBSET Nodes, NEW removed \in SUBSET Nodes
    PROVE  Undoes(d, [kind |-> "change_members", group |-> g, added |-> added,
                      removed |-> removed])
<1> DEFINE c == [kind |-> "change_members", group |-> g, added |-> added, removed |-> removed]
           members == d.groups[g].members
           A == added \ members
           R == (removed \cap members) \ added
           b == Begin(d, TRUE)
           t == Executed(d, c)
           e == Led(d, c)
           f == Begin(e, FALSE)
           u == TakenBack(d, c)
<1>0. Capture(d, c) = [added |-> A, removed |-> R]
  BY DEF Capture, CaptureMembers
<1>1. t = ChangeMembers(b, g, R, A) /\ u = ChangeMembers(f, g, A, R)
  <2>1. /\ t = ChangeMembers(b, g, Capture(d, c).removed, Capture(d, c).added)
        /\ u = ChangeMembers(f, g, Capture(d, c).added, Capture(d, c).removed)
    BY DEF Executed, TakenBack, Apply, Revert
  <2>2. Capture(d, c).added = A /\ Capture(d, c).removed = R
    BY <1>0
  <2> HIDE DEF A, R, t, u, c, b, f
  <2> QED
    BY <2>1, <2>2
<1>2. /\ d.groups[g] \in GroupValues /\ members \in SUBSET Nodes
      /\ A \in SUBSET Nodes /\ R \in SUBSET Nodes
      /\ \A n \in members : d.nodes[n] # None
  BY PartsAre, GoodIs DEF GroupValues, ValidPresentation
<1>3. /\ b \in Transactions /\ b.now = d
      /\ OpenGraph(b) => ~d.read_only
      /\ FreeGroup(b, g) => ~d.groups[g].locked
  BY ExecutedIs
<1>4. (members \ R) \cup A \subseteq members \cup A /\ (((members \ R) \cup A) \ A) \cup R = members
      /\ R \subseteq members /\ A \cap members = {}
  OBVIOUS
<1> HIDE DEF c, b, A, R
<1> SUFFICES ASSUME t # None, e # d
             PROVE  /\ OnlyGroup(d, e, g)
                    /\ \A n \in e.groups[g].members : d.nodes[n] # None
                    /\ ~d.read_only /\ ~d.groups[g].locked
                    /\ u \in Transactions /\ OnlyGroup(e, u.now, g)
                    /\ u.now.groups[g] = d.groups[g]
  <2>1. Undoes(d, c)
    BY GroupUndoes DEF Changes
  <2> QED
    BY <2>1 DEF c
<1>5. /\ OnlyGroup(d, e, g)
      /\ e.groups[g] = [d.groups[g] EXCEPT !.members = (@ \ R) \cup A]
      /\ ~d.read_only /\ ~d.groups[g].locked
      /\ \A n \in A : n \in members \/ d.nodes[n] # None
  <2> HIDE DEF t
  <2> QED
    BY <1>1, <1>2, <1>3, ChangeMembersIs DEF Led, t
<1>6. e.groups[g] \in GroupValues /\ e.groups[g].members = (members \ R) \cup A
  BY <1>2, <1>5 DEF GroupValues
<1>7. \A n \in e.groups[g].members : d.nodes[n] # None
  BY <1>2, <1>4, <1>5, <1>6
<1>8. /\ e \in Docs /\ e.groups[g] # None /\ e.nodes = d.nodes
      /\ [e.groups[g] EXCEPT !.members = (@ \ A) \cup R] = d.groups[g]
  <2>1. e \in Docs /\ e.groups[g] # None /\ e.nodes = d.nodes
    BY <1>5, <1>6, NotNone DEF OnlyGroup, OnlyGroups
  <2>2. [e.groups[g] EXCEPT !.members = (@ \ A) \cup R] = [e.groups[g] EXCEPT !.members = members]
    BY <1>4, <1>6
  <2>3. [e.groups[g] EXCEPT !.members = members] = d.groups[g]
    BY <1>2, <1>5 DEF GroupValues
  <2> QED
    BY <2>1, <2>2, <2>3
<1> HIDE DEF e, t
<1>9. f \in Transactions /\ f.now = e /\ ~f.enforce
  BY <1>8, RevertedIs
<1> HIDE DEF f, u
<1>10. u # None /\ Follows(f, u) /\ OnlyGroup(e, u.now, g) /\ u.now.groups[g] = d.groups[g]
  BY <1>1, <1>2, <1>4, <1>8, <1>9, ChangeMembersIs
<1> QED
  BY <1>5, <1>7, <1>10 DEF Follows

-----------------------------------------------------------------------------
(* Loops: what a fold over a set goes through                              *)

Rest(s) == s \ {CHOOSE x \in s : TRUE}
Folds(S, t, step) ==
    {f \in [SUBSET S -> Staged] :
        /\ f[{}] = t
        /\ \A s \in SUBSET S : s # {} => f[s] = step[<<f[Rest(s)], CHOOSE x \in s : TRUE>>]}

LEMMA FoldsExist ==
    ASSUME NEW S, IsFiniteSet(S), NEW t \in Staged, NEW step \in [Staged \X S -> Staged]
    PROVE  Folds(S, t, step) # {}
<1> DEFINE Small(n) == {s \in SUBSET S : Cardinality(s) <= n}
           Is(f, n) == /\ f[{}] = t
                       /\ \A s \in Small(n) : s # {} =>
                             f[s] = step[<<f[Rest(s)], CHOOSE x \in s : TRUE>>]
           T == {n \in Nat : \E f \in [Small(n) -> Staged] : Is(f, n)}
<1>1. \A s \in SUBSET S : IsFiniteSet(s) /\ Cardinality(s) \in Nat
  BY FS_Subset, FS_CardinalityType
<1>2. ASSUME NEW s \in SUBSET S, s # {}
      PROVE  /\ (CHOOSE x \in s : TRUE) \in s /\ Rest(s) \in SUBSET S
             /\ Cardinality(Rest(s)) = Cardinality(s) - 1
  <2> DEFINE x == CHOOSE x \in s : TRUE
  <2>1. x \in s
    BY <1>2
  <2>2. Rest(s) = s \ {x}
    BY DEF Rest
  <2> HIDE DEF x
  <2>3. Cardinality(s \ {x}) = Cardinality(s) - 1
    BY <1>1, <2>1, FS_RemoveElement
  <2> QED
    BY <2>1, <2>2, <2>3 DEF x
<1>3. 0 \in T
  <2>1. \A s \in Small(0) : s = {}
    <3>1. \A s \in SUBSET S : Cardinality(s) <= 0 => Cardinality(s) = 0
      BY <1>1
    <3> QED
      BY <1>1, <3>1, FS_EmptySet
  <2>2. {} \in Small(0)
    BY FS_EmptySet
  <2>3. [s \in Small(0) |-> t] \in [Small(0) -> Staged] /\ Is([s \in Small(0) |-> t], 0)
    BY <2>1, <2>2
  <2> HIDE DEF Small, Is
  <2> QED
    BY <2>3
<1>4. ASSUME NEW n \in Nat, n \in T PROVE n + 1 \in T
  <2>1. PICK f \in [Small(n) -> Staged] : Is(f, n)
    BY <1>4
  <2> DEFINE g == [s \in Small(n + 1) |-> IF s \in Small(n) THEN f[s]
                                          ELSE step[<<f[Rest(s)], CHOOSE x \in s : TRUE>>]]
  <2>2. \A s \in Small(n) : s \in Small(n + 1)
    BY <1>1
  <2>3. ASSUME NEW s \in Small(n + 1), s # {}
        PROVE  Rest(s) \in Small(n) /\ (CHOOSE x \in s : TRUE) \in S
    <3>1. Cardinality(s) \in Nat /\ Cardinality(s) <= n + 1
      BY <1>1
    <3> QED
      BY <1>2, <2>3, <3>1
  <2>4. {} \in Small(n)
    BY FS_EmptySet
  <2> HIDE DEF Small
  <2>5. \A s \in Small(n + 1) : g[s] \in Staged
    <3> SUFFICES ASSUME NEW s \in Small(n + 1) PROVE g[s] \in Staged
      OBVIOUS
    <3>1. CASE s \in Small(n)
      BY <3>1, <2>1
    <3>2. CASE s \notin Small(n)
      <4>1. s # {} /\ f[Rest(s)] \in Staged
        BY <2>1, <2>3, <2>4, <3>2
      <4>2. <<f[Rest(s)], CHOOSE x \in s : TRUE>> \in Staged \X S
        BY <2>3, <4>1
      <4> HIDE DEF Staged
      <4> QED
        BY <3>2, <4>2
    <3> QED
      BY <3>1, <3>2
  <2>6. g \in [Small(n + 1) -> Staged]
    BY <2>5
  <2>7. g[{}] = t
    BY <2>1, <2>2, <2>4
  <2>8. ASSUME NEW s \in Small(n + 1), s # {}
        PROVE  g[s] = step[<<g[Rest(s)], CHOOSE x \in s : TRUE>>]
    <3>1. g[Rest(s)] = f[Rest(s)]
      BY <2>2, <2>3, <2>8
    <3>2. CASE s \in Small(n)
      <4>1. f[s] = step[<<f[Rest(s)], CHOOSE x \in s : TRUE>>]
        BY <2>1, <2>8, <3>2
      <4> QED
        BY <3>1, <3>2, <4>1
    <3>3. CASE s \notin Small(n)
      BY <3>1, <3>3
    <3> QED
      BY <3>2, <3>3
  <2> HIDE DEF g
  <2>9. Is(g, n + 1)
    BY <2>7, <2>8
  <2> QED
    BY <2>6, <2>9
<1> DEFINE N == Cardinality(S)
<1>5. N \in T
  <2>1. N \in Nat
    BY <1>1
  <2> HIDE DEF T, N
  <2>2. \A n \in 0..N : n \in T
    BY <1>3, <1>4, <2>1, Induct
  <2> QED
    BY <2>1, <2>2
<1>6. Small(N) = SUBSET S
  <2>1. \A s \in SUBSET S : Cardinality(s) <= Cardinality(S)
    BY FS_Subset
  <2> QED
    BY <2>1
<1>7. PICK f \in [Small(N) -> Staged] : Is(f, N)
  BY <1>5
<1>8. f \in Folds(S, t, step)
  BY <1>6, <1>7 DEF Folds
<1> QED
  BY <1>8


LEMMA SubsetInduct ==
    ASSUME NEW S, IsFiniteSet(S), NEW D, {} \in D,
           \A s \in SUBSET S : s # {} /\ s \ {CHOOSE x \in s : TRUE} \in D => s \in D
    PROVE  S \in D
<1> DEFINE T == {n \in Nat : \A s \in SUBSET S : Cardinality(s) = n => s \in D}
<1>1. \A s \in SUBSET S : IsFiniteSet(s) /\ Cardinality(s) \in Nat
  BY FS_Subset, FS_CardinalityType
<1>2. 0 \in T
  BY <1>1, FS_EmptySet
<1>3. ASSUME NEW n \in Nat, n \in T
      PROVE  n + 1 \in T
  <2> SUFFICES ASSUME NEW s \in SUBSET S, Cardinality(s) = n + 1
               PROVE  s \in D
    OBVIOUS
  <2> DEFINE x == CHOOSE x \in s : TRUE
  <2>1. s # {}
    BY FS_EmptySet
  <2>2. x \in s
    BY <2>1
  <2>3. Cardinality(s \ {x}) = Cardinality(s) - 1
    <3> HIDE DEF x, T
    <3> QED
      BY <1>1, <2>2, FS_RemoveElement
  <2>4. Cardinality(s \ {x}) = n
    BY <2>3
  <2> QED
    BY <2>1, <2>4
<1> HIDE DEF T
<1> DEFINE N == Cardinality(S)
<1>4. N \in Nat
  BY <1>1
<1>5. \A n \in 0..N : n \in T
  <2> HIDE DEF N
  <2> QED
    BY <1>2, <1>3, <1>4, Induct
<1>6. N \in T
  BY <1>4, <1>5
<1> QED
  BY <1>6 DEF T

-----------------------------------------------------------------------------
(* Shown nodes                                                             *)

OnlyNodeState(d, e, n) ==
    OnlyNodeStates(d, e) /\ \A m \in Nodes \ {n} : e.node_states[m] = d.node_states[m]

LEMMA PutNodeState ==
    ASSUME NEW d \in Docs, NEW n \in Nodes, NEW x \in NodeStates \cup {None}
    PROVE  LET e == [d EXCEPT !.node_states[n] = x] IN
           e \in Docs /\ OnlyNodeState(d, e, n) /\ e.node_states[n] = x
<1> DEFINE states == [d.node_states EXCEPT ![n] = x]
           e == [d EXCEPT !.node_states = states]
<1>1. states \in [Nodes -> NodeStates \cup {None}] /\ states[n] = x
      /\ \A m \in Nodes \ {n} : states[m] = d.node_states[m]
  BY PartsAre
<1> HIDE DEF states
<1>2. OnlyNodeStates(d, e) /\ e.node_states = states
  BY <1>1, PutNodeStates
<1>3. e \in Docs /\ OnlyNodeState(d, e, n) /\ e.node_states[n] = x
  BY <1>1, <1>2 DEF OnlyNodeState, OnlyNodeStates
<1> QED
  BY <1>3 DEF e, states

LEMMA SetNodePresentationIs ==
    ASSUME NEW t \in Transactions, NEW n \in Nodes, NEW state \in NodeStates \cup {None}
    PROVE  LET x == SetNodePresentation(t, n, state) IN
           /\ x # None =>
                 /\ Follows(t, x) /\ OnlyNodeState(t.now, x.now, n)
                 /\ x.now.node_states[n] = state
                 /\ state = t.now.node_states[n] \/ (OpenGraph(t) /\ FreeNodeState(t, n))
                 /\ state \in {None, t.now.node_states[n]} \/ t.now.nodes[n] # None
           /\ ~t.enforce /\ (state # None => t.now.nodes[n] # None) => x # None
           /\ state = t.now.node_states[n] => x # None
<1> DEFINE d == t.now
           x == SetNodePresentation(t, n, state)
           e == [d EXCEPT !.node_states[n] = state]
<1>0. d \in Docs /\ t # None /\ Follows(t, t)
  BY NowIs
<1>1. CASE state = d.node_states[n]
  <2>1. x = t
    BY <1>1 DEF SetNodePresentation
  <2> QED
    BY <1>0, <1>1, <2>1 DEF OnlyNodeState, OnlyNodeStates
<1>2. CASE state # d.node_states[n]
  <2>1. e \in Docs /\ OnlyNodeState(d, e, n) /\ e.node_states[n] = state
    BY <1>0, PutNodeState
  <2>2. x = IF /\ state # None => d.nodes[n] # None
               /\ ~GraphReadOnly(t) /\ ~NodeLocked(t, n)
               /\ t.enforce /\ state # None /\ d.node_states[n] # None =>
                     state.locked = d.node_states[n].locked
            THEN Stage(t, e) ELSE None
    BY <1>2 DEF SetNodePresentation, ShowNode, When
  <2> HIDE DEF e, x
  <2>3. Follows(t, Stage(t, e)) /\ Stage(t, e).now = e /\ Stage(t, e) # None
    BY <2>1, StageIs
  <2>4. /\ ~GraphReadOnly(t) => OpenGraph(t)
        /\ ~NodeLocked(t, n) => FreeNodeState(t, n)
        /\ ~t.enforce => ~GraphReadOnly(t) /\ ~NodeLocked(t, n)
    BY ProtectionIs, FreeIs
  <2>5. /\ x # None => /\ Follows(t, x) /\ OnlyNodeState(d, x.now, n)
                       /\ x.now.node_states[n] = state
                       /\ OpenGraph(t) /\ FreeNodeState(t, n)
                       /\ state # None => d.nodes[n] # None
        /\ ~t.enforce /\ (state # None => d.nodes[n] # None) => x # None
    BY <2>1, <2>2, <2>3, <2>4
  <2> QED
    BY <1>2, <2>5 DEF x
<1> QED
  BY <1>1, <1>2

LEMMA SetNodeLockedIs ==
    ASSUME NEW t \in Transactions, NEW n \in Nodes, NEW flag \in BOOLEAN
    PROVE  LET x == SetNodeLocked(t, n, flag) IN
           /\ x # None =>
                 /\ Follows(t, x) /\ OnlyNodeState(t.now, x.now, n)
                 /\ t.now.node_states[n] # None
                 /\ x.now.node_states[n] = [t.now.node_states[n] EXCEPT !.locked = flag]
           /\ ~t.enforce /\ t.now.node_states[n] # None => x # None
<1> DEFINE d == t.now
           x == SetNodeLocked(t, n, flag)
           v == [d.node_states[n] EXCEPT !.locked = flag]
           e == [d EXCEPT !.node_states[n] = v]
<1>0. d \in Docs /\ t # None /\ Follows(t, t)
  BY NowIs
<1>1. CASE d.node_states[n] = None
  BY <1>1 DEF SetNodeLocked
<1>2. CASE d.node_states[n] # None
  <2>1. v \in NodeStates /\ d.node_states[n] \in NodeStates
    BY <1>0, <1>2, PartsAre DEF NodeStates
  <2>2. e \in Docs /\ OnlyNodeState(d, e, n) /\ e.node_states[n] = v
    BY <1>0, <2>1, PutNodeState
  <2>3. CASE d.node_states[n].locked = flag
    <3>1. x = t /\ v = d.node_states[n]
      BY <1>2, <2>1, <2>3 DEF SetNodeLocked, NodeStates
    <3> QED
      BY <1>0, <1>2, <3>1 DEF OnlyNodeState, OnlyNodeStates
  <2>4. CASE d.node_states[n].locked # flag
    <3>1. x = IF ~GraphReadOnly(t) THEN Stage(t, e) ELSE None
      BY <1>2, <2>4 DEF SetNodeLocked, ShowNode, When
    <3> HIDE DEF e, v, x
    <3>2. Follows(t, Stage(t, e)) /\ Stage(t, e).now = e /\ Stage(t, e) # None
      BY <2>2, StageIs
    <3>3. ~t.enforce => ~GraphReadOnly(t)
      BY FreeIs
    <3>4. /\ x # None => Follows(t, x) /\ OnlyNodeState(d, x.now, n) /\ x.now.node_states[n] = v
          /\ ~t.enforce => x # None
      BY <2>2, <3>1, <3>2, <3>3
    <3> QED
      BY <1>2, <3>4 DEF x, v
  <2> QED
    BY <2>3, <2>4
<1> QED
  BY <1>1, <1>2

LEMMA SetLookIs ==
    ASSUME NEW t \in Transactions, NEW n \in Nodes, NEW look \in Looks
    PROVE  LET x == SetLook(t, n, look) IN
           /\ x # None =>
                 /\ Follows(t, x) /\ OnlyNodeState(t.now, x.now, n)
                 /\ t.now.node_states[n] # None
                 /\ x.now.node_states[n] = [t.now.node_states[n] EXCEPT !.look = look]
                 /\ x.now.node_states[n] = t.now.node_states[n]
                       \/ (OpenGraph(t) /\ FreeNodeState(t, n))
           /\ ~t.enforce /\ t.now.node_states[n] # None /\ t.now.nodes[n] # None => x # None
<1> DEFINE d == t.now
           x == SetLook(t, n, look)
           v == [d.node_states[n] EXCEPT !.look = look]
<1>0. d \in Docs /\ t # None
  BY NowIs
<1>1. CASE d.node_states[n] = None
  BY <1>1 DEF SetLook, When
<1>2. CASE d.node_states[n] # None
  <2>1. v \in NodeStates
    BY <1>0, <1>2, PartsAre DEF NodeStates
  <2>2. x = SetNodePresentation(t, n, v)
    BY <1>2 DEF SetLook, When
  <2> HIDE DEF v, x
  <2>3. /\ x # None => /\ Follows(t, x) /\ OnlyNodeState(d, x.now, n)
                       /\ x.now.node_states[n] = v
                       /\ v = d.node_states[n] \/ (OpenGraph(t) /\ FreeNodeState(t, n))
        /\ ~t.enforce /\ d.nodes[n] # None => x # None
    BY <2>1, <2>2, SetNodePresentationIs
  <2> QED
    BY <1>2, <2>3 DEF x, v
<1> QED
  BY <1>1, <1>2

\* The commands that change what is shown of nodes.
LEMMA NodeStatesUndoes ==
    ASSUME NEW d \in Docs, Good(d), NEW c,
           Changes(d, c) =>
              LET e == Led(d, c)
                  u == TakenBack(d, c)
              IN /\ OnlyNodeStates(d, e)
                 /\ \A n \in Nodes : \/ e.node_states[n] = d.node_states[n]
                                     \/ e.node_states[n] # None => d.nodes[n] # None
                 /\ \/ c.kind \in Unguarded
                    \/ ~d.read_only /\ \A n \in Nodes :
                          d.node_states[n] # None /\ d.node_states[n].locked =>
                             e.node_states[n] = d.node_states[n]
                 /\ u \in Transactions /\ OnlyNodeStates(e, u.now)
                 /\ u.now.node_states = d.node_states
    PROVE  Undoes(d, c)
<1> DEFINE e == Led(d, c)
           u == TakenBack(d, c)
<1>1. ASSUME Changes(d, c)
      PROVE  /\ e \in Docs /\ Good(e)
             /\ u \in Transactions /\ u.now = d
             /\ c.kind \notin Unguarded => Spared(d, e)
  <2>1. /\ OnlyNodeStates(d, e)
        /\ \A n \in Nodes : \/ e.node_states[n] = d.node_states[n]
                            \/ e.node_states[n] # None => d.nodes[n] # None
        /\ \/ c.kind \in Unguarded
           \/ ~d.read_only /\ \A n \in Nodes :
                 d.node_states[n] # None /\ d.node_states[n].locked =>
                    e.node_states[n] = d.node_states[n]
        /\ u \in Transactions /\ OnlyNodeStates(e, u.now)
        /\ u.now.node_states = d.node_states
    BY <1>1
  <2> HIDE DEF e, u
  <2>2. e \in Docs /\ u.now \in Docs
    BY <2>1 DEF OnlyNodeStates
  <2>3. ValidPresentation(d)
    BY GoodIs
  <2>4. ValidPresentation(e)
    BY <2>1, <2>3 DEF ValidPresentation, OnlyNodeStates, RoutePointOwner
  <2>5. Good(e)
    BY <2>1, <2>2, <2>4, OnlyStatesGood DEF OnlyNodeStates
  <2>6. u.now = d
    BY <2>1, <2>2, SameDocument DEF OnlyNodeStates
  <2>7. c.kind \notin Unguarded => Spared(d, e)
    BY <2>1, <2>2, SparedStates DEF OnlyNodeStates
  <2> QED
    BY <2>1, <2>2, <2>5, <2>6, <2>7
<1> QED
  BY <1>1, UndoesFrom

LookedAt(d, looks, n, s) ==
    IF n \in s THEN [d.node_states[n] EXCEPT !.look = looks[n]] ELSE d.node_states[n]
Looked(t, looks, x, s) ==
    /\ x # None =>
          /\ Follows(t, x) /\ OnlyNodeStates(t.now, x.now)
          /\ \A n \in Nodes : x.now.node_states[n] = LookedAt(t.now, looks, n, s)
          /\ \A n \in s : t.now.node_states[n] # None
          /\ \A n \in Nodes : x.now.node_states[n] = t.now.node_states[n]
                               \/ (OpenGraph(t) /\ FreeNodeState(t, n))
    /\ ~t.enforce /\ (\A n \in s : t.now.node_states[n] # None /\ t.now.nodes[n] # None) =>
          x # None

LEMMA SetLooksIs ==
    ASSUME NEW t \in Transactions, NEW S \in SUBSET Nodes, NEW looks \in [S -> Looks]
    PROVE  Looked(t, looks, SetLooks(t, looks), S)
<1> DEFINE Step(x, n) == Then(x, LAMBDA y : SetLook(y, n, looks[n]))
           Loop(f) == f = [s \in SUBSET (S) |->
                              IF s = {} THEN t
                              ELSE LET n == CHOOSE n \in s : TRUE IN Step(f[s \ {n}], n)]
           step == [p \in Staged \X (S) |-> Step(p[1], p[2])]
           h == CHOOSE f : Loop(f)
           D == {s \in SUBSET (S) : Looked(t, looks, h[s], s)}
<1>1. IsFiniteSet(S) /\ t \in Staged /\ t # None
  BY FS_Subset, ElementDocumentAssumption, NowIs
<1>2. ASSUME NEW x \in Staged, NEW n \in S PROVE Step(x, n) \in Staged
  <2>1. CASE x = None
    BY <2>1 DEF Then, Staged
  <2>2. CASE x # None
    <3>1. x \in Transactions /\ n \in Nodes /\ looks[n] \in Looks
      BY <2>2 DEF Staged
    <3>2. SetLook(x, n, looks[n]) # None => Follows(x, SetLook(x, n, looks[n]))
      BY <3>1, SetLookIs
    <3> QED
      BY <2>2, <3>2 DEF Then, Staged, Follows
  <2> QED
    BY <2>1, <2>2
<1>3. Looked(t, looks, t, {})
  BY <1>1, NowIs DEF Looked, LookedAt, OnlyNodeStates
<1>4. ASSUME NEW x, NEW s \in SUBSET (S), NEW n \in (S) \ s, Looked(t, looks, x, s)
      PROVE  Looked(t, looks, Step(x, n), s \cup {n})
  <2>1. CASE x = None
    BY <1>4, <2>1 DEF Then, Looked
  <2>2. CASE x # None
    <3> DEFINE y == SetLook(x, n, looks[n])
    <3>1. /\ Follows(t, x) /\ OnlyNodeStates(t.now, x.now)
          /\ \A m \in Nodes : x.now.node_states[m] = LookedAt(t.now, looks, m, s)
          /\ \A m \in s : t.now.node_states[m] # None
          /\ \A m \in Nodes : x.now.node_states[m] = t.now.node_states[m]
                               \/ (OpenGraph(t) /\ FreeNodeState(t, m))
      BY <1>4, <2>2 DEF Looked
    <3>2. x \in Transactions /\ n \in Nodes /\ looks[n] \in Looks
      BY <3>1 DEF Follows
    <3>3. /\ y # None =>
                 /\ Follows(x, y) /\ OnlyNodeState(x.now, y.now, n)
                 /\ x.now.node_states[n] # None
                 /\ y.now.node_states[n] = [x.now.node_states[n] EXCEPT !.look = looks[n]]
                 /\ y.now.node_states[n] = x.now.node_states[n]
                       \/ (OpenGraph(x) /\ FreeNodeState(x, n))
          /\ ~x.enforce /\ x.now.node_states[n] # None /\ x.now.nodes[n] # None => y # None
      BY <3>2, SetLookIs
    <3>4. Step(x, n) = y
      BY <2>2 DEF Then
    <3> HIDE DEF y, Step
    <3>5. /\ x.now.node_states[n] = t.now.node_states[n] /\ x.now.nodes = t.now.nodes
          /\ (OpenGraph(x) <=> OpenGraph(t)) /\ (FreeNodeState(x, n) <=> FreeNodeState(t, n))
          /\ x.enforce = t.enforce
      BY <3>1, <3>2 DEF Follows, OpenGraph, FreeNodeState, OnlyNodeStates, LookedAt
    <3>6. ASSUME y # None
          PROVE  /\ Follows(t, y) /\ OnlyNodeStates(t.now, y.now)
                 /\ \A m \in Nodes : y.now.node_states[m] = LookedAt(t.now, looks, m, s \cup {n})
                 /\ \A m \in s \cup {n} : t.now.node_states[m] # None
                 /\ \A m \in Nodes : y.now.node_states[m] = t.now.node_states[m]
                                      \/ (OpenGraph(t) /\ FreeNodeState(t, m))
      <4>1. Follows(t, y)
        BY <3>1, <3>3, <3>6, FollowsOn
      <4>2. OnlyNodeStates(t.now, y.now) /\ \A m \in Nodes \ {n} : y.now.node_states[m] = x.now.node_states[m]
        BY <3>1, <3>3, <3>6 DEF OnlyNodeState, OnlyNodeStates
      <4>3. ASSUME NEW m \in Nodes
            PROVE  /\ y.now.node_states[m] = LookedAt(t.now, looks, m, s \cup {n})
                   /\ y.now.node_states[m] = t.now.node_states[m] \/ (OpenGraph(t) /\ FreeNodeState(t, m))
        <5>1. CASE m = n
          BY <3>2, <3>3, <3>5, <3>6, <5>1 DEF LookedAt
        <5>2. CASE m # n
          BY <3>1, <4>2, <5>2 DEF LookedAt
        <5> QED
          BY <5>1, <5>2
      <4> QED
        BY <3>1, <3>3, <3>5, <3>6, <4>1, <4>2, <4>3
    <3>7. ASSUME ~t.enforce, t.now.node_states[n] # None, t.now.nodes[n] # None PROVE y # None
      BY <3>3, <3>5, <3>7
    <3> QED
      BY <3>4, <3>6, <3>7 DEF Looked
  <2> QED
    BY <2>1, <2>2
<1> HIDE DEF Step
<1>5. step \in [Staged \X (S) -> Staged]
  <2> SUFFICES ASSUME NEW p \in Staged \X (S) PROVE Step(p[1], p[2]) \in Staged
    OBVIOUS
  <2> QED
    BY <1>2
<1>6. Folds(S, t, step) # {}
  <2> HIDE DEF step
  <2> QED
    BY <1>1, <1>5, FoldsExist
<1>7. PICK g : g \in Folds(S, t, step)
  BY <1>6
<1>8. Loop(g)
  <2> HIDE DEF Staged
  <2>1. g \in [SUBSET (S) -> Staged] /\ g[{}] = t
    BY <1>7 DEF Folds
  <2>2. ASSUME NEW s \in SUBSET (S), s # {}
        PROVE  g[s] = LET n == CHOOSE n \in s : TRUE IN Step(g[s \ {n}], n)
    <3> DEFINE n == CHOOSE n \in s : TRUE
    <3>1. n \in s /\ g[s \ {n}] \in Staged /\ Rest(s) = s \ {n}
      BY <2>1, <2>2 DEF Rest
    <3>2. g[s] = step[<<g[Rest(s)], n>>]
      BY <1>7, <2>2 DEF Folds
    <3> HIDE DEF n
    <3>3. step[<<g[s \ {n}], n>>] = Step(g[s \ {n}], n)
      BY <3>1
    <3> HIDE DEF step
    <3>4. g[s] = Step(g[s \ {n}], n)
      BY <3>1, <3>2, <3>3
    <3> QED
      BY <3>4 DEF n
  <2> HIDE DEF step
  <2>3. g = [s \in SUBSET (S) |-> g[s]]
    BY <2>1
  <2> QED
    BY <2>1, <2>2, <2>3
<1> HIDE DEF step
<1>9. SetLooks(t, looks) = h[S]
  BY DEF SetLooks, ForEach, FoldSet, MapThenFoldSet, Then, Step
<1>10. Loop(h)
  <2> HIDE DEF Loop
  <2> QED
    BY <1>8
<1> HIDE DEF h
<1>11. {} \in D
  BY <1>3, <1>10
<1>12. ASSUME NEW s \in SUBSET (S), s # {}, s \ {CHOOSE n \in s : TRUE} \in D PROVE s \in D
  <2> DEFINE n == CHOOSE n \in s : TRUE
  <2>1. n \in s /\ Looked(t, looks, h[s \ {n}], s \ {n})
    BY <1>12
  <2>2. h[s] = Step(h[s \ {n}], n)
    BY <1>10, <1>12
  <2> HIDE DEF n, D, Loop
  <2>3. (s \ {n}) \cup {n} = s /\ n \in (S) \ (s \ {n}) /\ s \ {n} \in SUBSET (S)
    BY <2>1
  <2>4. Looked(t, looks, h[s], s)
    BY <1>4, <2>1, <2>2, <2>3
  <2> QED
    BY <2>4 DEF D
<1> HIDE DEF D, Loop
<1>13. S \in D
  BY <1>1, <1>11, <1>12, SubsetInduct
<1> QED
  BY <1>9, <1>13 DEF D

\* Several nodes are shown, or cleared.
ShownNodes(t, states, x, s) ==
    /\ x # None =>
          /\ Follows(t, x) /\ OnlyNodeStates(t.now, x.now)
          /\ \A n \in Nodes : x.now.node_states[n] = IF n \in s THEN states[n] ELSE t.now.node_states[n]
          /\ \A n \in s : /\ states[n] \in {None, t.now.node_states[n]} \/ t.now.nodes[n] # None
                          /\ states[n] = t.now.node_states[n] \/ (OpenGraph(t) /\ FreeNodeState(t, n))
    /\ ~t.enforce /\ (\A n \in s : states[n] # None => t.now.nodes[n] # None) => x # None

LEMMA ShowNodesIs ==
    ASSUME NEW t \in Transactions, NEW S \in SUBSET Nodes, NEW states \in [S -> NodeStates \cup {None}]
    PROVE  ShownNodes(t, states, ShowNodes(t, states), S)
<1> DEFINE Step(x, n) == Then(x, LAMBDA y : SetNodePresentation(y, n, states[n]))
           Loop(f) == f = [s \in SUBSET (S) |->
                              IF s = {} THEN t
                              ELSE LET n == CHOOSE n \in s : TRUE IN Step(f[s \ {n}], n)]
           step == [p \in Staged \X (S) |-> Step(p[1], p[2])]
           h == CHOOSE f : Loop(f)
           D == {s \in SUBSET (S) : ShownNodes(t, states, h[s], s)}
<1>1. IsFiniteSet(S) /\ t \in Staged /\ t # None
  BY FS_Subset, ElementDocumentAssumption, NowIs
<1>2. ASSUME NEW x \in Staged, NEW n \in S PROVE Step(x, n) \in Staged
  <2>1. CASE x = None
    BY <2>1 DEF Then, Staged
  <2>2. CASE x # None
    <3>1. x \in Transactions /\ n \in Nodes /\ states[n] \in NodeStates \cup {None}
      BY <2>2 DEF Staged
    <3>2. SetNodePresentation(x, n, states[n]) # None => Follows(x, SetNodePresentation(x, n, states[n]))
      BY <3>1, SetNodePresentationIs
    <3> QED
      BY <2>2, <3>2 DEF Then, Staged, Follows
  <2> QED
    BY <2>1, <2>2
<1>3. ShownNodes(t, states, t, {})
  BY <1>1, NowIs DEF ShownNodes, OnlyNodeStates
<1>4. ASSUME NEW x, NEW s \in SUBSET (S), NEW n \in (S) \ s, ShownNodes(t, states, x, s)
      PROVE  ShownNodes(t, states, Step(x, n), s \cup {n})
  <2>1. CASE x = None
    BY <1>4, <2>1 DEF Then, ShownNodes
  <2>2. CASE x # None
    <3> DEFINE y == SetNodePresentation(x, n, states[n])
    <3>1. /\ Follows(t, x) /\ OnlyNodeStates(t.now, x.now)
          /\ \A m \in Nodes : x.now.node_states[m] = IF m \in s THEN states[m] ELSE t.now.node_states[m]
          /\ \A m \in s : /\ states[m] \in {None, t.now.node_states[m]} \/ t.now.nodes[m] # None
                          /\ states[m] = t.now.node_states[m] \/ (OpenGraph(t) /\ FreeNodeState(t, m))
      BY <1>4, <2>2 DEF ShownNodes
    <3>2. x \in Transactions /\ n \in Nodes /\ states[n] \in NodeStates \cup {None}
      BY <3>1 DEF Follows
    <3>3. /\ y # None =>
                 /\ Follows(x, y) /\ OnlyNodeState(x.now, y.now, n)
                 /\ y.now.node_states[n] = states[n]
                 /\ states[n] = x.now.node_states[n] \/ (OpenGraph(x) /\ FreeNodeState(x, n))
                 /\ states[n] \in {None, x.now.node_states[n]} \/ x.now.nodes[n] # None
          /\ ~x.enforce /\ (states[n] # None => x.now.nodes[n] # None) => y # None
      BY <3>2, SetNodePresentationIs
    <3>4. Step(x, n) = y
      BY <2>2 DEF Then
    <3> HIDE DEF y, Step
    <3>5. /\ x.now.node_states[n] = t.now.node_states[n] /\ x.now.nodes = t.now.nodes
          /\ (OpenGraph(x) <=> OpenGraph(t)) /\ (FreeNodeState(x, n) <=> FreeNodeState(t, n))
          /\ x.enforce = t.enforce
      BY <3>1, <3>2 DEF Follows, OpenGraph, FreeNodeState, OnlyNodeStates
    <3>6. ASSUME y # None
          PROVE  /\ Follows(t, y) /\ OnlyNodeStates(t.now, y.now)
                 /\ \A m \in Nodes : y.now.node_states[m] = IF m \in s \cup {n} THEN states[m]
                                                           ELSE t.now.node_states[m]
                 /\ \A m \in s \cup {n} :
                       /\ states[m] \in {None, t.now.node_states[m]} \/ t.now.nodes[m] # None
                       /\ states[m] = t.now.node_states[m] \/ (OpenGraph(t) /\ FreeNodeState(t, m))
      <4>1. Follows(t, y)
        BY <3>1, <3>3, <3>6, FollowsOn
      <4>2. OnlyNodeStates(t.now, y.now) /\ \A m \in Nodes \ {n} : y.now.node_states[m] = x.now.node_states[m]
        BY <3>1, <3>3, <3>6 DEF OnlyNodeState, OnlyNodeStates
      <4>3. \A m \in Nodes : y.now.node_states[m] = IF m \in s \cup {n} THEN states[m]
                                                       ELSE t.now.node_states[m]
        BY <3>1, <3>3, <3>6, <4>2
      <4>4. \A m \in s \cup {n} :
               /\ states[m] \in {None, t.now.node_states[m]} \/ t.now.nodes[m] # None
               /\ states[m] = t.now.node_states[m] \/ (OpenGraph(t) /\ FreeNodeState(t, m))
        <5> SUFFICES ASSUME NEW m \in s \cup {n}
                     PROVE  /\ states[m] \in {None, t.now.node_states[m]} \/ t.now.nodes[m] # None
                            /\ states[m] = t.now.node_states[m] \/ (OpenGraph(t) /\ FreeNodeState(t, m))
          OBVIOUS
        <5>1. CASE m = n
          BY <3>3, <3>5, <3>6, <5>1
        <5>2. CASE m \in s
          BY <3>1, <5>2
        <5> QED
          BY <5>1, <5>2
      <4> QED
        BY <4>1, <4>2, <4>3, <4>4
    <3>7. ASSUME ~t.enforce, states[n] # None => t.now.nodes[n] # None PROVE y # None
      BY <3>3, <3>5, <3>7
    <3> QED
      BY <3>4, <3>6, <3>7 DEF ShownNodes
  <2> QED
    BY <2>1, <2>2
<1> HIDE DEF Step
<1>5. step \in [Staged \X (S) -> Staged]
  <2> SUFFICES ASSUME NEW p \in Staged \X (S) PROVE Step(p[1], p[2]) \in Staged
    OBVIOUS
  <2> QED
    BY <1>2
<1>6. Folds(S, t, step) # {}
  <2> HIDE DEF step
  <2> QED
    BY <1>1, <1>5, FoldsExist
<1>7. PICK g : g \in Folds(S, t, step)
  BY <1>6
<1>8. Loop(g)
  <2> HIDE DEF Staged
  <2>1. g \in [SUBSET (S) -> Staged] /\ g[{}] = t
    BY <1>7 DEF Folds
  <2>2. ASSUME NEW s \in SUBSET (S), s # {}
        PROVE  g[s] = LET n == CHOOSE n \in s : TRUE IN Step(g[s \ {n}], n)
    <3> DEFINE n == CHOOSE n \in s : TRUE
    <3>1. n \in s /\ g[s \ {n}] \in Staged /\ Rest(s) = s \ {n}
      BY <2>1, <2>2 DEF Rest
    <3>2. g[s] = step[<<g[Rest(s)], n>>]
      BY <1>7, <2>2 DEF Folds
    <3> HIDE DEF n
    <3>3. step[<<g[s \ {n}], n>>] = Step(g[s \ {n}], n)
      BY <3>1
    <3> HIDE DEF step
    <3>4. g[s] = Step(g[s \ {n}], n)
      BY <3>1, <3>2, <3>3
    <3> QED
      BY <3>4 DEF n
  <2> HIDE DEF step
  <2>3. g = [s \in SUBSET (S) |-> g[s]]
    BY <2>1
  <2> QED
    BY <2>1, <2>2, <2>3
<1> HIDE DEF step
<1>9. ShowNodes(t, states) = h[S]
  BY DEF ShowNodes, ForEach, FoldSet, MapThenFoldSet, Then, Step
<1>10. Loop(h)
  <2> HIDE DEF Loop
  <2> QED
    BY <1>8
<1> HIDE DEF h
<1>11. {} \in D
  BY <1>3, <1>10
<1>12. ASSUME NEW s \in SUBSET (S), s # {}, s \ {CHOOSE n \in s : TRUE} \in D PROVE s \in D
  <2> DEFINE n == CHOOSE n \in s : TRUE
  <2>1. n \in s /\ ShownNodes(t, states, h[s \ {n}], s \ {n})
    BY <1>12
  <2>2. h[s] = Step(h[s \ {n}], n)
    BY <1>10, <1>12
  <2> HIDE DEF n, D, Loop
  <2>3. (s \ {n}) \cup {n} = s /\ n \in (S) \ (s \ {n}) /\ s \ {n} \in SUBSET (S)
    BY <2>1
  <2>4. ShownNodes(t, states, h[s], s)
    BY <1>4, <2>1, <2>2, <2>3
  <2> QED
    BY <2>4 DEF D
<1> HIDE DEF D, Loop
<1>13. S \in D
  BY <1>1, <1>11, <1>12, SubsetInduct
<1> QED
  BY <1>9, <1>13 DEF D

LEMMA ShowNodeUndoes ==
    ASSUME NEW d \in Docs, Good(d), NEW n \in Nodes, d.nodes[n] # None, NEW state \in NodeStates
    PROVE  Undoes(d, [kind |-> "show_node", node |-> n, state |-> state])
<1> DEFINE c == [kind |-> "show_node", node |-> n, state |-> state]
           b == Begin(d, TRUE)
           t == Executed(d, c)
           e == Led(d, c)
           f == Begin(e, FALSE)
           u == TakenBack(d, c)
<1>1. /\ t = SetNodePresentation(b, n, state)
      /\ u = SetNodePresentation(f, n, d.node_states[n])
  BY DEF Executed, TakenBack, Apply, Revert, Capture
<1>2. d.node_states \in [Nodes -> NodeStates \cup {None}] /\ ValidPresentation(d)
  BY PartsAre, GoodIs
<1>3. /\ b \in Transactions /\ b.now = d
      /\ OpenGraph(b) => ~d.read_only
      /\ FreeNodeState(b, n) /\ d.node_states[n] # None => ~d.node_states[n].locked
  BY ExecutedIs
<1> HIDE DEF c, b
<1> SUFFICES ASSUME t # None, e # d
             PROVE  /\ OnlyNodeStates(d, e)
                    /\ \A m \in Nodes : m # n => e.node_states[m] = d.node_states[m]
                    /\ ~d.read_only /\ (d.node_states[n] # None => ~d.node_states[n].locked)
                    /\ u \in Transactions /\ OnlyNodeStates(e, u.now)
                    /\ u.now.node_states = d.node_states
  <2>1. Undoes(d, c)
    BY NodeStatesUndoes DEF Changes
  <2> QED
    BY <2>1 DEF c
<1>4. /\ OnlyNodeState(d, e, n) /\ e.node_states[n] = state
      /\ state = d.node_states[n] \/ (~d.read_only /\ (d.node_states[n] # None => ~d.node_states[n].locked))
  <2> HIDE DEF t
  <2> QED
    BY <1>1, <1>3, SetNodePresentationIs DEF Led, t
<1>5. e \in Docs /\ e.nodes = d.nodes
  BY <1>4 DEF OnlyNodeState, OnlyNodeStates
<1>6. state # d.node_states[n]
  <2> SUFFICES ASSUME state = d.node_states[n] PROVE FALSE
    OBVIOUS
  <2>1. e.node_states = d.node_states
    BY <1>2, <1>4, <1>5, PartsAre DEF OnlyNodeState
  <2> HIDE DEF e
  <2> QED
    BY <1>4, <1>5, <2>1, SameDocument DEF OnlyNodeState, OnlyNodeStates
<1> HIDE DEF e, t
<1>7. f \in Transactions /\ f.now = e /\ ~f.enforce
  BY <1>5, RevertedIs
<1> HIDE DEF f, u
<1>8. u # None /\ Follows(f, u) /\ OnlyNodeState(e, u.now, n) /\ u.now.node_states[n] = d.node_states[n]
  BY <1>1, <1>2, <1>5, <1>7, SetNodePresentationIs
<1>9. u.now \in Docs /\ \A m \in Nodes : u.now.node_states[m] = d.node_states[m]
  BY <1>4, <1>8 DEF OnlyNodeState, OnlyNodeStates
<1>10. u.now.node_states = d.node_states
  BY <1>2, <1>9, PartsAre
<1> QED
  BY <1>4, <1>6, <1>8, <1>10 DEF Follows, OnlyNodeState

LEMMA NodeLockedUndoes ==
    ASSUME NEW d \in Docs, Good(d), NEW n \in Nodes, d.node_states[n] # None, NEW flag \in BOOLEAN
    PROVE  Undoes(d, [kind |-> "locked", part |-> "node_states", id |-> n, flag |-> flag])
<1> DEFINE c == [kind |-> "locked", part |-> "node_states", id |-> n, flag |-> flag]
           b == Begin(d, TRUE)
           t == Executed(d, c)
           e == Led(d, c)
           f == Begin(e, FALSE)
           u == TakenBack(d, c)
<1>1. /\ t = SetNodeLocked(b, n, flag)
      /\ u = SetNodeLocked(f, n, d.node_states[n].locked)
      /\ c.kind = "locked"
  BY DEF Executed, TakenBack, Apply, Revert, Capture, SetPartLocked
<1>2. /\ d.node_states \in [Nodes -> NodeStates \cup {None}] /\ ValidPresentation(d)
      /\ d.node_states[n] \in NodeStates /\ d.node_states[n].locked \in BOOLEAN
  BY PartsAre, GoodIs DEF NodeStates
<1>3. b \in Transactions /\ b.now = d
  BY ExecutedIs
<1> HIDE DEF c, b
<1> SUFFICES ASSUME t # None, e # d
             PROVE  /\ OnlyNodeStates(d, e)
                    /\ \A m \in Nodes : m # n => e.node_states[m] = d.node_states[m]
                    /\ d.nodes[n] # None
                    /\ u \in Transactions /\ OnlyNodeStates(e, u.now)
                    /\ u.now.node_states = d.node_states
  <2>1. Undoes(d, c)
    BY <1>1, NodeStatesUndoes DEF Changes, Unguarded
  <2> QED
    BY <2>1 DEF c
<1>4. /\ OnlyNodeState(d, e, n)
      /\ e.node_states[n] = [d.node_states[n] EXCEPT !.locked = flag]
  <2> HIDE DEF t
  <2> QED
    BY <1>1, <1>3, SetNodeLockedIs DEF Led, t
<1>5. /\ e \in Docs /\ e.node_states[n] # None
      /\ [e.node_states[n] EXCEPT !.locked = d.node_states[n].locked] = d.node_states[n]
  BY <1>2, <1>4, NotNone DEF OnlyNodeState, OnlyNodeStates, NodeStates
<1> HIDE DEF e, t
<1>6. f \in Transactions /\ f.now = e /\ ~f.enforce
  BY <1>5, RevertedIs
<1> HIDE DEF f, u
<1>7. u # None /\ Follows(f, u) /\ OnlyNodeState(e, u.now, n) /\ u.now.node_states[n] = d.node_states[n]
  BY <1>1, <1>2, <1>5, <1>6, SetNodeLockedIs
<1>8. u.now \in Docs /\ \A m \in Nodes : u.now.node_states[m] = d.node_states[m]
  BY <1>4, <1>7 DEF OnlyNodeState, OnlyNodeStates
<1>9. u.now.node_states = d.node_states
  BY <1>2, <1>8, PartsAre
<1> QED
  BY <1>2, <1>4, <1>7, <1>9 DEF Follows, OnlyNodeState, ValidPresentation

LEMMA LooksUndoes ==
    ASSUME NEW d \in Docs, Good(d), NEW nodes \in SUBSET Nodes,
           \A n \in nodes : d.node_states[n] # None, NEW looks \in [nodes -> Looks]
    PROVE  Undoes(d, [kind |-> "looks", looks |-> looks])
<1> DEFINE c == [kind |-> "looks", looks |-> looks]
           old == [n \in nodes |-> d.node_states[n].look]
           b == Begin(d, TRUE)
           t == Executed(d, c)
           e == Led(d, c)
           f == Begin(e, FALSE)
           u == TakenBack(d, c)
<1>0. Capture(d, c).looks = old
  BY DEF Capture, CaptureLooks
<1>1. t = SetLooks(b, looks) /\ u = SetLooks(f, old)
  <2>1. t = SetLooks(b, looks) /\ u = SetLooks(f, Capture(d, c).looks)
    BY DEF Executed, TakenBack, Apply, Revert
  <2> HIDE DEF old, c, t, u, b, f
  <2> QED
    BY <1>0, <2>1
<1>2. /\ d.node_states \in [Nodes -> NodeStates \cup {None}] /\ ValidPresentation(d)
      /\ \A n \in nodes : d.node_states[n] \in NodeStates
      /\ old \in [nodes -> Looks]
  BY PartsAre, GoodIs DEF NodeStates
<1>3. /\ b \in Transactions /\ b.now = d
      /\ OpenGraph(b) => ~d.read_only
      /\ \A n : FreeNodeState(b, n) /\ d.node_states[n] # None => ~d.node_states[n].locked
  BY ExecutedIs
<1> HIDE DEF c, b
<1> SUFFICES ASSUME t # None, e # d
             PROVE  /\ OnlyNodeStates(d, e)
                    /\ \A n \in Nodes : e.node_states[n] # d.node_states[n] =>
                          /\ d.nodes[n] # None
                          /\ ~(d.node_states[n] # None /\ d.node_states[n].locked)
                    /\ ~d.read_only
                    /\ u \in Transactions /\ OnlyNodeStates(e, u.now)
                    /\ u.now.node_states = d.node_states
  <2>1. Undoes(d, c)
    BY NodeStatesUndoes DEF Changes
  <2> QED
    BY <2>1 DEF c
<1>4. Looked(b, looks, t, nodes)
  <2> HIDE DEF t
  <2> QED
    BY <1>1, <1>3, SetLooksIs
<1>5. /\ OnlyNodeStates(d, e)
      /\ \A n \in Nodes : e.node_states[n] = LookedAt(d, looks, n, nodes)
      /\ \A n \in Nodes : e.node_states[n] = d.node_states[n] \/ (OpenGraph(b) /\ FreeNodeState(b, n))
  BY <1>3, <1>4 DEF Looked, Led
<1>6. /\ e \in Docs
      /\ \A n \in nodes : /\ e.node_states[n] # None
                          /\ [e.node_states[n] EXCEPT !.look = old[n]] = d.node_states[n]
  BY <1>2, <1>5, NotNone DEF OnlyNodeStates, NodeStates, LookedAt
<1>7. \E n \in Nodes : e.node_states[n] # d.node_states[n]
  <2> SUFFICES ASSUME \A n \in Nodes : e.node_states[n] = d.node_states[n] PROVE FALSE
    OBVIOUS
  <2>1. e.node_states = d.node_states
    BY <1>2, <1>6, PartsAre
  <2> HIDE DEF e
  <2> QED
    BY <1>5, <1>6, <2>1, SameDocument DEF OnlyNodeStates
<1>8. \A n \in nodes : d.nodes[n] # None /\ e.nodes[n] # None
  BY <1>2, <1>5 DEF ValidPresentation, OnlyNodeStates
<1> HIDE DEF e, t
<1>9. f \in Transactions /\ f.now = e /\ ~f.enforce
  BY <1>6, RevertedIs
<1> HIDE DEF f, u
<1>10. Looked(f, old, u, nodes)
  <2> HIDE DEF old
  <2> QED
    BY <1>1, <1>2, <1>9, SetLooksIs
<1>11. /\ u # None /\ Follows(f, u) /\ OnlyNodeStates(e, u.now)
       /\ \A n \in Nodes : u.now.node_states[n] = LookedAt(e, old, n, nodes)
  BY <1>6, <1>8, <1>9, <1>10 DEF Looked
<1>12. \A n \in Nodes : u.now.node_states[n] = d.node_states[n]
  BY <1>5, <1>6, <1>11 DEF LookedAt
<1>13. u.now.node_states = d.node_states
  BY <1>2, <1>11, <1>12, PartsAre DEF OnlyNodeStates
<1>14. \A n \in Nodes : e.node_states[n] # d.node_states[n] => n \in nodes
  BY <1>5 DEF LookedAt
<1> QED
  BY <1>3, <1>5, <1>7, <1>8, <1>11, <1>13, <1>14 DEF Follows

-----------------------------------------------------------------------------
(* Shown links                                                             *)

OnlyLinkState(d, e, l) ==
    OnlyLinkStates(d, e) /\ \A m \in Links \ {l} : e.link_states[m] = d.link_states[m]

LEMMA PutLinkState ==
    ASSUME NEW d \in Docs, NEW l \in Links, NEW x \in LinkStates \cup {None}
    PROVE  LET e == [d EXCEPT !.link_states[l] = x] IN
           e \in Docs /\ OnlyLinkState(d, e, l) /\ e.link_states[l] = x
<1> DEFINE states == [d.link_states EXCEPT ![l] = x]
           e == [d EXCEPT !.link_states = states]
<1>1. states \in [Links -> LinkStates \cup {None}] /\ states[l] = x
      /\ \A m \in Links \ {l} : states[m] = d.link_states[m]
  BY PartsAre
<1> HIDE DEF states
<1>2. OnlyLinkStates(d, e) /\ e.link_states = states
  BY <1>1, PutLinkStates
<1>3. e \in Docs /\ OnlyLinkState(d, e, l) /\ e.link_states[l] = x
  BY <1>1, <1>2 DEF OnlyLinkState, OnlyLinkStates
<1> QED
  BY <1>3 DEF e, states

\* The points of state are in the route of no other link.
Unshared(d, l, state) ==
    state # None => \A point \in DOMAIN state.route : RoutePointOwner(d, point) \subseteq {l}

\* x is t with what it shows of l changed, if it may be.
Dresses(t, x, l) ==
    x # None =>
       /\ Follows(t, x) /\ OnlyLinkState(t.now, x.now, l)
       /\ \/ x.now = t.now
          \/ /\ OpenGraph(t) /\ FreeLinkState(t, l)
             /\ t.now.links[l] # None
             /\ Unshared(t.now, l, x.now.link_states[l])

LEMMA LinkStateOrIs ==
    ASSUME NEW d \in Docs, NEW l \in Links
    PROVE  /\ LinkStateOr(d, l) \in LinkStates
           /\ LinkStateOr(d, l).route \in Routes
           /\ ValidPresentation(d) => Unshared(d, l, LinkStateOr(d, l))
           /\ \A route \in Routes : [LinkStateOr(d, l) EXCEPT !.route = route] \in LinkStates
           /\ \A style \in Looks : [LinkStateOr(d, l) EXCEPT !.style = style] \in LinkStates
<1>1. EmptyRoute \in Routes /\ DOMAIN EmptyRoute = {}
  <2>1. EmptyRoute \in [{} -> Looks] /\ {} \in SUBSET Points
    BY DEF EmptyRoute
  <2> QED
    BY <2>1 DEF Routes, EmptyRoute
<1>2. DefaultLinkState \in LinkStates /\ DefaultLinkState.route = EmptyRoute
  BY <1>1 DEF DefaultLinkState, LinkStates, Looks
<1>3. LinkStateOr(d, l) \in LinkStates
  BY <1>2, PartsAre DEF LinkStateOr
<1>4. ASSUME ValidPresentation(d) PROVE Unshared(d, l, LinkStateOr(d, l))
  <2>1. CASE d.link_states[l] = None
    BY <1>1, <1>2, <2>1 DEF LinkStateOr, Unshared
  <2>2. CASE d.link_states[l] # None
    <3>1. LinkStateOr(d, l) = d.link_states[l] /\ d.link_states[l] \in LinkStates
      BY <2>2, PartsAre DEF LinkStateOr
    <3>2. ASSUME NEW point \in DOMAIN d.link_states[l].route
          PROVE  RoutePointOwner(d, point) \subseteq {l}
      <4>1. point \in Points
        BY <3>1 DEF LinkStates, Routes
      <4>2. l \in RoutePointOwner(d, point)
        BY <2>2 DEF RoutePointOwner
      <4> QED
        BY <1>4, <4>1, <4>2 DEF ValidPresentation
    <3> QED
      BY <3>1, <3>2 DEF Unshared
  <2> QED
    BY <2>1, <2>2
<1> QED
  BY <1>3, <1>4 DEF LinkStates

LEMMA KeptIs ==
    ASSUME NEW state \in LinkStates
    PROVE  /\ Kept(state) \in LinkStates \cup {None}
           /\ \A d, l : Unshared(d, l, state) => Unshared(d, l, Kept(state))
  BY DEF Kept, Unshared

\* How the setters are shown to dress a link.
LEMMA DressesFrom ==
    ASSUME NEW t \in Transactions, NEW x, NEW l \in Links, NEW e,
           x = t \/ x = None \/ (x = Stage(t, e) /\ LinkMayChange(t, l)),
           LinkMayChange(t, l) /\ x = Stage(t, e) =>
              \/ e = None
              \/ e \in Docs /\ OnlyLinkState(t.now, e, l) /\ Unshared(t.now, l, e.link_states[l])
    PROVE  Dresses(t, x, l)
<1>1. t.now \in Docs /\ t # None /\ Follows(t, t)
  BY NowIs
<1>2. CASE x = t
  BY <1>1, <1>2 DEF Dresses, OnlyLinkState, OnlyLinkStates
<1>3. CASE x = Stage(t, e) /\ LinkMayChange(t, l) /\ e \in Docs
  <2>1. Follows(t, x) /\ x.now = e
    BY <1>3, StageIs
  <2>2. e # None
    BY <1>3, NotNone
  <2>3. OpenGraph(t) /\ FreeLinkState(t, l) /\ t.now.links[l] # None
    BY <1>3, ProtectionIs DEF LinkMayChange
  <2> QED
    BY <1>3, <2>1, <2>2, <2>3 DEF Dresses
<1>4. CASE x = Stage(t, e) /\ LinkMayChange(t, l) /\ e = None
  BY <1>4 DEF Stage, Dresses
<1> QED
  BY <1>2, <1>3, <1>4 DEF Dresses

LEMMA SetLinkPresentationDresses ==
    ASSUME NEW t \in Transactions, NEW l \in Links, NEW state \in LinkStates \cup {None},
           t.now.links[l] # None
    PROVE  Dresses(t, SetLinkPresentation(t, l, state), l)
<1> DEFINE d == t.now
           e == [d EXCEPT !.link_states[l] = state]
           x == SetLinkPresentation(t, l, state)
<1>1. d \in Docs
  BY NowIs
<1>2. e \in Docs /\ OnlyLinkState(d, e, l) /\ e.link_states[l] = state
  BY <1>1, PutLinkState
<1>3. x = t \/ x = None \/ (x = Stage(t, ShowLink(d, l, state)) /\ LinkMayChange(t, l))
  BY DEF SetLinkPresentation, LinkMayChange, When
<1>4. ShowLink(d, l, state) = None \/ (ShowLink(d, l, state) = e /\ Unshared(d, l, state))
  BY DEF ShowLink, When, Unshared
<1> HIDE DEF x, e
<1>5. Dresses(t, x, l)
  BY <1>2, <1>3, <1>4, DressesFrom
<1> QED
  BY <1>5 DEF x

LEMMA SetLinkStyleDresses ==
    ASSUME NEW t \in Transactions, NEW l \in Links, NEW style \in Looks, ValidPresentation(t.now)
    PROVE  Dresses(t, SetLinkStyle(t, l, style), l)
<1> DEFINE d == t.now
           old == LinkStateOr(d, l)
           v == [old EXCEPT !.style = style]
           state == Kept(v)
           e == [d EXCEPT !.link_states[l] = state]
           x == SetLinkStyle(t, l, style)
<1>1. d \in Docs
  BY NowIs
<1>2. v \in LinkStates /\ Unshared(d, l, v)
  <2>1. v \in LinkStates /\ old \in LinkStates /\ Unshared(d, l, old)
    BY <1>1, LinkStateOrIs
  <2>2. v.route = old.route /\ old # None
    BY <2>1, NotNone DEF LinkStates
  <2> HIDE DEF v, old
  <2> QED
    BY <2>1, <2>2 DEF Unshared
<1> HIDE DEF v
<1>3. state \in LinkStates \cup {None} /\ Unshared(d, l, state)
  BY <1>2, KeptIs
<1> HIDE DEF state
<1>4. e \in Docs /\ OnlyLinkState(d, e, l) /\ e.link_states[l] = state
  BY <1>1, <1>3, PutLinkState
<1>5. x = t \/ x = None \/ (x = Stage(t, e) /\ LinkMayChange(t, l))
  BY DEF SetLinkStyle, StyleLink, When, state, v
<1> HIDE DEF x, e
<1>6. Dresses(t, x, l)
  BY <1>3, <1>4, <1>5, DressesFrom
<1> QED
  BY <1>6 DEF x

LEMMA SetLinkRouteDresses ==
    ASSUME NEW t \in Transactions, NEW l \in Links, NEW route \in Routes
    PROVE  Dresses(t, SetLinkRoute(t, l, route), l)
<1> DEFINE d == t.now
           v == [LinkStateOr(d, l) EXCEPT !.route = route]
           state == Kept(v)
           e == [d EXCEPT !.link_states[l] = state]
           x == SetLinkRoute(t, l, route)
<1>1. d \in Docs
  BY NowIs
<1>2. v \in LinkStates
  BY <1>1, LinkStateOrIs
<1> HIDE DEF v
<1>3. state \in LinkStates \cup {None}
  BY <1>2, KeptIs
<1>4. x = t \/ x = None \/ (x = Stage(t, ShowLink(d, l, state)) /\ LinkMayChange(t, l))
  BY DEF SetLinkRoute, RouteLink, When, v
<1> HIDE DEF state
<1>5. e \in Docs /\ OnlyLinkState(d, e, l) /\ e.link_states[l] = state
  BY <1>1, <1>3, PutLinkState
<1>6. ShowLink(d, l, state) = None \/ (ShowLink(d, l, state) = e /\ Unshared(d, l, state))
  BY DEF ShowLink, When, Unshared
<1> HIDE DEF x, e
<1>7. Dresses(t, x, l)
  BY <1>4, <1>5, <1>6, DressesFrom
<1> QED
  BY <1>7 DEF x

LEMMA InsertRoutePointDresses ==
    ASSUME NEW t \in Transactions, NEW l \in Links, NEW point \in Points, ValidPresentation(t.now)
    PROVE  Dresses(t, InsertRoutePoint(t, l, point), l)
<1> DEFINE d == t.now
           old == LinkStateOr(d, l)
           route == [p \in DOMAIN old.route \cup {point} |-> IF p = point THEN 0 ELSE old.route[p]]
           v == [old EXCEPT !.route = route]
           e == [d EXCEPT !.link_states[l] = v]
           x == InsertRoutePoint(t, l, point)
<1>1. d \in Docs
  BY NowIs
<1>2. old \in LinkStates /\ old.route \in Routes /\ Unshared(d, l, old) /\ old # None
  BY <1>1, LinkStateOrIs, NotNone
<1>3. x = None \/ (x = Stage(t, e) /\ LinkMayChange(t, l) /\ RoutePointOwner(d, point) = {})
  BY DEF InsertRoutePoint, InsertPoint, When, Stage
<1>4. x = None \/ (x = Stage(t, e) /\ LinkMayChange(t, l))
  BY <1>3
<1> HIDE DEF old
<1>5. route \in Routes /\ DOMAIN route = DOMAIN old.route \cup {point}
  <2>1. PICK points \in SUBSET Points : old.route \in [points -> Looks]
    BY <1>2 DEF Routes
  <2>2. route \in [points \cup {point} -> Looks] /\ points \cup {point} \in SUBSET Points
    BY <2>1 DEF Looks
  <2> QED
    BY <2>2 DEF Routes
<1>6. v \in LinkStates /\ v.route = route
  BY <1>2, <1>5 DEF LinkStates
<1>7. e \in Docs /\ OnlyLinkState(d, e, l) /\ e.link_states[l] = v
  BY <1>1, <1>6, PutLinkState
<1> HIDE DEF x, e, v, route
<1>8. x # None => Unshared(d, l, v)
  BY <1>2, <1>3, <1>5, <1>6 DEF Unshared
<1>9. Dresses(t, x, l)
  <2>1. CASE x = None
    BY <2>1 DEF Dresses
  <2>2. CASE x # None
    BY <1>4, <1>7, <1>8, <2>2, DressesFrom
  <2> QED
    BY <2>1, <2>2
<1> QED
  BY <1>9 DEF x

LEMMA SetLinkPresentationIs ==
    ASSUME NEW t \in Transactions, NEW l \in Links, NEW state \in LinkStates \cup {None}
    PROVE  LET x == SetLinkPresentation(t, l, state) IN
           /\ x # None =>
                 /\ Follows(t, x) /\ OnlyLinkState(t.now, x.now, l)
                 /\ x.now.link_states[l] = state
                 /\ state = t.now.link_states[l] \/ (OpenGraph(t) /\ FreeLinkState(t, l))
           /\ /\ ~t.enforce /\ (state # None => t.now.links[l] # None)
              /\ Unshared(t.now, l, state)
              => x # None
           /\ state = t.now.link_states[l] => x # None
<1> DEFINE d == t.now
           x == SetLinkPresentation(t, l, state)
           e == [d EXCEPT !.link_states[l] = state]
<1>0. d \in Docs /\ t # None /\ Follows(t, t)
  BY NowIs
<1>1. CASE state = d.link_states[l]
  <2>1. x = t
    BY <1>1 DEF SetLinkPresentation
  <2> QED
    BY <1>0, <1>1, <2>1 DEF OnlyLinkState, OnlyLinkStates
<1>2. CASE state # d.link_states[l]
  <2>1. e \in Docs /\ OnlyLinkState(d, e, l) /\ e.link_states[l] = state
    BY <1>0, PutLinkState
  <2>2. x = IF /\ state # None => d.links[l] # None
               /\ ~GraphReadOnly(t) /\ ~LinkLocked(t, l)
               /\ t.enforce /\ state # None /\ d.link_states[l] # None =>
                     state.locked = d.link_states[l].locked
               /\ Unshared(d, l, state)
            THEN Stage(t, e) ELSE None
    BY <1>2 DEF SetLinkPresentation, ShowLink, When, Unshared, Stage
  <2> HIDE DEF e, x
  <2>3. Follows(t, Stage(t, e)) /\ Stage(t, e).now = e /\ Stage(t, e) # None
    BY <2>1, StageIs
  <2>4. /\ ~GraphReadOnly(t) => OpenGraph(t)
        /\ ~LinkLocked(t, l) => FreeLinkState(t, l)
        /\ ~t.enforce => ~GraphReadOnly(t) /\ ~LinkLocked(t, l)
    BY ProtectionIs, FreeIs
  <2>5. /\ x # None => /\ Follows(t, x) /\ OnlyLinkState(d, x.now, l)
                       /\ x.now.link_states[l] = state
                       /\ OpenGraph(t) /\ FreeLinkState(t, l)
        /\ ~t.enforce /\ (state # None => d.links[l] # None) /\ Unshared(d, l, state) => x # None
    BY <2>1, <2>2, <2>3, <2>4
  <2> QED
    BY <1>2, <2>5 DEF x
<1> QED
  BY <1>1, <1>2

LEMMA SetLinkLockedIs ==
    ASSUME NEW t \in Transactions, NEW l \in Links, NEW flag \in BOOLEAN, ValidPresentation(t.now)
    PROVE  LET x == SetLinkLocked(t, l, flag) IN
           x # None =>
                 /\ Follows(t, x) /\ OnlyLinkState(t.now, x.now, l)
                 /\ t.now.link_states[l] # None
                 /\ Unshared(t.now, l, x.now.link_states[l])
<1> DEFINE d == t.now
           x == SetLinkLocked(t, l, flag)
           v == [d.link_states[l] EXCEPT !.locked = flag]
           state == Kept(v)
           e == [d EXCEPT !.link_states[l] = state]
<1>0. d \in Docs /\ t # None /\ Follows(t, t)
  BY NowIs
<1>1. CASE d.link_states[l] = None
  BY <1>1 DEF SetLinkLocked, LockLink, When, Stage
<1>2. CASE d.link_states[l] # None
  <2>1. LinkStateOr(d, l) = d.link_states[l]
    BY <1>2 DEF LinkStateOr
  <2>2. d.link_states[l] \in LinkStates /\ Unshared(d, l, d.link_states[l])
    BY <1>0, <2>1, LinkStateOrIs
  <2>3. v \in LinkStates /\ v.route = d.link_states[l].route
    BY <2>2 DEF LinkStates
  <2>4. Unshared(d, l, v)
    <3> HIDE DEF v
    <3> QED
      BY <1>2, <2>2, <2>3 DEF Unshared
  <2>5. x = t \/ x = None \/ x = Stage(t, e)
    BY <1>2 DEF SetLinkLocked, LockLink, When
  <2> HIDE DEF v
  <2>6. state \in LinkStates \cup {None} /\ Unshared(d, l, state)
    BY <2>3, <2>4, KeptIs
  <2> HIDE DEF state
  <2>7. e \in Docs /\ OnlyLinkState(d, e, l) /\ e.link_states[l] = state
    BY <1>0, <2>6, PutLinkState
  <2> HIDE DEF e, x
  <2>8. Follows(t, Stage(t, e)) /\ Stage(t, e).now = e
    BY <2>7, StageIs
  <2>9. CASE x = t
    BY <1>0, <1>2, <2>2, <2>9 DEF OnlyLinkState, OnlyLinkStates, x
  <2>10. CASE x = Stage(t, e)
    BY <1>2, <2>6, <2>7, <2>8, <2>10 DEF x
  <2>11. CASE x = None
    BY <2>11 DEF x
  <2> QED
    BY <2>5, <2>9, <2>10, <2>11
<1> QED
  BY <1>1, <1>2

\* The commands that change what is shown of links.
LEMMA LinkStatesUndoes ==
    ASSUME NEW d \in Docs, Good(d), NEW c,
           Changes(d, c) =>
              LET e == Led(d, c)
                  u == TakenBack(d, c)
              IN /\ OnlyLinkStates(d, e) /\ ValidPresentation(e)
                 /\ \/ c.kind \in Unguarded
                    \/ ~d.read_only /\ \A l \in Links :
                          d.link_states[l] # None /\ d.link_states[l].locked =>
                             e.link_states[l] = d.link_states[l]
                 /\ u \in Transactions /\ OnlyLinkStates(e, u.now)
                 /\ u.now.link_states = d.link_states
    PROVE  Undoes(d, c)
<1> DEFINE e == Led(d, c)
           u == TakenBack(d, c)
<1>1. ASSUME Changes(d, c)
      PROVE  /\ e \in Docs /\ Good(e)
             /\ u \in Transactions /\ u.now = d
             /\ c.kind \notin Unguarded => Spared(d, e)
  <2>1. /\ OnlyLinkStates(d, e) /\ ValidPresentation(e)
        /\ \/ c.kind \in Unguarded
           \/ ~d.read_only /\ \A l \in Links :
                 d.link_states[l] # None /\ d.link_states[l].locked =>
                    e.link_states[l] = d.link_states[l]
        /\ u \in Transactions /\ OnlyLinkStates(e, u.now)
        /\ u.now.link_states = d.link_states
    BY <1>1
  <2> HIDE DEF e, u
  <2>2. e \in Docs /\ u.now \in Docs
    BY <2>1 DEF OnlyLinkStates
  <2>3. Good(e)
    BY <2>1, <2>2, OnlyStatesGood DEF OnlyLinkStates
  <2>4. u.now = d
    BY <2>1, <2>2, SameDocument DEF OnlyLinkStates
  <2>5. c.kind \notin Unguarded => Spared(d, e)
    BY <2>1, <2>2, SparedStates DEF OnlyLinkStates
  <2> QED
    BY <2>1, <2>2, <2>3, <2>4, <2>5
<1> QED
  BY <1>1, UndoesFrom

LEMMA OneLinkShown ==
    ASSUME NEW d \in Docs, NEW e \in Docs, NEW l \in Links, ValidPresentation(d),
           OnlyLinkState(d, e, l)
    PROVE  /\ /\ e.link_states[l] # None => d.links[l] # None
              /\ Unshared(d, l, e.link_states[l])
              => ValidPresentation(e)
           /\ Unshared(e, l, d.link_states[l])
<1>1. \A m \in Links : d.link_states[m] # None =>
         \A point \in DOMAIN d.link_states[m].route : point \in Points
  BY PartsAre DEF LinkStates, Routes
<1>2. \A point \in Points : \A k, m \in RoutePointOwner(d, point) : k = m
  BY DEF ValidPresentation
<1>3. ASSUME e.link_states[l] # None => d.links[l] # None, Unshared(d, l, e.link_states[l])
      PROVE  ValidPresentation(e)
  <2>1. ASSUME NEW point \in Points, NEW k \in RoutePointOwner(e, point),
               NEW m \in RoutePointOwner(e, point)
        PROVE  k = m
    <3>1. \A j \in RoutePointOwner(e, point) : j # l => j \in RoutePointOwner(d, point)
      BY DEF RoutePointOwner, OnlyLinkState
    <3>2. l \in RoutePointOwner(e, point) => RoutePointOwner(d, point) \subseteq {l}
      BY <1>3 DEF RoutePointOwner, Unshared
    <3> QED
      BY <1>2, <3>1, <3>2
  <2> QED
    BY <1>3, <2>1 DEF ValidPresentation, OnlyLinkState, OnlyLinkStates
<1>4. Unshared(e, l, d.link_states[l])
  <2> SUFFICES ASSUME d.link_states[l] # None, NEW point \in DOMAIN d.link_states[l].route,
                      NEW m \in RoutePointOwner(e, point), m # l
               PROVE  FALSE
    BY DEF Unshared
  <2>1. l \in RoutePointOwner(d, point) /\ m \in RoutePointOwner(d, point) /\ point \in Points
    BY <1>1 DEF RoutePointOwner, OnlyLinkState
  <2> QED
    BY <1>2, <2>1
<1> QED
  BY <1>3, <1>4

\* The commands whose Revert shows one link as it was.
LEMMA LinkStateUndoes ==
    ASSUME NEW d \in Docs, Good(d), NEW c, NEW l \in Links, d.links[l] # None,
           TakenBack(d, c) = SetLinkPresentation(Begin(Led(d, c), FALSE), l, d.link_states[l]),
           \/ Dresses(Begin(d, TRUE), Executed(d, c), l)
           \/ /\ c.kind \in Unguarded
              /\ Executed(d, c) # None => /\ OnlyLinkState(d, Led(d, c), l)
                                          /\ Unshared(d, l, Led(d, c).link_states[l])
    PROVE  Undoes(d, c)
<1> DEFINE b == Begin(d, TRUE)
           e == Led(d, c)
           f == Begin(e, FALSE)
           u == TakenBack(d, c)
<1>1. /\ b \in Transactions /\ b.now = d
      /\ OpenGraph(b) => ~d.read_only
      /\ FreeLinkState(b, l) /\ d.link_states[l] # None => ~d.link_states[l].locked
  BY ExecutedIs
<1>2. ValidPresentation(d) /\ d.link_states[l] \in LinkStates \cup {None}
  BY GoodIs, PartsAre
<1> HIDE DEF b
<1> SUFFICES ASSUME Executed(d, c) # None, e # d
             PROVE  /\ OnlyLinkStates(d, e) /\ ValidPresentation(e)
                    /\ \/ c.kind \in Unguarded
                       \/ ~d.read_only /\ \A m \in Links :
                             d.link_states[m] # None /\ d.link_states[m].locked =>
                                e.link_states[m] = d.link_states[m]
                    /\ u \in Transactions /\ OnlyLinkStates(e, u.now)
                    /\ u.now.link_states = d.link_states
  BY LinkStatesUndoes DEF Changes
<1>3. /\ OnlyLinkState(d, e, l) /\ Unshared(d, l, e.link_states[l])
      /\ \/ c.kind \in Unguarded
         \/ ~d.read_only /\ (d.link_states[l] # None => ~d.link_states[l].locked)
  BY <1>1 DEF Dresses, Led, b
<1>4. e \in Docs /\ e.links[l] # None
  BY <1>3 DEF OnlyLinkState, OnlyLinkStates
<1> HIDE DEF e
<1>5. ValidPresentation(e) /\ Unshared(e, l, d.link_states[l])
  BY <1>2, <1>3, <1>4, OneLinkShown
<1>6. f \in Transactions /\ f.now = e /\ ~f.enforce
  BY <1>4, RevertedIs
<1>7. u = SetLinkPresentation(f, l, d.link_states[l])
  BY DEF e
<1> HIDE DEF f, u
<1>8. u # None /\ Follows(f, u) /\ OnlyLinkState(e, u.now, l) /\ u.now.link_states[l] = d.link_states[l]
  BY <1>2, <1>4, <1>5, <1>6, <1>7, SetLinkPresentationIs
<1>9. u.now \in Docs /\ \A m \in Links : u.now.link_states[m] = d.link_states[m]
  BY <1>3, <1>8 DEF OnlyLinkState, OnlyLinkStates
<1>10. u.now.link_states = d.link_states
  BY <1>9, PartsAre
<1> QED
  BY <1>3, <1>5, <1>8, <1>10 DEF Follows, OnlyLinkState

LEMMA LinkShownUndoes ==
    ASSUME NEW d \in Docs, Good(d), NEW l \in Links, d.links[l] # None, NEW state \in LinkStates
    PROVE  Undoes(d, [kind |-> "link_state", link |-> l, state |-> state])
<1> DEFINE c == [kind |-> "link_state", link |-> l, state |-> state]
           b == Begin(d, TRUE)
<1>1. /\ Executed(d, c) = SetLinkPresentation(b, l, state)
      /\ TakenBack(d, c) = SetLinkPresentation(Begin(Led(d, c), FALSE), l, d.link_states[l])
  BY DEF Executed, TakenBack, Apply, Revert, Capture
<1>2. b \in Transactions /\ b.now = d /\ ValidPresentation(d)
  BY ExecutedIs, GoodIs
<1> HIDE DEF b, c
<1>3. Dresses(b, Executed(d, c), l)
  BY <1>1, <1>2, SetLinkPresentationDresses
<1>4. Undoes(d, c)
  BY <1>1, <1>3, LinkStateUndoes DEF b
<1> QED
  BY <1>4 DEF c

LEMMA LinkStyleUndoes ==
    ASSUME NEW d \in Docs, Good(d), NEW l \in Links, d.links[l] # None, NEW style \in Looks
    PROVE  Undoes(d, [kind |-> "style", link |-> l, style |-> style])
<1> DEFINE c == [kind |-> "style", link |-> l, style |-> style]
           b == Begin(d, TRUE)
<1>1. /\ Executed(d, c) = SetLinkStyle(b, l, style)
      /\ TakenBack(d, c) = SetLinkPresentation(Begin(Led(d, c), FALSE), l, d.link_states[l])
  BY DEF Executed, TakenBack, Apply, Revert, Capture
<1>2. b \in Transactions /\ b.now = d /\ ValidPresentation(d)
  BY ExecutedIs, GoodIs
<1> HIDE DEF b, c
<1>3. Dresses(b, Executed(d, c), l)
  BY <1>1, <1>2, SetLinkStyleDresses
<1>4. Undoes(d, c)
  BY <1>1, <1>3, LinkStateUndoes DEF b
<1> QED
  BY <1>4 DEF c

LEMMA LinkRouteUndoes ==
    ASSUME NEW d \in Docs, Good(d), NEW l \in Links, d.links[l] # None, NEW route \in Routes
    PROVE  Undoes(d, [kind |-> "route", link |-> l, route |-> route])
<1> DEFINE c == [kind |-> "route", link |-> l, route |-> route]
           b == Begin(d, TRUE)
<1>1. /\ Executed(d, c) = SetLinkRoute(b, l, route)
      /\ TakenBack(d, c) = SetLinkPresentation(Begin(Led(d, c), FALSE), l, d.link_states[l])
  BY DEF Executed, TakenBack, Apply, Revert, Capture
<1>2. b \in Transactions /\ b.now = d /\ ValidPresentation(d)
  BY ExecutedIs, GoodIs
<1> HIDE DEF b, c
<1>3. Dresses(b, Executed(d, c), l)
  BY <1>1, <1>2, SetLinkRouteDresses
<1>4. Undoes(d, c)
  BY <1>1, <1>3, LinkStateUndoes DEF b
<1> QED
  BY <1>4 DEF c

LEMMA InsertPointUndoes ==
    ASSUME NEW d \in Docs, Good(d), NEW l \in Links, d.links[l] # None, NEW point \in Points
    PROVE  Undoes(d, [kind |-> "insert_point", link |-> l, point |-> point])
<1> DEFINE c == [kind |-> "insert_point", link |-> l, point |-> point]
           b == Begin(d, TRUE)
<1>1. /\ Executed(d, c) = InsertRoutePoint(b, l, point)
      /\ TakenBack(d, c) = SetLinkPresentation(Begin(Led(d, c), FALSE), l, d.link_states[l])
  BY DEF Executed, TakenBack, Apply, Revert, Capture
<1>2. b \in Transactions /\ b.now = d /\ ValidPresentation(d)
  BY ExecutedIs, GoodIs
<1> HIDE DEF b, c
<1>3. Dresses(b, Executed(d, c), l)
  BY <1>1, <1>2, InsertRoutePointDresses
<1>4. Undoes(d, c)
  BY <1>1, <1>3, LinkStateUndoes DEF b
<1> QED
  BY <1>4 DEF c

LEMMA LinkLockedUndoes ==
    ASSUME NEW d \in Docs, Good(d), NEW l \in Links, d.links[l] # None, NEW flag \in BOOLEAN
    PROVE  Undoes(d, [kind |-> "link_locked", link |-> l, flag |-> flag])
<1> DEFINE c == [kind |-> "link_locked", link |-> l, flag |-> flag]
           b == Begin(d, TRUE)
<1>1. /\ Executed(d, c) = SetLinkLocked(b, l, flag)
      /\ TakenBack(d, c) = SetLinkPresentation(Begin(Led(d, c), FALSE), l, d.link_states[l])
      /\ c.kind \in Unguarded
  BY DEF Executed, TakenBack, Apply, Revert, Capture, Unguarded
<1>2. b \in Transactions /\ b.now = d /\ ValidPresentation(d)
  BY ExecutedIs, GoodIs
<1> HIDE DEF b, c
<1>3. Executed(d, c) # None => /\ OnlyLinkState(d, Led(d, c), l)
                               /\ Unshared(d, l, Led(d, c).link_states[l])
  BY <1>1, <1>2, SetLinkLockedIs DEF Led
<1>4. Undoes(d, c)
  BY <1>1, <1>3, LinkStateUndoes
<1> QED
  BY <1>4 DEF c

Moved(state, point, place) == [state EXCEPT !.route = [@ EXCEPT ![point] = place]]

LEMMA MovedIs ==
    ASSUME NEW state \in LinkStates, NEW point \in DOMAIN state.route, NEW place \in Looks
    PROVE  /\ Moved(state, point, place) \in LinkStates
           /\ DOMAIN Moved(state, point, place).route = DOMAIN state.route
           /\ state.route[point] \in Looks
           /\ Moved(state, point, place).route[point] = place
           /\ Moved(Moved(state, point, place), point, state.route[point]) = state
<1>1. PICK points \in SUBSET Points : state.route \in [points -> Looks]
  BY DEF LinkStates, Routes
<1> DEFINE route == [state.route EXCEPT ![point] = place]
           back == [route EXCEPT ![point] = state.route[point]]
<1>2. /\ route \in [points -> Looks] /\ state.route[point] \in Looks /\ DOMAIN state.route = points
      /\ route[point] = place /\ back = state.route
  BY <1>1
<1>3. route \in Routes
  BY <1>1, <1>2 DEF Routes
<1>4. Moved(state, point, place) = [state EXCEPT !.route = route]
  BY DEF Moved
<1>5. Moved(state, point, place) \in LinkStates /\ Moved(state, point, place).route = route
  BY <1>3, <1>4 DEF LinkStates
<1>6. Moved(Moved(state, point, place), point, state.route[point]) =
         [[state EXCEPT !.route = route] EXCEPT !.route = back]
  BY <1>4, <1>5 DEF Moved
<1> HIDE DEF route, back
<1>7. [[state EXCEPT !.route = route] EXCEPT !.route = back] = state
  BY <1>2 DEF LinkStates
<1> QED
  BY <1>2, <1>5, <1>6, <1>7

LEMMA MoveRoutePointIs ==
    ASSUME NEW t \in Transactions, NEW l \in Links, t.now.link_states[l] # None,
           NEW point \in DOMAIN t.now.link_states[l].route, NEW place \in Looks
    PROVE  LET x == MoveRoutePoint(t, l, point, place) IN
           /\ x # None =>
                 /\ Follows(t, x) /\ OnlyLinkState(t.now, x.now, l)
                 /\ x.now.link_states[l] = Moved(t.now.link_states[l], point, place)
                 /\ x.now = t.now \/ (OpenGraph(t) /\ FreeLinkState(t, l))
           /\ ~t.enforce /\ t.now.links[l] # None => x # None
<1> DEFINE d == t.now
           old == d.link_states[l]
           x == MoveRoutePoint(t, l, point, place)
           v == Moved(old, point, place)
           e == [d EXCEPT !.link_states[l] = v]
<1>0. d \in Docs /\ t # None /\ Follows(t, t)
  BY NowIs
<1>1. old \in LinkStates /\ LinkStateOr(d, l) = old
  BY <1>0, PartsAre DEF LinkStateOr
<1>2. v \in LinkStates
  BY <1>1, MovedIs
<1>3. e \in Docs /\ OnlyLinkState(d, e, l) /\ e.link_states[l] = v
  <2> HIDE DEF v
  <2> QED
    BY <1>0, <1>2, PutLinkState
<1>4. CASE old.route[point] = place
  <2>1. x = t
    BY <1>1, <1>4 DEF MoveRoutePoint
  <2>2. v = old
    <3>1. [old.route EXCEPT ![point] = place] = old.route
      BY <1>1, <1>4 DEF LinkStates, Routes
    <3> QED
      BY <1>1, <3>1 DEF Moved, LinkStates
  <2> HIDE DEF v
  <2> QED
    BY <1>0, <2>1, <2>2 DEF OnlyLinkState, OnlyLinkStates, v
<1>5. CASE old.route[point] # place
  <2>1. MovePoint(d, l, point, place) = e
    BY <1>1 DEF MovePoint, When, Moved
  <2>2. x = IF LinkMayChange(t, l) THEN Stage(t, e) ELSE None
    BY <1>1, <1>5, <2>1 DEF MoveRoutePoint, When
  <2> HIDE DEF e, v, x, old
  <2>3. Follows(t, Stage(t, e)) /\ Stage(t, e).now = e /\ Stage(t, e) # None
    BY <1>3, StageIs
  <2>4. /\ LinkMayChange(t, l) => OpenGraph(t) /\ FreeLinkState(t, l)
        /\ ~t.enforce /\ d.links[l] # None => LinkMayChange(t, l)
    BY ProtectionIs, FreeIs DEF LinkMayChange
  <2>5. /\ x # None => /\ Follows(t, x) /\ OnlyLinkState(d, x.now, l)
                       /\ x.now.link_states[l] = v /\ OpenGraph(t) /\ FreeLinkState(t, l)
        /\ ~t.enforce /\ d.links[l] # None => x # None
    BY <1>3, <2>2, <2>3, <2>4
  <2> QED
    BY <2>5 DEF x, v, old
<1> QED
  BY <1>4, <1>5

LEMMA MovePointUndoes ==
    ASSUME NEW d \in Docs, Good(d), NEW l \in Links, d.links[l] # None,
           NEW place \in Looks, NEW point \in DOMAIN LinkStateOr(d, l).route
    PROVE  Undoes(d, [kind |-> "move_point", link |-> l, point |-> point, place |-> place])
<1> DEFINE c == [kind |-> "move_point", link |-> l, point |-> point, place |-> place]
           b == Begin(d, TRUE)
           t == Executed(d, c)
           e == Led(d, c)
           f == Begin(e, FALSE)
           u == TakenBack(d, c)
           old == d.link_states[l]
<1>1. /\ t = MoveRoutePoint(b, l, point, place)
      /\ u = MoveRoutePoint(f, l, point, LinkStateOr(d, l).route[point])
  BY DEF Executed, TakenBack, Apply, Revert, Capture
<1>2. old # None /\ LinkStateOr(d, l) = old /\ old \in LinkStates /\ ValidPresentation(d)
      /\ Unshared(d, l, old)
  <2>1. old # None
    BY DEF LinkStateOr, DefaultLinkState, EmptyRoute
  <2>2. LinkStateOr(d, l) = old /\ ValidPresentation(d)
    BY <2>1, GoodIs DEF LinkStateOr
  <2> QED
    BY <2>1, <2>2, LinkStateOrIs
<1>3. /\ b \in Transactions /\ b.now = d
      /\ OpenGraph(b) => ~d.read_only
      /\ FreeLinkState(b, l) => ~old.locked
  BY <1>2, ExecutedIs
<1>4. /\ point \in DOMAIN old.route
      /\ u = MoveRoutePoint(f, l, point, old.route[point])
  BY <1>1, <1>2
<1> HIDE DEF c, b
<1> SUFFICES ASSUME t # None, e # d
             PROVE  /\ OnlyLinkState(d, e, l) /\ ValidPresentation(e)
                    /\ ~d.read_only /\ ~old.locked
                    /\ u \in Transactions /\ OnlyLinkState(e, u.now, l)
                    /\ u.now.link_states[l] = old
  <2>1. ASSUME Changes(d, c) PROVE u.now.link_states = d.link_states
    <3>1. \A m \in Links : u.now.link_states[m] = d.link_states[m]
      BY <2>1 DEF Changes, OnlyLinkState
    <3>2. u.now \in Docs
      BY <2>1 DEF Changes, OnlyLinkState, OnlyLinkStates
    <3> HIDE DEF u
    <3> QED
      BY <3>1, <3>2, PartsAre
  <2>2. ASSUME Changes(d, c)
        PROVE  /\ OnlyLinkStates(d, e) /\ ValidPresentation(e)
               /\ ~d.read_only /\ \A m \in Links :
                     d.link_states[m] # None /\ d.link_states[m].locked =>
                        e.link_states[m] = d.link_states[m]
               /\ u \in Transactions /\ OnlyLinkStates(e, u.now)
               /\ u.now.link_states = d.link_states
    BY <2>1, <2>2 DEF Changes, OnlyLinkState
  <2>3. Undoes(d, c)
    BY <2>2, LinkStatesUndoes
  <2> QED
    BY <2>3 DEF c
<1>5. /\ OnlyLinkState(d, e, l)
      /\ e.link_states[l] = Moved(old, point, place)
      /\ ~d.read_only /\ ~old.locked
  <2> HIDE DEF t
  <2> QED
    BY <1>1, <1>2, <1>3, <1>4, MoveRoutePointIs DEF Led, t
<1>6. /\ e \in Docs /\ e.link_states[l] # None /\ e.links[l] # None
      /\ point \in DOMAIN e.link_states[l].route
      /\ Moved(e.link_states[l], point, old.route[point]) = old
      /\ old.route[point] \in Looks
      /\ Unshared(d, l, e.link_states[l])
  <2>1. /\ Moved(old, point, place) \in LinkStates
        /\ DOMAIN Moved(old, point, place).route = DOMAIN old.route
        /\ Moved(Moved(old, point, place), point, old.route[point]) = old
        /\ old.route[point] \in Looks
    BY <1>2, <1>4, MovedIs
  <2>2. e \in Docs /\ e.links = d.links
    BY <1>5 DEF OnlyLinkState, OnlyLinkStates
  <2> HIDE DEF e, old
  <2> QED
    BY <1>2, <1>4, <1>5, <2>1, <2>2, NotNone DEF Unshared
<1> HIDE DEF e, t
<1>7. ValidPresentation(e)
  BY <1>2, <1>5, <1>6, OneLinkShown
<1>8. f \in Transactions /\ f.now = e /\ ~f.enforce
  BY <1>6, RevertedIs
<1> HIDE DEF f, u
<1>9. u # None /\ Follows(f, u) /\ OnlyLinkState(e, u.now, l) /\ u.now.link_states[l] = old
  BY <1>4, <1>6, <1>8, MoveRoutePointIs
<1> QED
  BY <1>5, <1>7, <1>9 DEF Follows

-----------------------------------------------------------------------------
(* Several shown links                                                     *)

OwnPoints(owner, l, state) ==
    state # None => \A point \in DOMAIN state.route : owner[point] = l
OwnsPoints(owner, d) == \A l \in Links : OwnPoints(owner, l, d.link_states[l])

LEMMA OwnerIs ==
    ASSUME NEW d \in Docs, ValidPresentation(d)
    PROVE  \E owner \in [Points -> Links \cup {None}] : OwnsPoints(owner, d)
<1> DEFINE owner == [point \in Points |->
                        IF RoutePointOwner(d, point) = {} THEN None
                        ELSE CHOOSE l : l \in RoutePointOwner(d, point)]
<1>1. ASSUME NEW l \in Links, d.link_states[l] # None,
             NEW point \in DOMAIN d.link_states[l].route
      PROVE  owner[point] = l
  <2>1. point \in Points
    BY <1>1, PartsAre DEF LinkStates, Routes
  <2>2. l \in RoutePointOwner(d, point)
    BY <1>1 DEF RoutePointOwner
  <2>3. \A m \in RoutePointOwner(d, point) : m = l
    BY <2>1, <2>2 DEF ValidPresentation
  <2> QED
    BY <2>1, <2>2, <2>3
<1>2. owner \in [Points -> Links \cup {None}]
  BY DEF RoutePointOwner
<1> HIDE DEF owner
<1> QED
  BY <1>1, <1>2 DEF OwnsPoints, OwnPoints

\* Several links are shown, or cleared; owner says whose the points are.
Shareable(owner, d, states, s) ==
    \A l \in s : states[l] # None => /\ d.links[l] # None /\ OwnPoints(owner, l, states[l])
                                     /\ OwnsPoints(owner, d)
ShownLinks(owner, t, states, x, s) ==
    /\ x # None =>
          /\ Follows(t, x) /\ OnlyLinkStates(t.now, x.now)
          /\ \A l \in Links : x.now.link_states[l] = IF l \in s THEN states[l] ELSE t.now.link_states[l]
          /\ \A l \in s : states[l] = t.now.link_states[l] \/ (OpenGraph(t) /\ FreeLinkState(t, l))
    /\ ~t.enforce /\ Shareable(owner, t.now, states, s) => x # None

LEMMA ShowLinksIs ==
    ASSUME NEW t \in Transactions, NEW S \in SUBSET Links, NEW states \in [S -> LinkStates \cup {None}], NEW owner
    PROVE  ShownLinks(owner, t, states, ShowLinks(t, states), S)
<1> DEFINE Step(x, n) == Then(x, LAMBDA y : SetLinkPresentation(y, n, states[n]))
           Loop(f) == f = [s \in SUBSET (S) |->
                              IF s = {} THEN t
                              ELSE LET n == CHOOSE n \in s : TRUE IN Step(f[s \ {n}], n)]
           step == [p \in Staged \X (S) |-> Step(p[1], p[2])]
           h == CHOOSE f : Loop(f)
           D == {s \in SUBSET (S) : ShownLinks(owner, t, states, h[s], s)}
<1>1. IsFiniteSet(S) /\ t \in Staged /\ t # None
  BY FS_Subset, ElementDocumentAssumption, NowIs
<1>2. ASSUME NEW x \in Staged, NEW n \in S PROVE Step(x, n) \in Staged
  <2>1. CASE x = None
    BY <2>1 DEF Then, Staged
  <2>2. CASE x # None
    <3>1. x \in Transactions /\ n \in Links /\ states[n] \in LinkStates \cup {None}
      BY <2>2 DEF Staged
    <3>2. SetLinkPresentation(x, n, states[n]) # None => Follows(x, SetLinkPresentation(x, n, states[n]))
      BY <3>1, SetLinkPresentationIs
    <3> QED
      BY <2>2, <3>2 DEF Then, Staged, Follows
  <2> QED
    BY <2>1, <2>2
<1>3. ShownLinks(owner, t, states, t, {})
  BY <1>1, NowIs DEF ShownLinks, OnlyLinkStates
<1>4. ASSUME NEW x, NEW s \in SUBSET (S), NEW n \in (S) \ s, ShownLinks(owner, t, states, x, s)
      PROVE  ShownLinks(owner, t, states, Step(x, n), s \cup {n})
  <2>1. CASE x = None
    BY <1>4, <2>1 DEF Then, ShownLinks, Shareable
  <2>2. CASE x # None
    <3> DEFINE y == SetLinkPresentation(x, n, states[n])
    <3>1. /\ Follows(t, x) /\ OnlyLinkStates(t.now, x.now)
          /\ \A m \in Links : x.now.link_states[m] = IF m \in s THEN states[m] ELSE t.now.link_states[m]
          /\ \A m \in s : states[m] = t.now.link_states[m] \/ (OpenGraph(t) /\ FreeLinkState(t, m))
      BY <1>4, <2>2 DEF ShownLinks
    <3>2. x \in Transactions /\ n \in Links /\ states[n] \in LinkStates \cup {None}
      BY <3>1 DEF Follows
    <3>3. /\ y # None =>
                 /\ Follows(x, y) /\ OnlyLinkState(x.now, y.now, n)
                 /\ y.now.link_states[n] = states[n]
                 /\ states[n] = x.now.link_states[n] \/ (OpenGraph(x) /\ FreeLinkState(x, n))
          /\ ~x.enforce /\ (states[n] # None => x.now.links[n] # None) /\ Unshared(x.now, n, states[n])
                => y # None
      BY <3>2, SetLinkPresentationIs
    <3>4. Step(x, n) = y
      BY <2>2 DEF Then
    <3> HIDE DEF y, Step
    <3>5. /\ x.now.link_states[n] = t.now.link_states[n] /\ x.now.links = t.now.links
          /\ (OpenGraph(x) <=> OpenGraph(t)) /\ (FreeLinkState(x, n) <=> FreeLinkState(t, n))
          /\ x.enforce = t.enforce
      BY <3>1, <3>2 DEF Follows, OpenGraph, FreeLinkState, OnlyLinkStates
    <3>6. ASSUME y # None
          PROVE  /\ Follows(t, y) /\ OnlyLinkStates(t.now, y.now)
                 /\ \A m \in Links : y.now.link_states[m] = IF m \in s \cup {n} THEN states[m]
                                                           ELSE t.now.link_states[m]
                 /\ \A m \in s \cup {n} :
                       states[m] = t.now.link_states[m] \/ (OpenGraph(t) /\ FreeLinkState(t, m))
      <4>1. Follows(t, y)
        BY <3>1, <3>3, <3>6, FollowsOn
      <4>2. OnlyLinkStates(t.now, y.now) /\ \A m \in Links \ {n} : y.now.link_states[m] = x.now.link_states[m]
        BY <3>1, <3>3, <3>6 DEF OnlyLinkState, OnlyLinkStates
      <4>3. \A m \in Links : y.now.link_states[m] = IF m \in s \cup {n} THEN states[m]
                                                       ELSE t.now.link_states[m]
        BY <3>1, <3>3, <3>6, <4>2
      <4>4. \A m \in s \cup {n} :
               states[m] = t.now.link_states[m] \/ (OpenGraph(t) /\ FreeLinkState(t, m))
        BY <3>1, <3>3, <3>5, <3>6
      <4> QED
        BY <4>1, <4>2, <4>3, <4>4
    <3>7. ASSUME ~t.enforce, Shareable(owner, t.now, states, s \cup {n}) PROVE y # None
      <4>1. /\ states[n] # None => /\ t.now.links[n] # None /\ OwnPoints(owner, n, states[n])
                                   /\ OwnsPoints(owner, t.now)
            /\ \A m \in s : states[m] # None => OwnPoints(owner, m, states[m])
        BY <3>7 DEF Shareable
      <4>2. ASSUME states[n] # None, NEW point \in DOMAIN states[n].route,
                   NEW m \in RoutePointOwner(x.now, point)
            PROVE  m = n
        <5>1. m \in Links /\ x.now.link_states[m] # None /\ point \in DOMAIN x.now.link_states[m].route
          BY DEF RoutePointOwner
        <5>2. OwnPoints(owner, m, x.now.link_states[m])
          BY <3>1, <4>1, <4>2, <5>1 DEF OwnsPoints
        <5> QED
          BY <4>1, <4>2, <5>1, <5>2 DEF OwnPoints
      <4>3. Unshared(x.now, n, states[n])
        BY <4>2 DEF Unshared
      <4> QED
        BY <3>3, <3>5, <3>7, <4>1, <4>3
    <3> QED
      BY <3>4, <3>6, <3>7 DEF ShownLinks
  <2> QED
    BY <2>1, <2>2
<1> HIDE DEF Step
<1>5. step \in [Staged \X (S) -> Staged]
  <2> SUFFICES ASSUME NEW p \in Staged \X (S) PROVE Step(p[1], p[2]) \in Staged
    OBVIOUS
  <2> QED
    BY <1>2
<1>6. Folds(S, t, step) # {}
  <2> HIDE DEF step
  <2> QED
    BY <1>1, <1>5, FoldsExist
<1>7. PICK g : g \in Folds(S, t, step)
  BY <1>6
<1>8. Loop(g)
  <2> HIDE DEF Staged
  <2>1. g \in [SUBSET (S) -> Staged] /\ g[{}] = t
    BY <1>7 DEF Folds
  <2>2. ASSUME NEW s \in SUBSET (S), s # {}
        PROVE  g[s] = LET n == CHOOSE n \in s : TRUE IN Step(g[s \ {n}], n)
    <3> DEFINE n == CHOOSE n \in s : TRUE
    <3>1. n \in s /\ g[s \ {n}] \in Staged /\ Rest(s) = s \ {n}
      BY <2>1, <2>2 DEF Rest
    <3>2. g[s] = step[<<g[Rest(s)], n>>]
      BY <1>7, <2>2 DEF Folds
    <3> HIDE DEF n
    <3>3. step[<<g[s \ {n}], n>>] = Step(g[s \ {n}], n)
      BY <3>1
    <3> HIDE DEF step
    <3>4. g[s] = Step(g[s \ {n}], n)
      BY <3>1, <3>2, <3>3
    <3> QED
      BY <3>4 DEF n
  <2> HIDE DEF step
  <2>3. g = [s \in SUBSET (S) |-> g[s]]
    BY <2>1
  <2> QED
    BY <2>1, <2>2, <2>3
<1> HIDE DEF step
<1>9. ShowLinks(t, states) = h[S]
  BY DEF ShowLinks, ForEach, FoldSet, MapThenFoldSet, Then, Step
<1>10. Loop(h)
  <2> HIDE DEF Loop
  <2> QED
    BY <1>8
<1> HIDE DEF h
<1>11. {} \in D
  BY <1>3, <1>10
<1>12. ASSUME NEW s \in SUBSET (S), s # {}, s \ {CHOOSE n \in s : TRUE} \in D PROVE s \in D
  <2> DEFINE n == CHOOSE n \in s : TRUE
  <2>1. n \in s /\ ShownLinks(owner, t, states, h[s \ {n}], s \ {n})
    BY <1>12
  <2>2. h[s] = Step(h[s \ {n}], n)
    BY <1>10, <1>12
  <2> HIDE DEF n, D, Loop
  <2>3. (s \ {n}) \cup {n} = s /\ n \in (S) \ (s \ {n}) /\ s \ {n} \in SUBSET (S)
    BY <2>1
  <2>4. ShownLinks(owner, t, states, h[s], s)
    BY <1>4, <2>1, <2>2, <2>3
  <2> QED
    BY <2>4 DEF D
<1> HIDE DEF D, Loop
<1>13. S \in D
  BY <1>1, <1>11, <1>12, SubsetInduct
<1> QED
  BY <1>9, <1>13 DEF D

-----------------------------------------------------------------------------
(* Points of several routes                                                *)

LEMMA OwnedIs ==
    ASSUME NEW d \in Docs, NEW owner, OwnsPoints(owner, d)
    PROVE  \A point \in Points : \A l, m \in RoutePointOwner(d, point) : l = m
  BY DEF OwnsPoints, OwnPoints, RoutePointOwner

Narrowed(v, w) == w # None => v # None /\ DOMAIN w.route \subseteq DOMAIN v.route

LEMMA RemoveRoutePointsIs ==
    ASSUME NEW t \in Transactions, NEW l \in Links, NEW points \in SUBSET Points
    PROVE  LET x == RemoveRoutePoints(t, l, points) IN
           x # None =>
              /\ Follows(t, x) /\ OnlyLinkState(t.now, x.now, l)
              /\ Narrowed(t.now.link_states[l], x.now.link_states[l])
              /\ x.now = t.now \/ (OpenGraph(t) /\ FreeLinkState(t, l) /\ t.now.links[l] # None)
<1> DEFINE d == t.now
           old == d.link_states[l]
           x == RemoveRoutePoints(t, l, points)
           route == [p \in DOMAIN old.route \ points |-> old.route[p]]
           v == [old EXCEPT !.route = route]
           state == Kept(v)
           e == [d EXCEPT !.link_states[l] = state]
<1>0. d \in Docs /\ t # None /\ Follows(t, t)
  BY NowIs
<1>1. CASE points = {}
  <2>1. x = t
    BY <1>1 DEF RemoveRoutePoints
  <2> QED
    BY <1>0, <2>1 DEF OnlyLinkState, OnlyLinkStates, Narrowed
<1>2. CASE points # {} /\ old = None
  <2>1. LinkStateOr(d, l).route = EmptyRoute /\ DOMAIN EmptyRoute = {}
    BY <1>2 DEF LinkStateOr, DefaultLinkState, EmptyRoute
  <2> QED
    BY <1>2, <2>1 DEF RemoveRoutePoints, ErasePoints, When, Stage
<1>3. CASE points # {} /\ old # None
  <2>1. LinkStateOr(d, l) = old /\ old \in LinkStates
    BY <1>0, <1>3, PartsAre DEF LinkStateOr
  <2>2. x = None \/ (x = Stage(t, e) /\ LinkMayChange(t, l))
    BY <1>3, <2>1 DEF RemoveRoutePoints, ErasePoints, When, Stage
  <2>3. route \in Routes /\ DOMAIN route \subseteq DOMAIN old.route
    <3>1. PICK all \in SUBSET Points : old.route \in [all -> Looks]
      BY <2>1 DEF LinkStates, Routes
    <3>2. route \in [all \ points -> Looks] /\ all \ points \in SUBSET Points
      BY <3>1
    <3> QED
      BY <3>1, <3>2 DEF Routes
  <2> HIDE DEF route
  <2>4. v \in LinkStates /\ v.route = route
    BY <2>1, <2>3 DEF LinkStates
  <2> HIDE DEF v
  <2>5. state \in LinkStates \cup {None} /\ (state # None => state = v)
    BY <2>4, KeptIs DEF Kept
  <2> HIDE DEF state
  <2>6. e \in Docs /\ OnlyLinkState(d, e, l) /\ e.link_states[l] = state
    BY <1>0, <2>5, PutLinkState
  <2> HIDE DEF e, x
  <2>7. Follows(t, Stage(t, e)) /\ Stage(t, e).now = e
    BY <2>6, StageIs
  <2>8. LinkMayChange(t, l) => OpenGraph(t) /\ FreeLinkState(t, l) /\ d.links[l] # None
    BY ProtectionIs DEF LinkMayChange
  <2>9. x # None =>
           /\ Follows(t, x) /\ OnlyLinkState(t.now, x.now, l)
           /\ Narrowed(t.now.link_states[l], x.now.link_states[l])
           /\ OpenGraph(t) /\ FreeLinkState(t, l) /\ t.now.links[l] # None
    BY <1>3, <2>2, <2>3, <2>4, <2>5, <2>6, <2>7, <2>8 DEF Narrowed
  <2> QED
    BY <2>9 DEF x
<1> QED
  BY <1>1, <1>2, <1>3

\* Several links lose points.
LostPoints(t, x, s) ==
    x # None =>
       /\ Follows(t, x) /\ OnlyLinkStates(t.now, x.now)
       /\ \A l \in Links :
             \/ x.now.link_states[l] = t.now.link_states[l]
             \/ /\ l \in s /\ OpenGraph(t) /\ FreeLinkState(t, l) /\ t.now.links[l] # None
                /\ Narrowed(t.now.link_states[l], x.now.link_states[l])

LEMMA RemoveAllPointsIs ==
    ASSUME NEW t \in Transactions, NEW S \in SUBSET Links, NEW points \in [S -> SUBSET Points]
    PROVE  LostPoints(t, RemoveAllPoints(t, points), S)
<1> DEFINE Step(x, n) == Then(x, LAMBDA y : RemoveRoutePoints(y, n, points[n]))
           Loop(f) == f = [s \in SUBSET (S) |->
                              IF s = {} THEN t
                              ELSE LET n == CHOOSE n \in s : TRUE IN Step(f[s \ {n}], n)]
           step == [p \in Staged \X (S) |-> Step(p[1], p[2])]
           h == CHOOSE f : Loop(f)
           D == {s \in SUBSET (S) : LostPoints(t, h[s], s)}
<1>1. IsFiniteSet(S) /\ t \in Staged /\ t # None
  BY FS_Subset, ElementDocumentAssumption, NowIs
<1>2. ASSUME NEW x \in Staged, NEW n \in S PROVE Step(x, n) \in Staged
  <2>1. CASE x = None
    BY <2>1 DEF Then, Staged
  <2>2. CASE x # None
    <3>1. x \in Transactions /\ n \in Links /\ points[n] \in SUBSET Points
      BY <2>2 DEF Staged
    <3>2. RemoveRoutePoints(x, n, points[n]) # None => Follows(x, RemoveRoutePoints(x, n, points[n]))
      BY <3>1, RemoveRoutePointsIs
    <3> QED
      BY <2>2, <3>2 DEF Then, Staged, Follows
  <2> QED
    BY <2>1, <2>2
<1>3. LostPoints(t, t, {})
  BY <1>1, NowIs DEF LostPoints, OnlyLinkStates
<1>4. ASSUME NEW x, NEW s \in SUBSET (S), NEW n \in (S) \ s, LostPoints(t, x, s)
      PROVE  LostPoints(t, Step(x, n), s \cup {n})
  <2>1. CASE x = None
    BY <1>4, <2>1 DEF Then, LostPoints
  <2>2. CASE x # None
    <3> DEFINE y == RemoveRoutePoints(x, n, points[n])
    <3>1. /\ Follows(t, x) /\ OnlyLinkStates(t.now, x.now)
          /\ \A m \in Links :
                \/ x.now.link_states[m] = t.now.link_states[m]
                \/ /\ m \in s /\ OpenGraph(t) /\ FreeLinkState(t, m) /\ t.now.links[m] # None
                   /\ Narrowed(t.now.link_states[m], x.now.link_states[m])
      BY <1>4, <2>2 DEF LostPoints
    <3>2. x \in Transactions /\ n \in Links /\ points[n] \in SUBSET Points
      BY <3>1 DEF Follows
    <3>3. y # None =>
             /\ Follows(x, y) /\ OnlyLinkState(x.now, y.now, n)
             /\ Narrowed(x.now.link_states[n], y.now.link_states[n])
             /\ y.now = x.now \/ (OpenGraph(x) /\ FreeLinkState(x, n) /\ x.now.links[n] # None)
      BY <3>2, RemoveRoutePointsIs
    <3>4. Step(x, n) = y
      BY <2>2 DEF Then
    <3> HIDE DEF y, Step
    <3>5. /\ x.now.link_states[n] = t.now.link_states[n] /\ x.now.links = t.now.links
          /\ (OpenGraph(x) <=> OpenGraph(t)) /\ (FreeLinkState(x, n) <=> FreeLinkState(t, n))
      BY <3>1, <3>2 DEF Follows, OpenGraph, FreeLinkState, OnlyLinkStates
    <3>6. ASSUME y # None PROVE LostPoints(t, y, s \cup {n})
      <4>1. Follows(t, y)
        BY <3>1, <3>3, <3>6, FollowsOn
      <4>2. OnlyLinkStates(t.now, y.now) /\ \A m \in Links \ {n} : y.now.link_states[m] = x.now.link_states[m]
        BY <3>1, <3>3, <3>6 DEF OnlyLinkState, OnlyLinkStates
      <4>3. \/ y.now.link_states[n] = t.now.link_states[n]
            \/ /\ OpenGraph(t) /\ FreeLinkState(t, n) /\ t.now.links[n] # None
               /\ Narrowed(t.now.link_states[n], y.now.link_states[n])
        BY <3>3, <3>5, <3>6
      <4> QED
        BY <3>1, <4>1, <4>2, <4>3 DEF LostPoints
    <3> QED
      BY <3>4, <3>6 DEF LostPoints
  <2> QED
    BY <2>1, <2>2
<1> HIDE DEF Step
<1>5. step \in [Staged \X (S) -> Staged]
  <2> SUFFICES ASSUME NEW p \in Staged \X (S) PROVE Step(p[1], p[2]) \in Staged
    OBVIOUS
  <2> QED
    BY <1>2
<1>6. Folds(S, t, step) # {}
  <2> HIDE DEF step
  <2> QED
    BY <1>1, <1>5, FoldsExist
<1>7. PICK g : g \in Folds(S, t, step)
  BY <1>6
<1>8. Loop(g)
  <2> HIDE DEF Staged
  <2>1. g \in [SUBSET (S) -> Staged] /\ g[{}] = t
    BY <1>7 DEF Folds
  <2>2. ASSUME NEW s \in SUBSET (S), s # {}
        PROVE  g[s] = LET n == CHOOSE n \in s : TRUE IN Step(g[s \ {n}], n)
    <3> DEFINE n == CHOOSE n \in s : TRUE
    <3>1. n \in s /\ g[s \ {n}] \in Staged /\ Rest(s) = s \ {n}
      BY <2>1, <2>2 DEF Rest
    <3>2. g[s] = step[<<g[Rest(s)], n>>]
      BY <1>7, <2>2 DEF Folds
    <3> HIDE DEF n
    <3>3. step[<<g[s \ {n}], n>>] = Step(g[s \ {n}], n)
      BY <3>1
    <3> HIDE DEF step
    <3>4. g[s] = Step(g[s \ {n}], n)
      BY <3>1, <3>2, <3>3
    <3> QED
      BY <3>4 DEF n
  <2> HIDE DEF step
  <2>3. g = [s \in SUBSET (S) |-> g[s]]
    BY <2>1
  <2> QED
    BY <2>1, <2>2, <2>3
<1> HIDE DEF step
<1>9. RemoveAllPoints(t, points) = h[S]
  BY DEF RemoveAllPoints, ForEach, FoldSet, MapThenFoldSet, Then, Step
<1>10. Loop(h)
  <2> HIDE DEF Loop
  <2> QED
    BY <1>8
<1> HIDE DEF h
<1>11. {} \in D
  BY <1>3, <1>10
<1>12. ASSUME NEW s \in SUBSET (S), s # {}, s \ {CHOOSE n \in s : TRUE} \in D PROVE s \in D
  <2> DEFINE n == CHOOSE n \in s : TRUE
  <2>1. n \in s /\ LostPoints(t, h[s \ {n}], s \ {n})
    BY <1>12
  <2>2. h[s] = Step(h[s \ {n}], n)
    BY <1>10, <1>12
  <2> HIDE DEF n, D, Loop
  <2>3. (s \ {n}) \cup {n} = s /\ n \in (S) \ (s \ {n}) /\ s \ {n} \in SUBSET (S)
    BY <2>1
  <2>4. LostPoints(t, h[s], s)
    BY <1>4, <2>1, <2>2, <2>3
  <2> QED
    BY <2>4 DEF D
<1> HIDE DEF D, Loop
<1>13. S \in D
  BY <1>1, <1>11, <1>12, SubsetInduct
<1> QED
  BY <1>9, <1>13 DEF D

LEMMA RemovePointsUndoes ==
    ASSUME NEW d \in Docs, Good(d), NEW points \in SUBSET (Links \X Points)
    PROVE  Undoes(d, [kind |-> "remove_points", points |-> points])
<1> DEFINE c == [kind |-> "remove_points", points |-> points]
           links == {ref[1] : ref \in points}
           old == [l \in links |-> d.link_states[l]]
           lost == [l \in links |-> PointsOf(c, l)]
           b == Begin(d, TRUE)
           t == Executed(d, c)
           e == Led(d, c)
           f == Begin(e, FALSE)
           u == TakenBack(d, c)
<1>0. Capture(d, c).states = old
  BY DEF Capture
<1>1. t = RemoveAllPoints(b, lost) /\ u = ShowLinks(f, old)
  <2>1. /\ t = RemoveAllPoints(b, [l \in DOMAIN Capture(d, c).states |-> PointsOf(c, l)])
        /\ u = ShowLinks(f, Capture(d, c).states)
    BY DEF Executed, TakenBack, Apply, Revert
  <2>2. DOMAIN old = links
    OBVIOUS
  <2> HIDE DEF old, c, t, u, b, f, links
  <2> QED
    BY <1>0, <2>1, <2>2
<1>2. links \in SUBSET Links /\ \A l \in links : PointsOf(c, l) \in SUBSET Points
  BY DEF PointsOf
<1>3. /\ d.link_states \in [Links -> LinkStates \cup {None}] /\ ValidPresentation(d)
      /\ old \in [links -> LinkStates \cup {None}]
      /\ lost \in [links -> SUBSET Points]
  BY <1>2, PartsAre, GoodIs
<1>4. /\ b \in Transactions /\ b.now = d
      /\ OpenGraph(b) => ~d.read_only
      /\ \A l : FreeLinkState(b, l) /\ d.link_states[l] # None => ~d.link_states[l].locked
  BY ExecutedIs
<1>5. PICK owner : OwnsPoints(owner, d)
  BY <1>3, OwnerIs
<1> HIDE DEF c, b, links, lost
<1> SUFFICES ASSUME t # None, e # d
             PROVE  /\ OnlyLinkStates(d, e) /\ ValidPresentation(e)
                    /\ ~d.read_only /\ \A l \in Links :
                          d.link_states[l] # None /\ d.link_states[l].locked =>
                             e.link_states[l] = d.link_states[l]
                    /\ u \in Transactions /\ OnlyLinkStates(e, u.now)
                    /\ u.now.link_states = d.link_states
  <2>1. Undoes(d, c)
    BY LinkStatesUndoes DEF Changes
  <2> QED
    BY <2>1 DEF c
<1>6. LostPoints(b, t, links)
  <2> HIDE DEF t
  <2> QED
    BY <1>1, <1>2, <1>3, <1>4, RemoveAllPointsIs
<1>7. /\ OnlyLinkStates(d, e)
      /\ \A l \in Links :
            \/ e.link_states[l] = d.link_states[l]
            \/ /\ l \in links /\ OpenGraph(b) /\ FreeLinkState(b, l) /\ d.links[l] # None
               /\ Narrowed(d.link_states[l], e.link_states[l])
  BY <1>4, <1>6 DEF LostPoints, Led
<1>8. \E l \in Links : e.link_states[l] # d.link_states[l]
  <2> SUFFICES ASSUME \A l \in Links : e.link_states[l] = d.link_states[l] PROVE FALSE
    OBVIOUS
  <2>1. e \in Docs
    BY <1>7 DEF OnlyLinkStates
  <2>2. e.link_states = d.link_states
    BY <1>3, <2>1, PartsAre
  <2> HIDE DEF e
  <2> QED
    BY <1>7, <2>1, <2>2, SameDocument DEF OnlyLinkStates
<1> HIDE DEF e, t
<1>9. e \in Docs /\ e.links = d.links
  BY <1>7 DEF OnlyLinkStates
<1>10. OwnsPoints(owner, e)
  BY <1>5, <1>7 DEF OwnsPoints, OwnPoints, Narrowed
<1>11. ValidPresentation(e)
  <2>1. \A point \in Points : \A l, m \in RoutePointOwner(e, point) : l = m
    BY <1>9, <1>10, OwnedIs
  <2> QED
    BY <1>3, <1>7, <2>1 DEF ValidPresentation, OnlyLinkStates
<1>12. f \in Transactions /\ f.now = e /\ ~f.enforce
  BY <1>9, RevertedIs
<1> HIDE DEF f, u
<1>13. Shareable(owner, e, old, links)
  <2>1. ASSUME NEW l \in links, old[l] # None
        PROVE  e.links[l] # None /\ OwnPoints(owner, l, old[l])
    BY <1>2, <1>3, <1>5, <1>9, <2>1 DEF ValidPresentation, OwnsPoints
  <2> HIDE DEF old
  <2> QED
    BY <1>10, <2>1 DEF Shareable
<1>14. ShownLinks(owner, f, old, u, links)
  <2> HIDE DEF old
  <2> QED
    BY <1>1, <1>2, <1>3, <1>12, ShowLinksIs
<1>15. /\ u \in Transactions /\ OnlyLinkStates(e, u.now)
       /\ \A l \in Links : u.now.link_states[l] = IF l \in links THEN old[l] ELSE e.link_states[l]
  BY <1>12, <1>13, <1>14 DEF ShownLinks, Follows
<1>16. \A l \in Links : u.now.link_states[l] = d.link_states[l]
  BY <1>7, <1>15
<1>17. u.now.link_states = d.link_states
  BY <1>3, <1>15, <1>16, PartsAre DEF OnlyLinkStates
<1> QED
  BY <1>4, <1>7, <1>8, <1>11, <1>15, <1>17

-----------------------------------------------------------------------------
(* What an enforcing transaction may change                                *)

Permitted(t, d, e) ==
    /\ d # e => OpenGraph(t)
    /\ \A n \in Nodes : d.nodes[n] # None /\ e.nodes[n] # d.nodes[n] => FreeNode(t, n)
    /\ \A p \in Pins : d.pins[p] # None /\ e.pins[p] # d.pins[p] => FreeEnd(t, p)
    /\ \A l \in Links : e.links[l] # d.links[l] =>
          /\ d.links[l] # None => FreeLink(t, l) /\ \A p \in Ends(d, l) : FreeEnd(t, p)
          /\ e.links[l] # None => \A p \in Ends(e, l) : FreeEnd(t, p)
    /\ \A n \in Nodes : e.node_states[n] # d.node_states[n] => FreeNodeState(t, n)
    /\ \A l \in Links : e.link_states[l] # d.link_states[l] => FreeLinkState(t, l)
    /\ \A g \in Groups : e.groups[g] # d.groups[g] => FreeGroup(t, g)

LEMMA PermittedOn ==
    ASSUME NEW t, NEW c, NEW d, NEW e, Permitted(t, c, d), Permitted(t, d, e)
    PROVE  Permitted(t, c, e)
<1>1. /\ c # e => OpenGraph(t)
      /\ \A n \in Nodes : c.nodes[n] # None /\ e.nodes[n] # c.nodes[n] => FreeNode(t, n)
      /\ \A p \in Pins : c.pins[p] # None /\ e.pins[p] # c.pins[p] => FreeEnd(t, p)
  BY DEF Permitted
<1>2. ASSUME NEW l \in Links, e.links[l] # c.links[l]
      PROVE  /\ c.links[l] # None => FreeLink(t, l) /\ \A p \in Ends(c, l) : FreeEnd(t, p)
             /\ e.links[l] # None => \A p \in Ends(e, l) : FreeEnd(t, p)
  <2>1. CASE d.links[l] = c.links[l]
    BY <1>2, <2>1 DEF Permitted, Ends
  <2>2. CASE d.links[l] # c.links[l] /\ d.links[l] = e.links[l]
    BY <1>2, <2>2 DEF Permitted, Ends
  <2>3. CASE d.links[l] # c.links[l] /\ d.links[l] # e.links[l]
    BY <1>2, <2>3 DEF Permitted
  <2> QED
    BY <2>1, <2>2, <2>3
<1>3. /\ \A n \in Nodes : e.node_states[n] # c.node_states[n] => FreeNodeState(t, n)
      /\ \A l \in Links : e.link_states[l] # c.link_states[l] => FreeLinkState(t, l)
      /\ \A g \in Groups : e.groups[g] # c.groups[g] => FreeGroup(t, g)
  BY DEF Permitted
<1> QED
  BY <1>1, <1>2, <1>3 DEF Permitted

LEMMA PermittedIs ==
    ASSUME NEW t \in Transactions, NEW x, Follows(t, x), NEW d, NEW e
    PROVE  /\ Permitted(x, d, e) <=> Permitted(t, d, e)
           /\ OpenGraph(x) <=> OpenGraph(t)
           /\ \A p : FreeEnd(x, p) <=> FreeEnd(t, p)
           /\ Permitted(t, d, d)
<1>1. /\ OpenGraph(x) <=> OpenGraph(t)
      /\ \A n : FreeNode(x, n) <=> FreeNode(t, n)
      /\ \A p : FreeEnd(x, p) <=> FreeEnd(t, p)
      /\ \A l : FreeLink(x, l) <=> FreeLink(t, l)
      /\ \A n : FreeNodeState(x, n) <=> FreeNodeState(t, n)
      /\ \A l : FreeLinkState(x, l) <=> FreeLinkState(t, l)
      /\ \A g : FreeGroup(x, g) <=> FreeGroup(t, g)
  BY DEF Follows, OpenGraph, FreeNode, FreePin, FreeEnd, FreeLink, FreeNodeState, FreeLinkState,
         FreeGroup
<1> QED
  BY <1>1 DEF Permitted

LEMMA SparedFrom ==
    ASSUME NEW d \in Docs, GoodGraph(d), NEW e \in Docs, e # d, Permitted(Begin(d, TRUE), d, e)
    PROVE  Spared(d, e)
<1> DEFINE t == Begin(d, TRUE)
           Bound(p) == d.pins[p].read_only \/ d.nodes[p[1]].read_only
<1>1. /\ OpenGraph(t) => ~d.read_only
      /\ \A n : FreeNode(t, n) /\ d.nodes[n] # None => ~d.nodes[n].read_only
      /\ \A p : FreePin(t, p) /\ d.pins[p] # None => ~d.pins[p].read_only
      /\ \A l : FreeLink(t, l) /\ d.links[l] # None => ~d.links[l].read_only
      /\ \A n : FreeNodeState(t, n) /\ d.node_states[n] # None => ~d.node_states[n].locked
      /\ \A l : FreeLinkState(t, l) /\ d.link_states[l] # None => ~d.link_states[l].locked
      /\ \A g : FreeGroup(t, g) /\ d.groups[g] # None => ~d.groups[g].locked
  BY ExecutedIs
<1> HIDE DEF t
<1>2. Permitted(t, d, e)
  BY DEF t
<1>3. \A p \in Pins : p[1] \in Nodes /\ (d.pins[p] # None => d.nodes[p[1]] # None)
  BY DEF GoodGraph, Rooted, Pins
<1>4. \A p \in Pins : d.pins[p] # None /\ Bound(p) => ~FreeEnd(t, p)
  BY <1>1, <1>3 DEF FreeEnd
<1>5. ASSUME NEW n \in Nodes, d.nodes[n] # None, d.nodes[n].read_only
      PROVE  e.nodes[n] = d.nodes[n] /\ \A p \in ToSet(d.nodes[n].pins) : e.pins[p] = d.pins[p]
  <2>1. e.nodes[n] = d.nodes[n]
    BY <1>1, <1>2, <1>5 DEF Permitted
  <2>2. ASSUME NEW p \in ToSet(d.nodes[n].pins) PROVE e.pins[p] = d.pins[p]
    <3>1. p \in Pins
      BY <1>5, PartsAre DEF NodeValues, ToSet
    <3>2. p[1] = n /\ d.pins[p] # None
      BY <1>5 DEF GoodGraph, Held
    <3> QED
      BY <1>2, <1>4, <1>5, <3>1, <3>2 DEF Permitted
  <2> QED
    BY <2>1, <2>2
<1>6. ASSUME NEW p \in Pins, d.pins[p] # None, Bound(p)
      PROVE  /\ e.pins[p] = d.pins[p]
             /\ IncidentLinks(e, p) = IncidentLinks(d, p)
             /\ \A l \in IncidentLinks(d, p) : e.links[l] = d.links[l]
  <2>1. ~FreeEnd(t, p)
    BY <1>4, <1>6
  <2>2. ASSUME NEW l \in Links, l \in IncidentLinks(d, p) \/ l \in IncidentLinks(e, p)
        PROVE  e.links[l] = d.links[l]
    BY <1>2, <2>1, <2>2 DEF Permitted, Ends, IncidentLinks
  <2>3. IncidentLinks(e, p) = IncidentLinks(d, p)
    BY <2>2 DEF IncidentLinks
  <2> QED
    BY <1>2, <1>6, <2>1, <2>2, <2>3 DEF Permitted, IncidentLinks
<1>7. \A l \in Links : d.links[l] # None /\ d.links[l].read_only => e.links[l] = d.links[l]
  BY <1>1, <1>2 DEF Permitted
<1>8. /\ \A n \in Nodes : d.node_states[n] # None /\ d.node_states[n].locked =>
            e.node_states[n] = d.node_states[n]
      /\ \A l \in Links : d.link_states[l] # None /\ d.link_states[l].locked =>
            e.link_states[l] = d.link_states[l]
      /\ \A g \in Groups : d.groups[g] # None /\ d.groups[g].locked => e.groups[g] = d.groups[g]
      /\ ~d.read_only
  BY <1>1, <1>2 DEF Permitted
<1> QED
  BY <1>5, <1>6, <1>7, <1>8 DEF Spared

\* The commands of which every change is a permitted one.
LEMMA PermittedUndoes ==
    ASSUME NEW d \in Docs, Good(d), NEW c,
           Changes(d, c) =>
              /\ Led(d, c) \in Docs /\ Good(Led(d, c))
              /\ Permitted(Begin(d, TRUE), d, Led(d, c))
              /\ TakenBack(d, c) \in Transactions /\ TakenBack(d, c).now = d
    PROVE  Undoes(d, c)
<1>1. GoodGraph(d)
  BY GoodIs
<1>2. Changes(d, c) => Spared(d, Led(d, c))
  BY <1>1, SparedFrom DEF Changes
<1> QED
  BY <1>2, UndoesFrom

-----------------------------------------------------------------------------
(* One node, one pin, one link                                             *)

LEMMA PutNode ==
    ASSUME NEW d \in Docs, NEW n \in Nodes, NEW v \in NodeValues \cup {None}
    PROVE  LET e == [d EXCEPT !.nodes[n] = v] IN
           /\ e \in Docs /\ OnlyStructure(d, e) /\ e.pins = d.pins /\ e.links = d.links
           /\ e.nodes[n] = v /\ \A m \in Nodes \ {n} : e.nodes[m] = d.nodes[m]
<1> DEFINE nodes == [d.nodes EXCEPT ![n] = v]
           e == [d EXCEPT !.nodes = nodes]
<1>1. /\ nodes \in [Nodes -> NodeValues \cup {None}] /\ nodes[n] = v
      /\ \A m \in Nodes \ {n} : nodes[m] = d.nodes[m]
  BY PartsAre
<1> HIDE DEF nodes
<1>2. OnlyStructure(d, e) /\ e.nodes = nodes /\ e.pins = d.pins /\ e.links = d.links
  BY <1>1, PutNodes
<1>3. /\ e \in Docs /\ OnlyStructure(d, e) /\ e.pins = d.pins /\ e.links = d.links
      /\ e.nodes[n] = v /\ \A m \in Nodes \ {n} : e.nodes[m] = d.nodes[m]
  <2> HIDE DEF e
  <2> QED
    BY <1>1, <1>2 DEF OnlyStructure
<1> QED
  BY <1>3 DEF e, nodes

LEMMA PutPin ==
    ASSUME NEW d \in Docs, NEW p \in Pins, NEW v \in PinValues \cup {None}
    PROVE  LET e == [d EXCEPT !.pins[p] = v] IN
           /\ e \in Docs /\ OnlyStructure(d, e) /\ e.nodes = d.nodes /\ e.links = d.links
           /\ e.pins[p] = v /\ \A q \in Pins \ {p} : e.pins[q] = d.pins[q]
<1> DEFINE pins == [d.pins EXCEPT ![p] = v]
           e == [d EXCEPT !.pins = pins]
<1>1. /\ pins \in [Pins -> PinValues \cup {None}] /\ pins[p] = v
      /\ \A q \in Pins \ {p} : pins[q] = d.pins[q]
  BY PartsAre
<1> HIDE DEF pins
<1>2. OnlyStructure(d, e) /\ e.nodes = d.nodes /\ e.pins = pins /\ e.links = d.links
  BY <1>1, PutPins
<1>3. /\ e \in Docs /\ OnlyStructure(d, e) /\ e.nodes = d.nodes /\ e.links = d.links
      /\ e.pins[p] = v /\ \A q \in Pins \ {p} : e.pins[q] = d.pins[q]
  <2> HIDE DEF e
  <2> QED
    BY <1>1, <1>2 DEF OnlyStructure
<1> QED
  BY <1>3 DEF e, pins

LEMMA PutLink ==
    ASSUME NEW d \in Docs, NEW l \in Links, NEW v \in LinkValues \cup {None}
    PROVE  LET e == [d EXCEPT !.links[l] = v] IN
           /\ e \in Docs /\ OnlyStructure(d, e) /\ e.nodes = d.nodes /\ e.pins = d.pins
           /\ e.links[l] = v /\ \A m \in Links \ {l} : e.links[m] = d.links[m]
<1> DEFINE links == [d.links EXCEPT ![l] = v]
           e == [d EXCEPT !.links = links]
<1>1. /\ links \in [Links -> LinkValues \cup {None}] /\ links[l] = v
      /\ \A m \in Links \ {l} : links[m] = d.links[m]
  BY PartsAre
<1> HIDE DEF links
<1>2. OnlyStructure(d, e) /\ e.nodes = d.nodes /\ e.pins = d.pins /\ e.links = links
  BY <1>1, PutLinks
<1>3. /\ e \in Docs /\ OnlyStructure(d, e) /\ e.nodes = d.nodes /\ e.pins = d.pins
      /\ e.links[l] = v /\ \A m \in Links \ {l} : e.links[m] = d.links[m]
  <2> HIDE DEF e
  <2> QED
    BY <1>1, <1>2 DEF OnlyStructure
<1> QED
  BY <1>3 DEF e, links

-----------------------------------------------------------------------------
(* Names and protection                                                    *)

OnlyNode(d, e, n) ==
    /\ e \in Docs /\ OnlyStructure(d, e) /\ e.pins = d.pins /\ e.links = d.links
    /\ \A m \in Nodes \ {n} : e.nodes[m] = d.nodes[m]
OnlyPin(d, e, p) ==
    /\ e \in Docs /\ OnlyStructure(d, e) /\ e.nodes = d.nodes /\ e.links = d.links
    /\ \A q \in Pins \ {p} : e.pins[q] = d.pins[q]
OnlyLink(d, e, l) ==
    /\ e \in Docs /\ OnlyStructure(d, e) /\ e.nodes = d.nodes /\ e.pins = d.pins
    /\ \A m \in Links \ {l} : e.links[m] = d.links[m]

LEMMA OnlyOneIs ==
    ASSUME NEW d \in Docs, NEW t
    PROVE  /\ \A n : OnlyNode(d, d, n)
           /\ \A p : OnlyPin(d, d, p)
           /\ \A l : OnlyLink(d, d, l)
           /\ \A n \in Nodes : \A e : OnlyNode(d, e, n) /\ e.nodes[n] = d.nodes[n] => e = d
           /\ \A p \in Pins : \A e : OnlyPin(d, e, p) /\ e.pins[p] = d.pins[p] => e = d
           /\ \A l \in Links : \A e : OnlyLink(d, e, l) /\ e.links[l] = d.links[l] => e = d
<1>1. /\ \A n : OnlyNode(d, d, n)
      /\ \A p : OnlyPin(d, d, p)
      /\ \A l : OnlyLink(d, d, l)
  BY DEF OnlyNode, OnlyPin, OnlyLink, OnlyStructure
<1>2. ASSUME NEW n \in Nodes, NEW e, OnlyNode(d, e, n), e.nodes[n] = d.nodes[n] PROVE e = d
  <2>1. e \in Docs /\ \A m \in Nodes : e.nodes[m] = d.nodes[m]
    BY <1>2 DEF OnlyNode
  <2>2. e.nodes = d.nodes
    BY <2>1, PartsAre
  <2> QED
    BY <1>2, <2>1, <2>2, SameDocument DEF OnlyNode, OnlyStructure
<1>3. ASSUME NEW p \in Pins, NEW e, OnlyPin(d, e, p), e.pins[p] = d.pins[p] PROVE e = d
  <2>1. e \in Docs /\ \A m \in Pins : e.pins[m] = d.pins[m]
    BY <1>3 DEF OnlyPin
  <2>2. e.pins = d.pins
    BY <2>1, PartsAre
  <2> QED
    BY <1>3, <2>1, <2>2, SameDocument DEF OnlyPin, OnlyStructure
<1>4. ASSUME NEW l \in Links, NEW e, OnlyLink(d, e, l), e.links[l] = d.links[l] PROVE e = d
  <2>1. e \in Docs /\ \A m \in Links : e.links[m] = d.links[m]
    BY <1>4 DEF OnlyLink
  <2>2. e.links = d.links
    BY <2>1, PartsAre
  <2> QED
    BY <1>4, <2>1, <2>2, SameDocument DEF OnlyLink, OnlyStructure
<1> QED
  BY <1>1, <1>2, <1>3, <1>4

LEMMA NodeStaged ==
    ASSUME NEW t \in Transactions, NEW n \in Nodes, NEW v \in NodeValues,
           OpenGraph(t), FreeNode(t, n)
    PROVE  LET x == Stage(t, [t.now EXCEPT !.nodes[n] = v]) IN
           /\ x # None /\ Follows(t, x) /\ OnlyNode(t.now, x.now, n) /\ x.now.nodes[n] = v
           /\ Permitted(t, t.now, x.now)
<1> DEFINE d == t.now
           e == [d EXCEPT !.nodes[n] = v]
           x == Stage(t, e)
<1>1. d \in Docs
  BY NowIs
<1>2. OnlyNode(d, e, n) /\ e \in Docs /\ e.nodes[n] = v
  BY <1>1, PutNode DEF OnlyNode
<1> HIDE DEF e
<1>3. x # None /\ Follows(t, x) /\ x.now = e
  BY <1>2, StageIs
<1>4. Permitted(t, d, e)
  BY <1>2 DEF Permitted, OnlyNode, OnlyStructure
<1> QED
  BY <1>2, <1>3, <1>4 DEF e

LEMMA SetNodeDisplayNameIs ==
    ASSUME NEW t \in Transactions, NEW n \in Nodes, NEW name \in Looks
    PROVE  LET x == SetNodeDisplayName(t, n, name) IN
           /\ x # None =>
                 /\ Follows(t, x) /\ OnlyNode(t.now, x.now, n)
                 /\ t.now.nodes[n] # None
                 /\ x.now.nodes[n] = [t.now.nodes[n] EXCEPT !.name = name]
                 /\ Permitted(t, t.now, x.now)
           /\ ~t.enforce /\ t.now.nodes[n] # None => x # None
<1> DEFINE d == t.now
           x == SetNodeDisplayName(t, n, name)
           v == [d.nodes[n] EXCEPT !.name = name]
<1>0. d \in Docs /\ t # None /\ Follows(t, t) /\ OnlyNode(d, d, n) /\ Permitted(t, d, d)
  BY NowIs, OnlyOneIs, PermittedIs
<1>1. CASE d.nodes[n] = None
  <2>1. x = None
    BY <1>1 DEF SetNodeDisplayName, WriteName, When, Stage
  <2> QED
    BY <1>1, <2>1
<1>2. CASE d.nodes[n] # None
  <2>1. d.nodes[n] \in NodeValues /\ v \in NodeValues
    BY <1>0, <1>2, PartsAre DEF NodeValues
  <2>2. CASE d.nodes[n].name = name
    <3>1. x = t /\ v = d.nodes[n]
      BY <1>2, <2>1, <2>2 DEF SetNodeDisplayName, NodeValues
    <3> QED
      BY <1>0, <1>2, <3>1
  <2>3. CASE d.nodes[n].name # name
    <3>1. x = IF ~GraphReadOnly(t) /\ ~NodeReadOnly(t, n)
              THEN Stage(t, [d EXCEPT !.nodes[n] = v]) ELSE None
      BY <1>2, <2>3 DEF SetNodeDisplayName, WriteName, When
    <3>2. /\ ~GraphReadOnly(t) => OpenGraph(t)
          /\ ~NodeReadOnly(t, n) => FreeNode(t, n)
          /\ ~t.enforce => ~GraphReadOnly(t) /\ ~NodeReadOnly(t, n)
      BY ProtectionIs, FreeIs
    <3> HIDE DEF x, v
    <3>3. /\ x # None => /\ Follows(t, x) /\ OnlyNode(t.now, x.now, n) /\ x.now.nodes[n] = v
                         /\ Permitted(t, t.now, x.now)
          /\ ~t.enforce => x # None
      BY <2>1, <3>1, <3>2, NodeStaged
    <3> QED
      BY <1>2, <3>3 DEF x, v
  <2> QED
    BY <2>2, <2>3
<1> QED
  BY <1>1, <1>2

\* Read-only and the flags of the graph.
LEMMA SameGood ==
    ASSUME NEW d \in Docs, Good(d), NEW e \in Docs,
           \A n \in Nodes : /\ e.nodes[n] = None <=> d.nodes[n] = None
                            /\ d.nodes[n] # None =>
                                  /\ e.nodes[n].pins = d.nodes[n].pins
                                  /\ e.nodes[n].schema = d.nodes[n].schema,
           \A p \in Pins : /\ e.pins[p] = None <=> d.pins[p] = None
                           /\ d.pins[p] # None => Alike(d.pins[p], e.pins[p]),
           \A l \in Links : /\ e.links[l] = None <=> d.links[l] = None
                            /\ d.links[l] # None => /\ e.links[l].output = d.links[l].output
                                                    /\ e.links[l].input = d.links[l].input,
           e.node_states = d.node_states, e.link_states = d.link_states, e.groups = d.groups
    PROVE  Good(e)
  BY GoodIs, SameGraph, SameShown

LEMMA GraphFlagUndoes ==
    ASSUME NEW d \in Docs, Good(d), NEW flag \in BOOLEAN
    PROVE  Undoes(d, [kind |-> "graph", flag |-> flag])
<1> DEFINE c == [kind |-> "graph", flag |-> flag]
           b == Begin(d, TRUE)
           t == Executed(d, c)
           e == Led(d, c)
           f == Begin(e, FALSE)
           u == TakenBack(d, c)
           g == [d EXCEPT !.read_only = flag]
           h == [e EXCEPT !.read_only = d.read_only]
<1>1. t = Stage(b, [b.now EXCEPT !.read_only = flag]) /\ u = Stage(f, [f.now EXCEPT !.read_only = d.read_only])
      /\ c.kind \in Unguarded
  BY DEF Executed, TakenBack, Apply, Revert, Capture, SetGraphReadOnly, Unguarded
<1>2. b \in Transactions /\ b.now = d
  BY ExecutedIs
<1> HIDE DEF c, b
<1>3. g \in Docs /\ OnlyReadOnly(d, g)
  BY PutReadOnly DEF OnlyReadOnly
<1>4. e = g
  <2> HIDE DEF t
  <2> QED
    BY <1>1, <1>2, <1>3, StageIs DEF Led, t
<1> HIDE DEF e, g
<1>5. Good(e)
  <2>1. \A p \in Pins : d.pins[p] # None => Alike(d.pins[p], d.pins[p])
    BY DEF Alike
  <2> QED
    BY <1>3, <1>4, <2>1, SameGood DEF OnlyReadOnly
<1>6. f \in Transactions /\ f.now = e
  BY <1>3, <1>4, RevertedIs
<1> HIDE DEF f, u
<1>7. h \in Docs /\ OnlyReadOnly(e, h) /\ h.read_only = d.read_only
  <2>1. d.read_only \in BOOLEAN
    BY PartsAre
  <2> QED
    BY <1>3, <1>4, <2>1, PutReadOnly DEF OnlyReadOnly
<1> HIDE DEF h
<1>8. u \in Transactions /\ u.now = h
  BY <1>1, <1>6, <1>7, StageIs DEF Follows, h
<1>9. h = d
  BY <1>3, <1>4, <1>7, SameDocument DEF OnlyReadOnly
<1>10. Undoes(d, c)
  BY <1>1, <1>3, <1>4, <1>5, <1>8, <1>9, UndoesFrom DEF e, u
<1> QED
  BY <1>10 DEF c

LEMMA RenameUndoes ==
    ASSUME NEW d \in Docs, Good(d), NEW n \in Nodes, d.nodes[n] # None, NEW name \in Looks
    PROVE  Undoes(d, [kind |-> "rename", node |-> n, name |-> name])
<1> DEFINE c == [kind |-> "rename", node |-> n, name |-> name]
           b == Begin(d, TRUE)
           t == Executed(d, c)
           e == Led(d, c)
           f == Begin(e, FALSE)
           u == TakenBack(d, c)
<1>1. t = SetNodeDisplayName(b, n, name) /\ u = SetNodeDisplayName(f, n, d.nodes[n].name)
  BY DEF Executed, TakenBack, Apply, Revert, Capture
<1>2. d.nodes[n] \in NodeValues /\ d.nodes[n].name \in Looks
  BY PartsAre DEF NodeValues
<1>3. b \in Transactions /\ b.now = d
  BY ExecutedIs
<1> HIDE DEF c
<1> SUFFICES ASSUME t # None
             PROVE  /\ e \in Docs /\ Good(e) /\ Permitted(b, d, e)
                    /\ u \in Transactions /\ u.now = d
  <2>1. Undoes(d, c)
    BY PermittedUndoes DEF Changes
  <2> QED
    BY <2>1 DEF c
<1> HIDE DEF b
<1>4. /\ OnlyNode(d, e, n) /\ e.nodes[n] = [d.nodes[n] EXCEPT !.name = name]
      /\ Permitted(b, d, e)
  <2> HIDE DEF t
  <2> QED
    BY <1>1, <1>3, SetNodeDisplayNameIs DEF Led, t
<1>5. /\ e \in Docs /\ e.nodes[n] # None
      /\ e.nodes[n].pins = d.nodes[n].pins /\ e.nodes[n].schema = d.nodes[n].schema
      /\ [e.nodes[n] EXCEPT !.name = d.nodes[n].name] = d.nodes[n]
  BY <1>2, <1>4, NotNone DEF OnlyNode, NodeValues
<1> HIDE DEF e, t
<1>6. Good(e)
  <2>1. \A p \in Pins : d.pins[p] # None => Alike(d.pins[p], d.pins[p])
    BY DEF Alike
  <2>2. \A m \in Nodes : /\ e.nodes[m] = None <=> d.nodes[m] = None
                         /\ d.nodes[m] # None => /\ e.nodes[m].pins = d.nodes[m].pins
                                                 /\ e.nodes[m].schema = d.nodes[m].schema
    BY <1>4, <1>5 DEF OnlyNode
  <2> QED
    BY <1>4, <1>5, <2>1, <2>2, SameGood DEF OnlyNode, OnlyStructure
<1>7. f \in Transactions /\ f.now = e /\ ~f.enforce
  BY <1>5, RevertedIs
<1> HIDE DEF f, u
<1>8. u # None /\ Follows(f, u) /\ OnlyNode(e, u.now, n) /\ u.now.nodes[n] = d.nodes[n]
  BY <1>1, <1>2, <1>5, <1>7, SetNodeDisplayNameIs
<1>9. OnlyNode(d, u.now, n)
  BY <1>4, <1>8 DEF OnlyNode, OnlyStructure
<1>10. u.now = d
  BY <1>8, <1>9, OnlyOneIs
<1> QED
  BY <1>4, <1>5, <1>6, <1>8, <1>10 DEF Follows

LEMMA SetNodeReadOnlyIs ==
    ASSUME NEW t \in Transactions, NEW i \in Nodes, NEW flag \in BOOLEAN
    PROVE  LET x == SetNodeReadOnly(t, i, flag) IN
           /\ x # None =>
                 /\ Follows(t, x) /\ OnlyNode(t.now, x.now, i) /\ t.now.nodes[i] # None
                 /\ x.now.nodes[i] = [t.now.nodes[i] EXCEPT !.read_only = flag]
           /\ ~t.enforce /\ t.now.nodes[i] # None => x # None
<1> DEFINE d == t.now
           x == SetNodeReadOnly(t, i, flag)
           v == [d.nodes[i] EXCEPT !.read_only = flag]
           e == [d EXCEPT !.nodes[i] = v]
<1>0. d \in Docs /\ t # None /\ Follows(t, t) /\ OnlyNode(d, d, i)
  BY NowIs, OnlyOneIs
<1>1. CASE d.nodes[i] = None
  <2>1. x = None
    BY <1>1 DEF SetNodeReadOnly, SetReadOnly, WriteReadOnly, When, Stage
  <2> QED
    BY <1>1, <2>1
<1>2. CASE d.nodes[i] # None
  <2>1. d.nodes[i] \in NodeValues /\ v \in NodeValues
    <3>1. d.nodes[i] \in NodeValues
      BY <1>0, <1>2, PartsAre
    <3> QED
      BY <3>1 DEF NodeValues
  <2>2. CASE d.nodes[i].read_only = flag
    <3>1. x = t
      BY <1>2, <2>2 DEF SetNodeReadOnly, SetReadOnly
    <3>2. v = d.nodes[i]
      BY <2>1, <2>2 DEF NodeValues
    <3> QED
      BY <1>0, <1>2, <3>1, <3>2
  <2>3. CASE d.nodes[i].read_only # flag
    <3>1. x \in {None, Stage(t, e)}
      BY <1>2, <2>3 DEF SetNodeReadOnly, SetReadOnly, WriteReadOnly, When
    <3>2. ~t.enforce => x = Stage(t, e)
      <4>1. ~t.enforce => ~GraphReadOnly(t)
        BY FreeIs
      <4> QED
        BY <1>2, <2>3, <4>1 DEF SetNodeReadOnly, SetReadOnly, WriteReadOnly, When
    <3> HIDE DEF v
    <3>3. OnlyNode(d, e, i) /\ e \in Docs /\ e.nodes[i] = v
      BY <1>0, <2>1, PutNode DEF OnlyNode
    <3> HIDE DEF x, e
    <3>4. Stage(t, e) # None /\ Follows(t, Stage(t, e)) /\ Stage(t, e).now = e
      BY <3>3, StageIs
    <3>5. /\ x # None => Follows(t, x) /\ OnlyNode(t.now, x.now, i) /\ x.now.nodes[i] = v
          /\ ~t.enforce => x # None
      BY <3>1, <3>2, <3>3, <3>4
    <3> QED
      BY <1>2, <3>5 DEF x, v
  <2> QED
    BY <2>2, <2>3
<1> QED
  BY <1>1, <1>2

LEMMA SetNodeReadOnlyUndoes ==
    ASSUME NEW d \in Docs, Good(d), NEW i \in Nodes, d.nodes[i] # None, NEW flag \in BOOLEAN
    PROVE  Undoes(d, [kind |-> "read_only", part |-> "nodes", id |-> i, flag |-> flag])
<1> DEFINE c == [kind |-> "read_only", part |-> "nodes", id |-> i, flag |-> flag]
           b == Begin(d, TRUE)
           t == Executed(d, c)
           e == Led(d, c)
           f == Begin(e, FALSE)
           u == TakenBack(d, c)
<1>1. /\ t = SetNodeReadOnly(b, i, flag) /\ u = SetNodeReadOnly(f, i, d.nodes[i].read_only)
      /\ c.kind \in Unguarded
  BY DEF Executed, TakenBack, Apply, Revert, Capture, SetPartReadOnly, Unguarded
<1>2. d.nodes[i] \in NodeValues /\ d.nodes[i].read_only \in BOOLEAN
  BY PartsAre DEF NodeValues
<1>3. b \in Transactions /\ b.now = d
  BY ExecutedIs
<1> HIDE DEF c, b
<1> SUFFICES ASSUME t # None
             PROVE  e \in Docs /\ Good(e) /\ u \in Transactions /\ u.now = d
  <2>1. Undoes(d, c)
    BY <1>1, UndoesFrom DEF Changes
  <2> QED
    BY <2>1 DEF c
<1>4. OnlyNode(d, e, i) /\ e.nodes[i] = [d.nodes[i] EXCEPT !.read_only = flag]
  <2> HIDE DEF t
  <2> QED
    BY <1>1, <1>3, SetNodeReadOnlyIs DEF Led, t
<1>5. /\ e \in Docs /\ e.nodes[i] # None
      /\ e.nodes[i].pins = d.nodes[i].pins /\ e.nodes[i].schema = d.nodes[i].schema
      /\ [e.nodes[i] EXCEPT !.read_only = d.nodes[i].read_only] = d.nodes[i]
  BY <1>2, <1>4, NotNone DEF OnlyNode, NodeValues, Alike
<1> HIDE DEF e, t
<1>6. Good(e)
  <2>1. \A p \in Pins : d.pins[p] # None => Alike(d.pins[p], d.pins[p])
    BY DEF Alike
  <2>2. \A m \in Nodes : /\ e.nodes[m] = None <=> d.nodes[m] = None
                         /\ d.nodes[m] # None => /\ e.nodes[m].pins = d.nodes[m].pins
                                                 /\ e.nodes[m].schema = d.nodes[m].schema
    BY <1>4, <1>5 DEF OnlyNode
  <2> QED
    BY <1>4, <1>5, <2>1, <2>2, SameGood DEF OnlyNode, OnlyStructure
<1>7. f \in Transactions /\ f.now = e /\ ~f.enforce
  BY <1>5, RevertedIs
<1> HIDE DEF f, u
<1>8. u # None /\ Follows(f, u) /\ OnlyNode(e, u.now, i) /\ u.now.nodes[i] = d.nodes[i]
  BY <1>1, <1>2, <1>5, <1>7, SetNodeReadOnlyIs
<1>9. OnlyNode(d, u.now, i)
  BY <1>4, <1>8 DEF OnlyNode, OnlyStructure
<1>10. u.now = d
  BY <1>8, <1>9, OnlyOneIs
<1> QED
  BY <1>4, <1>5, <1>6, <1>8, <1>10 DEF Follows

LEMMA SetPinReadOnlyIs ==
    ASSUME NEW t \in Transactions, NEW i \in Pins, NEW flag \in BOOLEAN
    PROVE  LET x == SetPinReadOnly(t, i, flag) IN
           /\ x # None =>
                 /\ Follows(t, x) /\ OnlyPin(t.now, x.now, i) /\ t.now.pins[i] # None
                 /\ x.now.pins[i] = [t.now.pins[i] EXCEPT !.read_only = flag]
           /\ ~t.enforce /\ t.now.pins[i] # None => x # None
<1> DEFINE d == t.now
           x == SetPinReadOnly(t, i, flag)
           v == [d.pins[i] EXCEPT !.read_only = flag]
           e == [d EXCEPT !.pins[i] = v]
<1>0. d \in Docs /\ t # None /\ Follows(t, t) /\ OnlyPin(d, d, i)
  BY NowIs, OnlyOneIs
<1>1. CASE d.pins[i] = None
  <2>1. x = None
    BY <1>1 DEF SetPinReadOnly, SetReadOnly, WriteReadOnly, When, Stage
  <2> QED
    BY <1>1, <2>1
<1>2. CASE d.pins[i] # None
  <2>1. d.pins[i] \in PinValues /\ v \in PinValues
    <3>1. d.pins[i] \in PinValues
      BY <1>0, <1>2, PartsAre
    <3> QED
      BY <3>1 DEF PinValues
  <2>2. CASE d.pins[i].read_only = flag
    <3>1. x = t
      BY <1>2, <2>2 DEF SetPinReadOnly, SetReadOnly
    <3>2. v = d.pins[i]
      BY <2>1, <2>2 DEF PinValues
    <3> QED
      BY <1>0, <1>2, <3>1, <3>2
  <2>3. CASE d.pins[i].read_only # flag
    <3>1. x \in {None, Stage(t, e)}
      BY <1>2, <2>3 DEF SetPinReadOnly, SetReadOnly, WriteReadOnly, When
    <3>2. ~t.enforce => x = Stage(t, e)
      <4>1. ~t.enforce => ~GraphReadOnly(t) /\ ~NodeReadOnly(t, i[1])
        BY FreeIs, PartsAre DEF Pins
      <4> QED
        BY <1>2, <2>3, <4>1 DEF SetPinReadOnly, SetReadOnly, WriteReadOnly, When
    <3> HIDE DEF v
    <3>3. OnlyPin(d, e, i) /\ e \in Docs /\ e.pins[i] = v
      BY <1>0, <2>1, PutPin DEF OnlyPin
    <3> HIDE DEF x, e
    <3>4. Stage(t, e) # None /\ Follows(t, Stage(t, e)) /\ Stage(t, e).now = e
      BY <3>3, StageIs
    <3>5. /\ x # None => Follows(t, x) /\ OnlyPin(t.now, x.now, i) /\ x.now.pins[i] = v
          /\ ~t.enforce => x # None
      BY <3>1, <3>2, <3>3, <3>4
    <3> QED
      BY <1>2, <3>5 DEF x, v
  <2> QED
    BY <2>2, <2>3
<1> QED
  BY <1>1, <1>2

LEMMA SetPinReadOnlyUndoes ==
    ASSUME NEW d \in Docs, Good(d), NEW i \in Pins, d.pins[i] # None, NEW flag \in BOOLEAN
    PROVE  Undoes(d, [kind |-> "read_only", part |-> "pins", id |-> i, flag |-> flag])
<1> DEFINE c == [kind |-> "read_only", part |-> "pins", id |-> i, flag |-> flag]
           b == Begin(d, TRUE)
           t == Executed(d, c)
           e == Led(d, c)
           f == Begin(e, FALSE)
           u == TakenBack(d, c)
<1>1. /\ t = SetPinReadOnly(b, i, flag) /\ u = SetPinReadOnly(f, i, d.pins[i].read_only)
      /\ c.kind \in Unguarded
  BY DEF Executed, TakenBack, Apply, Revert, Capture, SetPartReadOnly, Unguarded
<1>2. d.pins[i] \in PinValues /\ d.pins[i].read_only \in BOOLEAN
  BY PartsAre DEF PinValues
<1>3. b \in Transactions /\ b.now = d
  BY ExecutedIs
<1> HIDE DEF c, b
<1> SUFFICES ASSUME t # None
             PROVE  e \in Docs /\ Good(e) /\ u \in Transactions /\ u.now = d
  <2>1. Undoes(d, c)
    BY <1>1, UndoesFrom DEF Changes
  <2> QED
    BY <2>1 DEF c
<1>4. OnlyPin(d, e, i) /\ e.pins[i] = [d.pins[i] EXCEPT !.read_only = flag]
  <2> HIDE DEF t
  <2> QED
    BY <1>1, <1>3, SetPinReadOnlyIs DEF Led, t
<1>5. /\ e \in Docs /\ e.pins[i] # None
      /\ Alike(d.pins[i], e.pins[i])
      /\ [e.pins[i] EXCEPT !.read_only = d.pins[i].read_only] = d.pins[i]
  BY <1>2, <1>4, NotNone DEF OnlyPin, PinValues, Alike
<1> HIDE DEF e, t
<1>6. Good(e)
  <2>1. \A p \in Pins : d.pins[p] # None => Alike(d.pins[p], d.pins[p])
    BY DEF Alike
  <2>2. \A p \in Pins : /\ e.pins[p] = None <=> d.pins[p] = None
                        /\ d.pins[p] # None => Alike(d.pins[p], e.pins[p])
    BY <1>4, <1>5, <2>1 DEF OnlyPin
  <2> QED
    BY <1>4, <1>5, <2>1, <2>2, SameGood DEF OnlyPin, OnlyStructure
<1>7. f \in Transactions /\ f.now = e /\ ~f.enforce
  BY <1>5, RevertedIs
<1> HIDE DEF f, u
<1>8. u # None /\ Follows(f, u) /\ OnlyPin(e, u.now, i) /\ u.now.pins[i] = d.pins[i]
  BY <1>1, <1>2, <1>5, <1>7, SetPinReadOnlyIs
<1>9. OnlyPin(d, u.now, i)
  BY <1>4, <1>8 DEF OnlyPin, OnlyStructure
<1>10. u.now = d
  BY <1>8, <1>9, OnlyOneIs
<1> QED
  BY <1>4, <1>5, <1>6, <1>8, <1>10 DEF Follows

LEMMA SetLinkReadOnlyIs ==
    ASSUME NEW t \in Transactions, NEW i \in Links, NEW flag \in BOOLEAN
    PROVE  LET x == SetLinkReadOnly(t, i, flag) IN
           /\ x # None =>
                 /\ Follows(t, x) /\ OnlyLink(t.now, x.now, i) /\ t.now.links[i] # None
                 /\ x.now.links[i] = [t.now.links[i] EXCEPT !.read_only = flag]
           /\ ~t.enforce /\ t.now.links[i] # None => x # None
<1> DEFINE d == t.now
           x == SetLinkReadOnly(t, i, flag)
           v == [d.links[i] EXCEPT !.read_only = flag]
           e == [d EXCEPT !.links[i] = v]
<1>0. d \in Docs /\ t # None /\ Follows(t, t) /\ OnlyLink(d, d, i)
  BY NowIs, OnlyOneIs
<1>1. CASE d.links[i] = None
  <2>1. x = None
    BY <1>1 DEF SetLinkReadOnly, SetReadOnly, WriteReadOnly, When, Stage
  <2> QED
    BY <1>1, <2>1
<1>2. CASE d.links[i] # None
  <2>1. d.links[i] \in LinkValues /\ v \in LinkValues
    <3>1. d.links[i] \in LinkValues
      BY <1>0, <1>2, PartsAre
    <3> QED
      BY <3>1 DEF LinkValues
  <2>2. CASE d.links[i].read_only = flag
    <3>1. x = t
      BY <1>2, <2>2 DEF SetLinkReadOnly, SetReadOnly
    <3>2. v = d.links[i]
      BY <2>1, <2>2 DEF LinkValues
    <3> QED
      BY <1>0, <1>2, <3>1, <3>2
  <2>3. CASE d.links[i].read_only # flag
    <3>1. x \in {None, Stage(t, e)}
      BY <1>2, <2>3 DEF SetLinkReadOnly, SetReadOnly, WriteReadOnly, When
    <3>2. ~t.enforce => x = Stage(t, e)
      <4>1. ~t.enforce => ~GraphReadOnly(t)
        BY FreeIs
      <4> QED
        BY <1>2, <2>3, <4>1 DEF SetLinkReadOnly, SetReadOnly, WriteReadOnly, When
    <3> HIDE DEF v
    <3>3. OnlyLink(d, e, i) /\ e \in Docs /\ e.links[i] = v
      BY <1>0, <2>1, PutLink DEF OnlyLink
    <3> HIDE DEF x, e
    <3>4. Stage(t, e) # None /\ Follows(t, Stage(t, e)) /\ Stage(t, e).now = e
      BY <3>3, StageIs
    <3>5. /\ x # None => Follows(t, x) /\ OnlyLink(t.now, x.now, i) /\ x.now.links[i] = v
          /\ ~t.enforce => x # None
      BY <3>1, <3>2, <3>3, <3>4
    <3> QED
      BY <1>2, <3>5 DEF x, v
  <2> QED
    BY <2>2, <2>3
<1> QED
  BY <1>1, <1>2

LEMMA SetLinkReadOnlyUndoes ==
    ASSUME NEW d \in Docs, Good(d), NEW i \in Links, d.links[i] # None, NEW flag \in BOOLEAN
    PROVE  Undoes(d, [kind |-> "read_only", part |-> "links", id |-> i, flag |-> flag])
<1> DEFINE c == [kind |-> "read_only", part |-> "links", id |-> i, flag |-> flag]
           b == Begin(d, TRUE)
           t == Executed(d, c)
           e == Led(d, c)
           f == Begin(e, FALSE)
           u == TakenBack(d, c)
<1>1. /\ t = SetLinkReadOnly(b, i, flag) /\ u = SetLinkReadOnly(f, i, d.links[i].read_only)
      /\ c.kind \in Unguarded
  BY DEF Executed, TakenBack, Apply, Revert, Capture, SetPartReadOnly, Unguarded
<1>2. d.links[i] \in LinkValues /\ d.links[i].read_only \in BOOLEAN
  BY PartsAre DEF LinkValues
<1>3. b \in Transactions /\ b.now = d
  BY ExecutedIs
<1> HIDE DEF c, b
<1> SUFFICES ASSUME t # None
             PROVE  e \in Docs /\ Good(e) /\ u \in Transactions /\ u.now = d
  <2>1. Undoes(d, c)
    BY <1>1, UndoesFrom DEF Changes
  <2> QED
    BY <2>1 DEF c
<1>4. OnlyLink(d, e, i) /\ e.links[i] = [d.links[i] EXCEPT !.read_only = flag]
  <2> HIDE DEF t
  <2> QED
    BY <1>1, <1>3, SetLinkReadOnlyIs DEF Led, t
<1>5. /\ e \in Docs /\ e.links[i] # None
      /\ e.links[i].output = d.links[i].output /\ e.links[i].input = d.links[i].input
      /\ [e.links[i] EXCEPT !.read_only = d.links[i].read_only] = d.links[i]
  BY <1>2, <1>4, NotNone DEF OnlyLink, LinkValues, Alike
<1> HIDE DEF e, t
<1>6. Good(e)
  <2>1. \A p \in Pins : d.pins[p] # None => Alike(d.pins[p], d.pins[p])
    BY DEF Alike
  <2>2. \A l \in Links : /\ e.links[l] = None <=> d.links[l] = None
                         /\ d.links[l] # None => /\ e.links[l].output = d.links[l].output
                                                 /\ e.links[l].input = d.links[l].input
    BY <1>4, <1>5 DEF OnlyLink
  <2> QED
    BY <1>4, <1>5, <2>1, <2>2, SameGood DEF OnlyLink, OnlyStructure
<1>7. f \in Transactions /\ f.now = e /\ ~f.enforce
  BY <1>5, RevertedIs
<1> HIDE DEF f, u
<1>8. u # None /\ Follows(f, u) /\ OnlyLink(e, u.now, i) /\ u.now.links[i] = d.links[i]
  BY <1>1, <1>2, <1>5, <1>7, SetLinkReadOnlyIs
<1>9. OnlyLink(d, u.now, i)
  BY <1>4, <1>8 DEF OnlyLink, OnlyStructure
<1>10. u.now = d
  BY <1>8, <1>9, OnlyOneIs
<1> QED
  BY <1>4, <1>5, <1>6, <1>8, <1>10 DEF Follows

-----------------------------------------------------------------------------
(* Links                                                                   *)

NodesGood(d) ==
    /\ \A n \in Nodes : d.nodes[n] # None => Held(d, n) /\ Fitted(d, n)
    /\ \A p \in Pins : d.pins[p] # None => Rooted(d, p)
LinksGood(d) ==
    /\ \A l \in Links : d.links[l] # None => Joins(d, d.links[l])
    /\ \A l, m \in Links :
          l # m /\ d.links[l] # None /\ d.links[m] # None => Distinct(d, l, m)

LEMMA GoodParts ==
    ASSUME NEW d
    PROVE  GoodGraph(d) <=> NodesGood(d) /\ LinksGood(d)
  BY DEF GoodGraph, NodesGood, LinksGood

LEMMA LinksErased ==
    ASSUME NEW d \in Docs, NEW e \in Docs, LinksGood(d),
           \A l \in Links : e.links[l] \in {None, d.links[l]},
           \A l \in Links : e.links[l] # None =>
              \A p \in Ends(e, l) : Alike(d.pins[p], e.pins[p])
    PROVE  LinksGood(e)
<1>1. ASSUME NEW l \in Links, e.links[l] # None PROVE Joins(e, e.links[l])
  BY <1>1 DEF LinksGood, Joins, Alike, Ends
<1>2. ASSUME NEW l \in Links, NEW m \in Links, l # m, e.links[l] # None, e.links[m] # None
      PROVE  Distinct(e, l, m)
  <2>1. Distinct(d, l, m) /\ e.links[l] = d.links[l] /\ e.links[m] = d.links[m]
    BY <1>2 DEF LinksGood
  <2>2. \A p \in Ends(e, l) : e.pins[p].single = d.pins[p].single
    BY <1>2 DEF Alike
  <2>3. Ends(e, l) = Ends(d, l) /\ Ends(e, m) = Ends(d, m)
    BY <2>1 DEF Ends
  <2> QED
    BY <2>1, <2>2, <2>3 DEF Distinct
<1> QED
  BY <1>1, <1>2 DEF LinksGood

\* What InsertLink asks of the ends of a link.
Connects(d, link) ==
    /\ d.pins[link.output] # None /\ d.pins[link.input] # None
    /\ d.pins[link.output].direction = "out" /\ d.pins[link.input].direction = "in"
    /\ FindLinkBetween(d, link.output, link.input) = {}
    /\ d.pins[link.output].single => IncidentLinks(d, link.output) = {}
    /\ d.pins[link.input].single => IncidentLinks(d, link.input) = {}
Compatible(d, link) == Check(d.pins[link.output].type, d.pins[link.input].type) = "allowed"

LEMMA LinkInserted ==
    ASSUME NEW d \in Docs, NEW e \in Docs, LinksGood(d), NEW l \in Links, NEW link \in LinkValues,
           OnlyLink(d, e, l), e.links[l] = link, d.links[l] = None,
           Connects(d, link), Compatible(d, link)
    PROVE  LinksGood(e)
<1>0. link # None /\ e.pins = d.pins /\ \A m \in Links \ {l} : e.links[m] = d.links[m]
  BY NotNone DEF OnlyLink
<1>1. ASSUME NEW m \in Links, e.links[m] # None PROVE Joins(e, e.links[m])
  <2>1. CASE m = l
    BY <1>0, <2>1 DEF Joins, Connects, Compatible
  <2>2. CASE m # l
    BY <1>0, <1>1, <2>2 DEF LinksGood, Joins
  <2> QED
    BY <2>1, <2>2
<1>2. ASSUME NEW m \in Links, m # l, e.links[m] # None PROVE Distinct(e, l, m) /\ Distinct(e, m, l)
  <2>1. e.links[m] = d.links[m]
    BY <1>0, <1>2
  <2>2. ~(link.output = e.links[m].output /\ link.input = e.links[m].input)
    BY <1>2, <2>1 DEF Connects, FindLinkBetween
  <2>3. ASSUME NEW p \in {link.output, link.input} \cap {e.links[m].output, e.links[m].input}
        PROVE  ~d.pins[p].single
    <3>1. m \in IncidentLinks(d, p)
      BY <1>2, <2>1 DEF IncidentLinks
    <3> QED
      BY <3>1 DEF Connects
  <2> QED
    BY <1>0, <2>2, <2>3 DEF Distinct, Ends
<1>3. ASSUME NEW k \in Links, NEW m \in Links, k # m, k # l, m # l, e.links[k] # None, e.links[m] # None
      PROVE  Distinct(e, k, m)
  BY <1>0, <1>3 DEF LinksGood, Distinct, Ends
<1> QED
  BY <1>1, <1>2, <1>3 DEF LinksGood

LEMMA LinkStaged ==
    ASSUME NEW t \in Transactions, NEW l \in Links, NEW v \in LinkValues \cup {None}
    PROVE  LET x == Stage(t, [t.now EXCEPT !.links[l] = v]) IN
           /\ x # None /\ Follows(t, x) /\ OnlyLink(t.now, x.now, l) /\ x.now.links[l] = v
           /\ /\ OpenGraph(t)
              /\ t.now.links[l] # None => FreeLink(t, l) /\ \A p \in Ends(t.now, l) : FreeEnd(t, p)
              /\ v # None => FreeEnd(t, v.output) /\ FreeEnd(t, v.input)
              => Permitted(t, t.now, x.now)
<1> DEFINE d == t.now
           e == [d EXCEPT !.links[l] = v]
           x == Stage(t, e)
<1>1. d \in Docs
  BY NowIs
<1>2. OnlyLink(d, e, l) /\ e \in Docs /\ e.links[l] = v
  BY <1>1, PutLink DEF OnlyLink
<1> HIDE DEF e
<1>3. x # None /\ Follows(t, x) /\ x.now = e
  BY <1>2, StageIs
<1>4. /\ OpenGraph(t)
      /\ d.links[l] # None => FreeLink(t, l) /\ \A p \in Ends(d, l) : FreeEnd(t, p)
      /\ v # None => FreeEnd(t, v.output) /\ FreeEnd(t, v.input)
      => Permitted(t, d, e)
  BY <1>2 DEF Permitted, OnlyLink, OnlyStructure, Ends
<1> QED
  BY <1>2, <1>3, <1>4 DEF e

LEMMA ValidationIs ==
    ASSUME NEW t \in Transactions, NEW output, NEW input, NEW replacing,
           ValidateConnection(t, output, input, replacing) # "rejected"
    PROVE  LET d == t.now IN
           /\ ValidateConnection(t, output, input, replacing) =
                 Check(d.pins[output].type, d.pins[input].type)
           /\ OpenGraph(t) /\ FreeEnd(t, output) /\ FreeEnd(t, input)
           /\ d.pins[output] # None /\ d.pins[input] # None
           /\ d.pins[output].direction = "out" /\ d.pins[input].direction = "in"
           /\ FindLinkBetween(d, output, input) \subseteq {replacing}
           /\ d.pins[output].single => IncidentLinks(d, output) \subseteq {replacing}
           /\ d.pins[input].single => IncidentLinks(d, input) \subseteq {replacing}
           /\ replacing # None =>
                 /\ d.links[replacing] # None
                 /\ FreeLink(t, replacing) /\ FreeLinkState(t, replacing)
                 /\ FreeEnd(t, d.links[replacing].output) /\ FreeEnd(t, d.links[replacing].input)
                 /\ d.links[replacing].output = output \/ d.links[replacing].input = input
<1>1. /\ ~GraphReadOnly(t) => OpenGraph(t)
      /\ \A p : ~EndpointReadOnly(t, p) => FreeEnd(t, p)
      /\ \A l : ~LinkReadOnly(t, l) => FreeLink(t, l)
      /\ \A l : ~LinkLocked(t, l) => FreeLinkState(t, l)
  BY ProtectionIs
<1>2. LET d == t.now
          others(p) == IncidentLinks(d, p) \ {replacing}
      IN /\ ~GraphReadOnly(t)
         /\ d.pins[output] # None /\ d.pins[input] # None
         /\ d.pins[output].direction = "out" /\ d.pins[input].direction = "in"
         /\ ~EndpointReadOnly(t, output) /\ ~EndpointReadOnly(t, input)
         /\ replacing # None =>
               /\ CheckLinkRemoval(t, replacing)
               /\ ~LinkLocked(t, replacing)
               /\ \/ d.links[replacing].output = output
                  \/ d.links[replacing].input = input
         /\ FindLinkBetween(d, output, input) \subseteq {replacing}
         /\ d.pins[output].single => others(output) = {}
         /\ d.pins[input].single => others(input) = {}
         /\ ValidateConnection(t, output, input, replacing) =
               Check(d.pins[output].type, d.pins[input].type)
  BY DEF ValidateConnection
<1> QED
  BY <1>1, <1>2 DEF CheckLinkRemoval

LEMMA InsertLinkIs ==
    ASSUME NEW d \in Docs, NEW l \in Links, NEW link \in LinkValues
    PROVE  InsertLink(d, l, link) =
              IF d.links[l] = None /\ Connects(d, link) THEN [d EXCEPT !.links[l] = link] ELSE None
<1>1. d.pins[link.output].direction = "out" /\ d.pins[link.input].direction = "in" =>
         link.output # link.input
  OBVIOUS
<1> QED
  BY <1>1 DEF InsertLink, When, Connects

LEMMA AddLinkIs ==
    ASSUME NEW t \in Transactions, NEW l \in Links, NEW link \in LinkValues
    PROVE  LET x == AddLink(t, l, link) IN
           /\ x # None =>
                 /\ Follows(t, x) /\ OnlyLink(t.now, x.now, l)
                 /\ t.now.links[l] = None /\ x.now.links[l] = link
                 /\ Connects(t.now, link)
                 /\ t.enforce => Compatible(t.now, link)
                 /\ Permitted(t, t.now, x.now)
           /\ ~t.enforce /\ t.now.links[l] = None /\ Connects(t.now, link) => x # None
<1> DEFINE d == t.now
           e == [d EXCEPT !.links[l] = link]
           x == AddLink(t, l, link)
           Authorized == AuthorizeConnection(t, link.output, link.input, None)
<1>0. d \in Docs /\ t.enforce \in BOOLEAN
  BY NowIs
<1>1. x = IF Authorized /\ d.links[l] = None /\ Connects(d, link) THEN Stage(t, e) ELSE None
  <2>1. InsertLink(d, l, link) = IF d.links[l] = None /\ Connects(d, link) THEN e ELSE None
    BY <1>0, InsertLinkIs
  <2> QED
    BY <2>1 DEF AddLink, When, Stage
<1>2. ~t.enforce => Authorized
  BY DEF AuthorizeConnection
<1>3. t.enforce /\ Authorized =>
         /\ OpenGraph(t) /\ FreeEnd(t, link.output) /\ FreeEnd(t, link.input)
         /\ Compatible(d, link)
  BY ValidationIs DEF AuthorizeConnection, Compatible
<1>4. ~t.enforce => OpenGraph(t) /\ FreeEnd(t, link.output) /\ FreeEnd(t, link.input)
  BY DEF OpenGraph, FreeEnd, FreePin, FreeNode
<1> HIDE DEF Authorized, x, e
<1>5. /\ Stage(t, e) # None /\ Follows(t, Stage(t, e)) /\ OnlyLink(d, Stage(t, e).now, l)
      /\ Stage(t, e).now.links[l] = link
      /\ /\ OpenGraph(t) /\ FreeEnd(t, link.output) /\ FreeEnd(t, link.input)
         /\ d.links[l] = None
         => Permitted(t, d, Stage(t, e).now)
  BY LinkStaged DEF e
<1>6. /\ x # None =>
            /\ Follows(t, x) /\ OnlyLink(d, x.now, l)
            /\ d.links[l] = None /\ x.now.links[l] = link
            /\ Connects(d, link)
            /\ t.enforce => Compatible(d, link)
            /\ Permitted(t, d, x.now)
      /\ ~t.enforce /\ d.links[l] = None /\ Connects(d, link) => x # None
  BY <1>0, <1>1, <1>2, <1>3, <1>4, <1>5
<1> QED
  BY <1>6 DEF x

LEMMA AddPlannedLinkIs ==
    ASSUME NEW t \in Transactions, NEW l \in Links, NEW link \in LinkValues
    PROVE  LET x == AddPlannedLink(t, l, link) IN
           x # None =>
              /\ Follows(t, x) /\ OnlyLink(t.now, x.now, l)
              /\ t.now.links[l] = None /\ x.now.links[l] = link
              /\ Connects(t.now, link) /\ Compatible(t.now, link)
              /\ OpenGraph(t) /\ FreeEnd(t, link.output) /\ FreeEnd(t, link.input) =>
                    Permitted(t, t.now, x.now)
<1> DEFINE d == t.now
           e == [d EXCEPT !.links[l] = link]
           x == AddPlannedLink(t, l, link)
<1>0. d \in Docs
  BY NowIs
<1>1. x # None => x = Stage(t, e) /\ d.links[l] = None /\ Connects(d, link) /\ Compatible(d, link)
  <2>1. InsertLink(d, l, link) = IF d.links[l] = None /\ Connects(d, link) THEN e ELSE None
    BY <1>0, InsertLinkIs
  <2> QED
    BY <2>1 DEF AddPlannedLink, When, Stage, Compatible
<1> HIDE DEF x, e
<1>2. /\ Follows(t, Stage(t, e)) /\ OnlyLink(d, Stage(t, e).now, l)
      /\ Stage(t, e).now.links[l] = link
      /\ /\ OpenGraph(t) /\ FreeEnd(t, link.output) /\ FreeEnd(t, link.input)
         /\ d.links[l] = None
         => Permitted(t, d, Stage(t, e).now)
  BY LinkStaged DEF e
<1>3. x # None =>
         /\ Follows(t, x) /\ OnlyLink(d, x.now, l)
         /\ d.links[l] = None /\ x.now.links[l] = link
         /\ Connects(d, link) /\ Compatible(d, link)
         /\ OpenGraph(t) /\ FreeEnd(t, link.output) /\ FreeEnd(t, link.input) =>
               Permitted(t, d, x.now)
  BY <1>1, <1>2
<1> QED
  BY <1>3 DEF x

LEMMA RemoveLinkIs ==
    ASSUME NEW t \in Transactions, NEW l \in Links
    PROVE  LET x == RemoveLink(t, l) IN
           /\ x # None =>
                 /\ Follows(t, x) /\ OnlyLink(t.now, x.now, l)
                 /\ t.now.links[l] # None /\ x.now.links[l] = None
                 /\ Permitted(t, t.now, x.now)
           /\ ~t.enforce /\ t.now.links[l] # None => x # None
<1> DEFINE d == t.now
           e == [d EXCEPT !.links[l] = None]
           x == RemoveLink(t, l)
<1>0. d \in Docs /\ t.enforce \in BOOLEAN
  BY NowIs
<1>1. x = IF (t.enforce => CheckLinkRemoval(t, l)) /\ d.links[l] # None THEN Stage(t, e) ELSE None
  BY DEF RemoveLink, EraseLink, When, Stage
<1>2. (t.enforce => CheckLinkRemoval(t, l)) =>
         OpenGraph(t) /\ FreeLink(t, l) /\ \A p \in Ends(d, l) : FreeEnd(t, p)
  <2>1. CASE t.enforce
    BY <2>1, ProtectionIs DEF CheckLinkRemoval, Ends
  <2>2. CASE ~t.enforce
    BY <2>2 DEF OpenGraph, FreeEnd, FreePin, FreeNode, FreeLink
  <2> QED
    BY <2>1, <2>2
<1> HIDE DEF x, e
<1>3. /\ Stage(t, e) # None /\ Follows(t, Stage(t, e)) /\ OnlyLink(d, Stage(t, e).now, l)
      /\ Stage(t, e).now.links[l] = None
      /\ /\ OpenGraph(t)
         /\ FreeLink(t, l) /\ \A p \in Ends(d, l) : FreeEnd(t, p)
         => Permitted(t, d, Stage(t, e).now)
  BY LinkStaged DEF e
<1>4. /\ x # None =>
            /\ Follows(t, x) /\ OnlyLink(d, x.now, l)
            /\ d.links[l] # None /\ x.now.links[l] = None
            /\ Permitted(t, d, x.now)
      /\ ~t.enforce /\ d.links[l] # None => x # None
  BY <1>1, <1>2, <1>3
<1> QED
  BY <1>4 DEF x

LEMMA RemovePlannedLinkIs ==
    ASSUME NEW t \in Transactions, NEW l \in Links
    PROVE  LET x == RemovePlannedLink(t, l) IN
           x # None =>
              /\ Follows(t, x) /\ OnlyLink(t.now, x.now, l)
              /\ t.now.links[l] # None /\ x.now.links[l] = None
              /\ OpenGraph(t) /\ FreeLink(t, l) /\ (\A p \in Ends(t.now, l) : FreeEnd(t, p)) =>
                    Permitted(t, t.now, x.now)
<1> DEFINE d == t.now
           e == [d EXCEPT !.links[l] = None]
           x == RemovePlannedLink(t, l)
<1>1. x # None => x = Stage(t, e) /\ d.links[l] # None
  BY DEF RemovePlannedLink, EraseLink, When, Stage
<1> HIDE DEF x, e
<1>2. /\ Follows(t, Stage(t, e)) /\ OnlyLink(d, Stage(t, e).now, l)
      /\ Stage(t, e).now.links[l] = None
      /\ /\ OpenGraph(t)
         /\ FreeLink(t, l) /\ \A p \in Ends(d, l) : FreeEnd(t, p)
         => Permitted(t, d, Stage(t, e).now)
  BY LinkStaged DEF e
<1>3. x # None =>
         /\ Follows(t, x) /\ OnlyLink(d, x.now, l)
         /\ d.links[l] # None /\ x.now.links[l] = None
         /\ OpenGraph(t) /\ FreeLink(t, l) /\ (\A p \in Ends(d, l) : FreeEnd(t, p)) =>
               Permitted(t, d, x.now)
  BY <1>1, <1>2
<1> QED
  BY <1>3 DEF x

-----------------------------------------------------------------------------
(* Connections                                                             *)

LEMMA GoodFrom ==
    ASSUME NEW d \in Docs
    PROVE  /\ NodesGood(d) /\ LinksGood(d) /\ ValidPresentation(d) => Good(d)
           /\ Good(d) => NodesGood(d) /\ LinksGood(d) /\ ValidPresentation(d)
  BY GoodIs, GoodParts

LEMMA NodesSame ==
    ASSUME NEW d \in Docs, NEW e \in Docs, NodesGood(d), e.nodes = d.nodes, e.pins = d.pins
    PROVE  NodesGood(e)
<1>1. ASSUME NEW n \in Nodes, e.nodes[n] # None PROVE Held(e, n) /\ Fitted(e, n)
  <2>1. Held(d, n) /\ Fitted(d, n)
    BY <1>1 DEF NodesGood
  <2>2. \A p \in ToSet(d.nodes[n].pins) : Alike(d.pins[p], e.pins[p])
    BY <2>1 DEF Held, Alike
  <2> QED
    BY <1>1, <2>1, <2>2, NodeFrame
<1>2. ASSUME NEW p \in Pins, e.pins[p] # None PROVE Rooted(e, p)
  BY <1>2 DEF NodesGood, Rooted
<1> QED
  BY <1>1, <1>2 DEF NodesGood

LEMMA ShownStill ==
    ASSUME NEW d \in Docs, NEW e \in Docs, ValidPresentation(d), OnlyStructure(d, e),
           \A n \in Nodes : d.nodes[n] # None => e.nodes[n] # None,
           \A l \in Links : d.links[l] # None => e.links[l] # None
    PROVE  ValidPresentation(e)
<1>1. \A g \in Groups : d.groups[g] # None => d.groups[g].members \subseteq Nodes
  BY PartsAre DEF GroupValues
<1> QED
  BY <1>1 DEF ValidPresentation, RoutePointOwner, OnlyStructure

\* A link that was there can be put back.
LEMMA ConnectsAgain ==
    ASSUME NEW d \in Docs, LinksGood(d), NEW l \in Links, d.links[l] # None,
           NEW e \in Docs, e.links[l] = None,
           \A m \in Links : e.links[m] \in {None, d.links[m]},
           \A p \in Ends(d, l) : e.pins[p] = d.pins[p]
    PROVE  d.links[l] \in LinkValues /\ Connects(e, d.links[l]) /\ Compatible(e, d.links[l])
<1> DEFINE link == d.links[l]
<1>1. link \in LinkValues
  BY PartsAre
<1>2. Joins(d, link) /\ Ends(d, l) = {link.output, link.input}
  BY DEF LinksGood, Ends
<1>3. ASSUME NEW m \in Links, e.links[m] # None PROVE m # l /\ e.links[m] = d.links[m] /\ Distinct(d, l, m)
  BY <1>3 DEF LinksGood
<1>4. FindLinkBetween(e, link.output, link.input) = {}
  BY <1>3 DEF FindLinkBetween, Distinct
<1>5. ASSUME NEW p \in Ends(d, l), NEW m \in IncidentLinks(e, p) PROVE ~d.pins[p].single
  <2>1. m \in Links /\ e.links[m] # None /\ p \in {e.links[m].output, e.links[m].input}
    BY DEF IncidentLinks
  <2> QED
    BY <1>3, <2>1 DEF Distinct, Ends
<1>6. \A p \in Ends(d, l) : e.pins[p].single => IncidentLinks(e, p) = {}
  BY <1>5
<1> QED
  BY <1>1, <1>2, <1>4, <1>6 DEF Connects, Joins, Compatible

LEMMA DressesPermitted ==
    ASSUME NEW t \in Transactions, NEW l \in Links, NEW x, x # None, Dresses(t, x, l)
    PROVE  /\ Permitted(t, t.now, x.now)
           /\ OnlyLinkState(t.now, x.now, l) /\ x.now \in Docs
           /\ Follows(t, x)
           /\ ValidPresentation(t.now) => ValidPresentation(x.now)
<1>1. /\ Follows(t, x) /\ OnlyLinkState(t.now, x.now, l)
      /\ \/ x.now = t.now
         \/ /\ OpenGraph(t) /\ FreeLinkState(t, l)
            /\ t.now.links[l] # None
            /\ Unshared(t.now, l, x.now.link_states[l])
  BY DEF Dresses
<1>2. x.now \in Docs /\ t.now \in Docs /\ Follows(t, t)
  BY <1>1, NowIs DEF OnlyLinkState, OnlyLinkStates
<1>3. CASE x.now = t.now
  BY <1>1, <1>2, <1>3, PermittedIs
<1>4. CASE x.now # t.now
  <2>1. Permitted(t, t.now, x.now)
    BY <1>1, <1>4 DEF Permitted, OnlyLinkState, OnlyLinkStates, Ends
  <2>2. ValidPresentation(t.now) => ValidPresentation(x.now)
    BY <1>1, <1>2, <1>4, OneLinkShown
  <2> QED
    BY <1>1, <1>2, <2>1, <2>2
<1> QED
  BY <1>3, <1>4

LEMMA OnlyLinkStateIs ==
    ASSUME NEW d \in Docs, NEW l \in Links, NEW e, OnlyLinkState(d, e, l),
           e.link_states[l] = d.link_states[l]
    PROVE  e = d
<1>1. e \in Docs /\ \A m \in Links : e.link_states[m] = d.link_states[m]
  BY DEF OnlyLinkState, OnlyLinkStates
<1>2. e.link_states = d.link_states
  BY <1>1, PartsAre
<1> QED
  BY <1>1, <1>2, SameDocument DEF OnlyLinkState, OnlyLinkStates

LEMMA ConnectUndoes ==
    ASSUME NEW d \in Docs, Good(d), NEW l \in Links, NEW output \in Pins, NEW input \in Pins
    PROVE  Undoes(d, [kind |-> "connect", link |-> l, output |-> output, input |-> input])
<1> DEFINE c == [kind |-> "connect", link |-> l, output |-> output, input |-> input]
           link == LinkOf(output, input)
           b == Begin(d, TRUE)
           t == Executed(d, c)
           e == Led(d, c)
           f == Begin(e, FALSE)
           u == TakenBack(d, c)
           x == RemoveLink(f, l)
<1>1. /\ t = AddLink(b, l, link)
      /\ u = IF x = None THEN None ELSE SetLinkPresentation(x, l, d.link_states[l])
  BY DEF Executed, TakenBack, Apply, Revert, Capture, ApplyConnect, RevertConnect, Then
<1>2. link \in LinkValues
  BY DEF LinkOf, LinkValues
<1>3. b \in Transactions /\ b.now = d /\ b.enforce = TRUE
  BY ExecutedIs
<1>4. NodesGood(d) /\ LinksGood(d) /\ ValidPresentation(d)
  BY GoodFrom
<1> HIDE DEF c, link
<1> SUFFICES ASSUME t # None
             PROVE  /\ e \in Docs /\ Good(e) /\ Permitted(b, d, e)
                    /\ u \in Transactions /\ u.now = d
  <2>1. Undoes(d, c)
    BY PermittedUndoes DEF Changes
  <2> QED
    BY <2>1 DEF c
<1> HIDE DEF b
<1>5. /\ OnlyLink(d, e, l) /\ d.links[l] = None /\ e.links[l] = link
      /\ Connects(d, link) /\ Compatible(d, link)
      /\ Permitted(b, d, e)
  <2> HIDE DEF t
  <2> QED
    BY <1>1, <1>2, <1>3, AddLinkIs DEF Led, t
<1>6. e \in Docs /\ e.links[l] # None
  BY <1>2, <1>5, NotNone DEF OnlyLink
<1> HIDE DEF e, t
<1>7. Good(e)
  <2>1. LinksGood(e)
    BY <1>2, <1>4, <1>5, <1>6, LinkInserted
  <2>2. NodesGood(e)
    BY <1>4, <1>5, <1>6, NodesSame DEF OnlyLink
  <2>3. ValidPresentation(e)
    <3>1. \A m \in Links : d.links[m] # None => e.links[m] # None
      BY <1>5, <1>6 DEF OnlyLink
    <3> QED
      BY <1>4, <1>5, <1>6, <3>1, ShownStill DEF OnlyLink
  <2> QED
    BY <1>6, <2>1, <2>2, <2>3, GoodFrom
<1>8. f \in Transactions /\ f.now = e /\ ~f.enforce
  BY <1>6, RevertedIs
<1> HIDE DEF f
<1>9. x # None /\ Follows(f, x) /\ OnlyLink(e, x.now, l) /\ x.now.links[l] = None
  BY <1>6, <1>8, RemoveLinkIs
<1> HIDE DEF x
<1>10. OnlyLink(d, x.now, l)
  BY <1>5, <1>9 DEF OnlyLink, OnlyStructure
<1>11. x.now = d /\ x \in Transactions
  BY <1>5, <1>9, <1>10, OnlyOneIs DEF Follows
<1>12. d.link_states[l] \in LinkStates \cup {None}
  BY PartsAre
<1> HIDE DEF u
<1>13. u # None /\ Follows(x, u) /\ OnlyLinkState(d, u.now, l) /\ u.now.link_states[l] = d.link_states[l]
  BY <1>1, <1>9, <1>11, <1>12, SetLinkPresentationIs
<1>14. u.now = d
  BY <1>13, OnlyLinkStateIs
<1> QED
  BY <1>5, <1>6, <1>7, <1>13, <1>14 DEF Follows

LEMMA ReconnectUndoes ==
    ASSUME NEW d \in Docs, Good(d), NEW l \in Links, d.links[l] # None,
           NEW output \in Pins, NEW input \in Pins, NEW keep \in BOOLEAN
    PROVE  Undoes(d, [kind |-> "reconnect", link |-> l, output |-> output, input |-> input,
                      preserve_route |-> keep])
<1> DEFINE c == [kind |-> "reconnect", link |-> l, output |-> output, input |-> input,
                 preserve_route |-> keep]
           link == LinkOf(output, input)
           old == d.links[l]
           b == Begin(d, TRUE)
           t == Executed(d, c)
           e == Led(d, c)
           f == Begin(e, FALSE)
           u == TakenBack(d, c)
           x == RemovePlannedLink(b, l)
           y == AddPlannedLink(x, l, link)
           v == RemoveLink(f, l)
           w == AddLink(v, l, old)
<1>1. /\ \/ t = b
         \/ t = None
         \/ /\ ValidateConnection(b, output, input, l) = "allowed"
            /\ x # None
            /\ t = y \/ (y # None /\ t = SetLinkRoute(y, l, EmptyRoute))
      /\ u = IF v = None THEN None
             ELSE IF w = None THEN None ELSE SetLinkPresentation(w, l, d.link_states[l])
  <2> DEFINE saved == Capture(d, c)
  <2>1. saved.link = old /\ saved.state = d.link_states[l]
    BY DEF Capture, CaptureLink
  <2> HIDE DEF saved, x, y, v, w, old
  <2>2. t = ApplyReconnect(b, c, saved) /\ u = RevertReconnect(f, c, saved)
    <3> HIDE DEF b, f
    <3> QED
      BY DEF Executed, TakenBack, Apply, Revert, b, f, saved
  <2> HIDE DEF b, f, t, u
  <2>3. \/ t = b
        \/ t = None
        \/ /\ ValidateConnection(b, output, input, l) = "allowed"
           /\ x # None
           /\ t = y \/ (y # None /\ t = SetLinkRoute(y, l, EmptyRoute))
    BY <2>2 DEF ApplyReconnect, Then, When, x, y
  <2>4. u = IF v = None THEN None
            ELSE IF w = None THEN None ELSE SetLinkPresentation(w, l, d.link_states[l])
    BY <2>1, <2>2 DEF RevertReconnect, Then, v, w
  <2> QED
    BY <2>3, <2>4
<1>2. link \in LinkValues /\ link.output = output /\ link.input = input
  BY DEF LinkOf, LinkValues
<1>3. b \in Transactions /\ b.now = d /\ b.enforce = TRUE
  BY ExecutedIs
<1>4. NodesGood(d) /\ LinksGood(d) /\ ValidPresentation(d)
  BY GoodFrom
<1> HIDE DEF c, link
<1> SUFFICES ASSUME t # None, e # d
             PROVE  /\ e \in Docs /\ Good(e) /\ Permitted(b, d, e)
                    /\ u \in Transactions /\ u.now = d
  <2>1. Undoes(d, c)
    BY PermittedUndoes DEF Changes
  <2> QED
    BY <2>1 DEF c
<1>5. /\ ValidateConnection(b, output, input, l) = "allowed"
      /\ x # None
      /\ t = y \/ (y # None /\ t = SetLinkRoute(y, l, EmptyRoute))
  <2>1. t # b
    <3> HIDE DEF t, b
    <3> QED
      BY <1>3 DEF Led, t
  <2> QED
    BY <1>1, <2>1
<1> HIDE DEF b
<1>6. /\ OpenGraph(b) /\ FreeEnd(b, output) /\ FreeEnd(b, input)
      /\ FreeLink(b, l) /\ FreeLinkState(b, l) /\ \A p \in Ends(d, l) : FreeEnd(b, p)
  <2>1. l # None
    BY NotNone
  <2> QED
    BY <1>3, <1>5, <2>1, ValidationIs DEF Ends
<1>7. /\ Follows(b, x) /\ OnlyLink(d, x.now, l) /\ x.now.links[l] = None
      /\ Permitted(b, d, x.now)
  BY <1>3, <1>5, <1>6, RemovePlannedLinkIs
<1>8. x \in Transactions /\ x.now \in Docs
  BY <1>7 DEF Follows, OnlyLink
<1> HIDE DEF x
<1>9. y # None
  BY <1>5
<1>10. /\ Follows(x, y) /\ OnlyLink(x.now, y.now, l) /\ y.now.links[l] = link
       /\ Connects(x.now, link) /\ Compatible(x.now, link)
       /\ OpenGraph(x) /\ FreeEnd(x, output) /\ FreeEnd(x, input) => Permitted(x, x.now, y.now)
  BY <1>2, <1>8, <1>9, AddPlannedLinkIs
<1>11. y \in Transactions /\ y.now \in Docs /\ Follows(b, y)
  BY <1>7, <1>10, FollowsOn DEF Follows, OnlyLink
<1> HIDE DEF y
<1>12. Permitted(b, d, y.now)
  <2>1. Permitted(b, x.now, y.now)
    BY <1>3, <1>6, <1>7, <1>10, PermittedIs
  <2> QED
    BY <1>7, <2>1, PermittedOn
<1>13. OnlyLink(d, y.now, l) /\ y.now.links[l] # None
  BY <1>2, <1>7, <1>10, NotNone DEF OnlyLink, OnlyStructure
<1>14. LinksGood(y.now)
  <2>1. LinksGood(x.now)
    <3>1. \A m \in Links : x.now.links[m] \in {None, d.links[m]}
      BY <1>7 DEF OnlyLink
    <3>2. ASSUME NEW m \in Links, x.now.links[m] # None, NEW p \in Ends(x.now, m)
          PROVE  Alike(d.pins[p], x.now.pins[p])
      <4>1. x.now.links[m] = d.links[m] /\ Joins(d, d.links[m]) /\ x.now.pins = d.pins
        BY <1>4, <1>7, <3>2, <3>1 DEF LinksGood, OnlyLink
      <4> QED
        BY <4>1 DEF Joins, Ends, Alike
    <3> QED
      BY <1>4, <1>8, <3>1, <3>2, LinksErased
  <2> QED
    BY <1>2, <1>7, <1>8, <1>10, <1>11, <2>1, LinkInserted
<1>15. NodesGood(y.now)
  BY <1>4, <1>11, <1>13, NodesSame DEF OnlyLink
<1>16. ValidPresentation(y.now)
  <2>1. \A m \in Links : d.links[m] # None => y.now.links[m] # None
    BY <1>13 DEF OnlyLink
  <2> QED
    BY <1>4, <1>11, <1>13, <2>1, ShownStill DEF OnlyLink
<1> DEFINE Kept1 == /\ e \in Docs /\ Follows(b, t) /\ OnlyLinkState(y.now, e, l)
                    /\ Permitted(b, d, e) /\ ValidPresentation(e)
<1>17. Kept1
  <2>1. CASE t = y
    BY <1>11, <1>12, <1>16, <2>1 DEF Led, OnlyLinkState, OnlyLinkStates
  <2>2. CASE t = SetLinkRoute(y, l, EmptyRoute)
    <3>1. EmptyRoute \in Routes
      <4>1. EmptyRoute \in [{} -> Looks] /\ {} \in SUBSET Points
        BY DEF EmptyRoute
      <4> QED
        BY <4>1 DEF Routes
    <3> HIDE DEF t
    <3>2. Dresses(y, t, l)
      BY <1>11, <2>2, <3>1, SetLinkRouteDresses
    <3>3. /\ Permitted(y, y.now, t.now) /\ OnlyLinkState(y.now, t.now, l) /\ t.now \in Docs
          /\ Follows(y, t) /\ ValidPresentation(t.now)
      BY <1>11, <1>16, <3>2, DressesPermitted DEF t
    <3>4. Permitted(b, d, t.now)
      <4>1. Permitted(b, y.now, t.now)
        BY <1>3, <1>11, <3>3, PermittedIs
      <4> QED
        BY <1>12, <4>1, PermittedOn
    <3>5. Follows(b, t)
      BY <1>11, <3>3, FollowsOn
    <3> QED
      BY <3>3, <3>4, <3>5 DEF Led, t
  <2> QED
    BY <1>5, <2>1, <2>2
<1> HIDE DEF e, t
<1>18. /\ e.nodes = d.nodes /\ e.pins = d.pins /\ e.links = y.now.links
       /\ e.read_only = d.read_only /\ e.node_states = d.node_states /\ e.groups = d.groups
       /\ \A m \in Links \ {l} : e.link_states[m] = d.link_states[m]
       /\ \A m \in Links \ {l} : e.links[m] = d.links[m]
  BY <1>13, <1>17 DEF OnlyLink, OnlyLinkState, OnlyLinkStates, OnlyStructure
<1>19. Good(e)
  <2>1. NodesGood(e)
    BY <1>4, <1>17, <1>18, NodesSame
  <2>2. LinksGood(e)
    <3>1. \A m \in Links : e.links[m] \in {None, y.now.links[m]}
      BY <1>18
    <3>2. ASSUME NEW m \in Links, e.links[m] # None, NEW p \in Ends(e, m)
          PROVE  Alike(y.now.pins[p], e.pins[p])
      BY <1>13, <1>14, <1>18, <3>2 DEF LinksGood, OnlyLink, Joins, Ends, Alike
    <3> QED
      BY <1>11, <1>14, <1>17, <3>1, <3>2, LinksErased
  <2> QED
    BY <1>17, <2>1, <2>2, GoodFrom
<1>20. f \in Transactions /\ f.now = e /\ ~f.enforce
  BY <1>17, RevertedIs
<1> HIDE DEF f
<1>21. e.links[l] # None
  BY <1>13, <1>18
<1>22. v # None /\ Follows(f, v) /\ OnlyLink(e, v.now, l) /\ v.now.links[l] = None
  BY <1>20, <1>21, RemoveLinkIs
<1>23. v \in Transactions /\ v.now \in Docs /\ ~v.enforce
  BY <1>20, <1>22 DEF Follows, OnlyLink
<1> HIDE DEF v
<1>24. old \in LinkValues /\ Connects(v.now, old)
  <2>1. \A m \in Links : v.now.links[m] \in {None, d.links[m]}
    BY <1>18, <1>22 DEF OnlyLink
  <2>2. v.now.pins = d.pins
    BY <1>18, <1>22 DEF OnlyLink
  <2> QED
    BY <1>4, <1>22, <1>23, <2>1, <2>2, ConnectsAgain
<1>25. w # None /\ Follows(v, w) /\ OnlyLink(v.now, w.now, l) /\ w.now.links[l] = old
  BY <1>22, <1>23, <1>24, AddLinkIs
<1>26. w \in Transactions /\ w.now \in Docs /\ ~w.enforce
  BY <1>23, <1>25 DEF Follows, OnlyLink
<1> HIDE DEF w
<1>27. OnlyLinkState(d, w.now, l)
  <2>1. /\ w.now.nodes = d.nodes /\ w.now.pins = d.pins
        /\ w.now.read_only = d.read_only /\ w.now.node_states = d.node_states
        /\ w.now.groups = d.groups
        /\ \A m \in Links \ {l} : w.now.link_states[m] = d.link_states[m]
        /\ \A m \in Links : w.now.links[m] = d.links[m]
    BY <1>18, <1>22, <1>25 DEF OnlyLink, OnlyStructure
  <2>2. w.now.links = d.links
    BY <1>26, <2>1, PartsAre
  <2> QED
    BY <1>26, <2>1, <2>2 DEF OnlyLinkState, OnlyLinkStates
<1>28. d.link_states[l] \in LinkStates \cup {None} /\ Unshared(w.now, l, d.link_states[l])
  BY <1>4, <1>26, <1>27, OneLinkShown, PartsAre
<1>29. w.now.links[l] # None
  BY <1>24, <1>25, NotNone
<1> HIDE DEF u, old
<1>30. u # None /\ Follows(w, u) /\ OnlyLinkState(w.now, u.now, l) /\ u.now.link_states[l] = d.link_states[l]
  BY <1>1, <1>22, <1>25, <1>26, <1>28, <1>29, SetLinkPresentationIs
<1>31. OnlyLinkState(d, u.now, l)
  BY <1>27, <1>30 DEF OnlyLinkState, OnlyLinkStates
<1>32. u.now = d
  BY <1>30, <1>31, OnlyLinkStateIs
<1> QED
  BY <1>17, <1>19, <1>30, <1>32 DEF Follows

-----------------------------------------------------------------------------
(* Several links                                                           *)

OnlyLinks(d, e) ==
    e \in Docs /\ OnlyStructure(d, e) /\ e.nodes = d.nodes /\ e.pins = d.pins

LEMMA ClearLinksIs ==
    ASSUME NEW t \in Transactions, NEW S \in SUBSET Links
    PROVE  LET x == ClearLinks(t, S) IN
           /\ x # None =>
                 /\ Follows(t, x) /\ OnlyLinkStates(t.now, x.now)
                 /\ \A l \in Links : x.now.link_states[l] = IF l \in S THEN None ELSE t.now.link_states[l]
                 /\ Permitted(t, t.now, x.now)
           /\ ~t.enforce => x # None
<1> DEFINE states == [l \in S |-> None]
           x == ClearLinks(t, S)
<1>1. states \in [S -> LinkStates \cup {None}] /\ \A l \in S : states[l] = None
  OBVIOUS
<1>2. x = ShowLinks(t, states)
  BY DEF ClearLinks
<1> HIDE DEF states, x
<1>3. ShownLinks(None, t, states, x, S)
  BY <1>1, <1>2, ShowLinksIs
<1>4. ~t.enforce => x # None
  BY <1>1, <1>3 DEF ShownLinks, Shareable
<1>5. ASSUME x # None
      PROVE  /\ Follows(t, x) /\ OnlyLinkStates(t.now, x.now)
             /\ \A l \in Links : x.now.link_states[l] = IF l \in S THEN None ELSE t.now.link_states[l]
             /\ Permitted(t, t.now, x.now)
  <2>1. /\ Follows(t, x) /\ OnlyLinkStates(t.now, x.now)
        /\ \A l \in Links : x.now.link_states[l] = IF l \in S THEN None ELSE t.now.link_states[l]
        /\ \A l \in S : states[l] = t.now.link_states[l] \/ (OpenGraph(t) /\ FreeLinkState(t, l))
    BY <1>1, <1>3, <1>5 DEF ShownLinks
  <2>2. CASE \E l \in Links : x.now.link_states[l] # t.now.link_states[l]
    <3>1. \A l \in Links : x.now.link_states[l] # t.now.link_states[l] =>
             OpenGraph(t) /\ FreeLinkState(t, l)
      BY <1>1, <2>1
    <3>2. OpenGraph(t)
      BY <2>2, <3>1
    <3> QED
      BY <2>1, <3>1, <3>2 DEF Permitted, OnlyLinkStates, Ends
  <2>3. CASE \A l \in Links : x.now.link_states[l] = t.now.link_states[l]
    <3>1. x.now \in Docs /\ t.now \in Docs
      BY <2>1, NowIs DEF OnlyLinkStates
    <3>2. x.now.link_states = t.now.link_states
      BY <2>3, <3>1, PartsAre
    <3>3. x.now = t.now
      BY <2>1, <3>1, <3>2, SameDocument DEF OnlyLinkStates
    <3> QED
      BY <2>1, <3>3, PermittedIs
  <2> QED
    BY <2>1, <2>2, <2>3
<1> QED
  BY <1>4, <1>5 DEF x

LEMMA ClearNodesIs ==
    ASSUME NEW t \in Transactions, NEW S \in SUBSET Nodes
    PROVE  LET x == ClearNodes(t, S) IN
           /\ x # None =>
                 /\ Follows(t, x) /\ OnlyNodeStates(t.now, x.now)
                 /\ \A n \in Nodes : x.now.node_states[n] = IF n \in S THEN None ELSE t.now.node_states[n]
                 /\ Permitted(t, t.now, x.now)
           /\ ~t.enforce => x # None
<1> DEFINE states == [n \in S |-> None]
           x == ClearNodes(t, S)
<1>1. states \in [S -> NodeStates \cup {None}] /\ \A n \in S : states[n] = None
  OBVIOUS
<1>2. x = ShowNodes(t, states)
  BY DEF ClearNodes
<1> HIDE DEF states, x
<1>3. ShownNodes(t, states, x, S)
  BY <1>1, <1>2, ShowNodesIs
<1>4. ~t.enforce => x # None
  BY <1>1, <1>3 DEF ShownNodes
<1>5. ASSUME x # None
      PROVE  /\ Follows(t, x) /\ OnlyNodeStates(t.now, x.now)
             /\ \A n \in Nodes : x.now.node_states[n] = IF n \in S THEN None ELSE t.now.node_states[n]
             /\ Permitted(t, t.now, x.now)
  <2>1. /\ Follows(t, x) /\ OnlyNodeStates(t.now, x.now)
        /\ \A n \in Nodes : x.now.node_states[n] = IF n \in S THEN None ELSE t.now.node_states[n]
        /\ \A n \in S : states[n] = t.now.node_states[n] \/ (OpenGraph(t) /\ FreeNodeState(t, n))
    BY <1>1, <1>3, <1>5 DEF ShownNodes
  <2>2. CASE \E n \in Nodes : x.now.node_states[n] # t.now.node_states[n]
    <3>1. \A n \in Nodes : x.now.node_states[n] # t.now.node_states[n] =>
             OpenGraph(t) /\ FreeNodeState(t, n)
      BY <1>1, <2>1
    <3>2. OpenGraph(t)
      BY <2>2, <3>1
    <3> QED
      BY <2>1, <3>1, <3>2 DEF Permitted, OnlyNodeStates, Ends
  <2>3. CASE \A n \in Nodes : x.now.node_states[n] = t.now.node_states[n]
    <3>1. x.now \in Docs /\ t.now \in Docs
      BY <2>1, NowIs DEF OnlyNodeStates
    <3>2. x.now.node_states = t.now.node_states
      BY <2>3, <3>1, PartsAre
    <3>3. x.now = t.now
      BY <2>1, <3>1, <3>2, SameDocument DEF OnlyNodeStates
    <3> QED
      BY <2>1, <3>3, PermittedIs
  <2> QED
    BY <2>1, <2>2, <2>3
<1> QED
  BY <1>4, <1>5 DEF x

\* Several links go.
LostLinks(t, x, s) ==
    x # None =>
       /\ Follows(t, x) /\ OnlyLinks(t.now, x.now)
       /\ \A l \in Links : x.now.links[l] = IF l \in s THEN None ELSE t.now.links[l]
       /\ Permitted(t, t.now, x.now)

LEMMA RemoveLinksIs ==
    ASSUME NEW t \in Transactions, NEW S \in SUBSET Links
    PROVE  LostLinks(t, RemoveLinks(t, S), S)
<1> DEFINE Step(x, n) == Then(x, LAMBDA y : RemoveLink(y, n))
           Loop(f) == f = [s \in SUBSET (S) |->
                              IF s = {} THEN t
                              ELSE LET n == CHOOSE n \in s : TRUE IN Step(f[s \ {n}], n)]
           step == [p \in Staged \X (S) |-> Step(p[1], p[2])]
           h == CHOOSE f : Loop(f)
           D == {s \in SUBSET (S) : LostLinks(t, h[s], s)}
<1>1. IsFiniteSet(S) /\ t \in Staged /\ t # None
  BY FS_Subset, ElementDocumentAssumption, NowIs
<1>2. ASSUME NEW x \in Staged, NEW n \in S PROVE Step(x, n) \in Staged
  <2>1. CASE x = None
    BY <2>1 DEF Then, Staged
  <2>2. CASE x # None
    <3>1. x \in Transactions /\ n \in Links
      BY <2>2 DEF Staged
    <3>2. RemoveLink(x, n) # None => Follows(x, RemoveLink(x, n))
      BY <3>1, RemoveLinkIs
    <3> QED
      BY <2>2, <3>2 DEF Then, Staged, Follows
  <2> QED
    BY <2>1, <2>2
<1>3. LostLinks(t, t, {})
  <2>1. OnlyLinks(t.now, t.now) /\ Follows(t, t)
    BY NowIs DEF OnlyLinks, OnlyStructure
  <2>2. Permitted(t, t.now, t.now)
    BY <2>1, PermittedIs
  <2> QED
    BY <2>1, <2>2 DEF LostLinks
<1>4. ASSUME NEW x, NEW s \in SUBSET (S), NEW n \in (S) \ s, LostLinks(t, x, s)
      PROVE  LostLinks(t, Step(x, n), s \cup {n})
  <2>1. CASE x = None
    BY <1>4, <2>1 DEF Then, LostLinks
  <2>2. CASE x # None
    <3> DEFINE y == RemoveLink(x, n)
    <3>1. /\ Follows(t, x) /\ OnlyLinks(t.now, x.now)
          /\ \A m \in Links : x.now.links[m] = IF m \in s THEN None ELSE t.now.links[m]
          /\ Permitted(t, t.now, x.now)
      BY <1>4, <2>2 DEF LostLinks
    <3>2. x \in Transactions /\ n \in Links
      BY <3>1 DEF Follows
    <3>3. y # None => /\ Follows(x, y) /\ OnlyLink(x.now, y.now, n) /\ y.now.links[n] = None
                      /\ Permitted(x, x.now, y.now)
      BY <3>2, RemoveLinkIs
    <3>4. Step(x, n) = y
      BY <2>2 DEF Then
    <3> HIDE DEF y, Step
    <3>5. ASSUME y # None PROVE LostLinks(t, y, s \cup {n})
      <4>1. Follows(t, y)
        BY <3>1, <3>3, <3>5, FollowsOn
      <4>2. OnlyLinks(t.now, y.now) /\ \A m \in Links \ {n} : y.now.links[m] = x.now.links[m]
        BY <3>1, <3>3, <3>5 DEF OnlyLink, OnlyLinks, OnlyStructure
      <4>3. Permitted(t, t.now, y.now)
        <5>1. Permitted(t, x.now, y.now)
          BY <3>1, <3>3, <3>5, PermittedIs
        <5> QED
          BY <3>1, <5>1, PermittedOn
      <4> QED
        BY <3>1, <3>3, <3>5, <4>1, <4>2, <4>3 DEF LostLinks
    <3> QED
      BY <3>4, <3>5 DEF LostLinks
  <2> QED
    BY <2>1, <2>2
<1> HIDE DEF Step
<1>5. step \in [Staged \X (S) -> Staged]
  <2> SUFFICES ASSUME NEW p \in Staged \X (S) PROVE Step(p[1], p[2]) \in Staged
    OBVIOUS
  <2> QED
    BY <1>2
<1>6. Folds(S, t, step) # {}
  <2> HIDE DEF step
  <2> QED
    BY <1>1, <1>5, FoldsExist
<1>7. PICK g : g \in Folds(S, t, step)
  BY <1>6
<1>8. Loop(g)
  <2> HIDE DEF Staged
  <2>1. g \in [SUBSET (S) -> Staged] /\ g[{}] = t
    BY <1>7 DEF Folds
  <2>2. ASSUME NEW s \in SUBSET (S), s # {}
        PROVE  g[s] = LET n == CHOOSE n \in s : TRUE IN Step(g[s \ {n}], n)
    <3> DEFINE n == CHOOSE n \in s : TRUE
    <3>1. n \in s /\ g[s \ {n}] \in Staged /\ Rest(s) = s \ {n}
      BY <2>1, <2>2 DEF Rest
    <3>2. g[s] = step[<<g[Rest(s)], n>>]
      BY <1>7, <2>2 DEF Folds
    <3> HIDE DEF n
    <3>3. step[<<g[s \ {n}], n>>] = Step(g[s \ {n}], n)
      BY <3>1
    <3> HIDE DEF step
    <3>4. g[s] = Step(g[s \ {n}], n)
      BY <3>1, <3>2, <3>3
    <3> QED
      BY <3>4 DEF n
  <2> HIDE DEF step
  <2>3. g = [s \in SUBSET (S) |-> g[s]]
    BY <2>1
  <2> QED
    BY <2>1, <2>2, <2>3
<1> HIDE DEF step
<1>9. RemoveLinks(t, S) = h[S]
  BY DEF RemoveLinks, ForEach, FoldSet, MapThenFoldSet, Then, Step
<1>10. Loop(h)
  <2> HIDE DEF Loop
  <2> QED
    BY <1>8
<1> HIDE DEF h
<1>11. {} \in D
  BY <1>3, <1>10
<1>12. ASSUME NEW s \in SUBSET (S), s # {}, s \ {CHOOSE n \in s : TRUE} \in D PROVE s \in D
  <2> DEFINE n == CHOOSE n \in s : TRUE
  <2>1. n \in s /\ LostLinks(t, h[s \ {n}], s \ {n})
    BY <1>12
  <2>2. h[s] = Step(h[s \ {n}], n)
    BY <1>10, <1>12
  <2> HIDE DEF n, D, Loop
  <2>3. (s \ {n}) \cup {n} = s /\ n \in (S) \ (s \ {n}) /\ s \ {n} \in SUBSET (S)
    BY <2>1
  <2>4. LostLinks(t, h[s], s)
    BY <1>4, <2>1, <2>2, <2>3
  <2> QED
    BY <2>4 DEF D
<1> HIDE DEF D, Loop
<1>13. S \in D
  BY <1>1, <1>11, <1>12, SubsetInduct
<1> QED
  BY <1>9, <1>13 DEF D

\* Links of d are put back into a document that lacks them.
Lacks(d, e, s) ==
    /\ e.pins = d.pins
    /\ \A l \in Links : e.links[l] \in {None, d.links[l]}
    /\ \A l \in s : e.links[l] = None
PutBack(d, t, x, s) ==
    /\ x # None =>
          /\ Follows(t, x) /\ OnlyLinks(t.now, x.now)
          /\ \A l \in Links : x.now.links[l] = IF l \in s THEN d.links[l] ELSE t.now.links[l]
    /\ ~t.enforce /\ Lacks(d, t.now, s) => x # None

LEMMA AddLinksIs ==
    ASSUME NEW t \in Transactions, NEW S \in SUBSET Links, NEW d \in Docs, LinksGood(d), NEW saved, DOMAIN saved = S, \A l \in S : d.links[l] # None /\ saved[l].link = d.links[l]
    PROVE  PutBack(d, t, AddLinks(t, saved), S)
<1> DEFINE Step(x, n) == Then(x, LAMBDA y : AddLink(y, n, saved[n].link))
           Loop(f) == f = [s \in SUBSET (S) |->
                              IF s = {} THEN t
                              ELSE LET n == CHOOSE n \in s : TRUE IN Step(f[s \ {n}], n)]
           step == [p \in Staged \X (S) |-> Step(p[1], p[2])]
           h == CHOOSE f : Loop(f)
           D == {s \in SUBSET (S) : PutBack(d, t, h[s], s)}
<1>1. IsFiniteSet(S) /\ t \in Staged /\ t # None
  BY FS_Subset, ElementDocumentAssumption, NowIs
<1>2. ASSUME NEW x \in Staged, NEW n \in S PROVE Step(x, n) \in Staged
  <2>0. saved[n].link \in LinkValues
    BY PartsAre
  <2>1. CASE x = None
    BY <2>1 DEF Then, Staged
  <2>2. CASE x # None
    <3>1. x \in Transactions /\ n \in Links
      BY <2>2 DEF Staged
    <3>2. AddLink(x, n, saved[n].link) # None => Follows(x, AddLink(x, n, saved[n].link))
      BY <3>1, <2>0, AddLinkIs
    <3> QED
      BY <2>2, <3>2 DEF Then, Staged, Follows
  <2> QED
    BY <2>1, <2>2
<1>3. PutBack(d, t, t, {})
  <2>1. OnlyLinks(t.now, t.now) /\ Follows(t, t)
    BY NowIs DEF OnlyLinks, OnlyStructure
  <2> QED
    BY <1>1, <2>1 DEF PutBack
<1>4. ASSUME NEW x, NEW s \in SUBSET (S), NEW n \in (S) \ s, PutBack(d, t, x, s)
      PROVE  PutBack(d, t, Step(x, n), s \cup {n})
  <2>1. CASE x = None
    BY <1>4, <2>1 DEF Then, PutBack, Lacks
  <2>2. CASE x # None
    <3> DEFINE y == AddLink(x, n, d.links[n])
    <3>1. /\ Follows(t, x) /\ OnlyLinks(t.now, x.now)
          /\ \A m \in Links : x.now.links[m] = IF m \in s THEN d.links[m] ELSE t.now.links[m]
      BY <1>4, <2>2 DEF PutBack
    <3>2. x \in Transactions /\ n \in Links /\ x.now \in Docs
      BY <3>1 DEF Follows, OnlyLinks
    <3>3. d.links[n] \in LinkValues /\ d.links[n] # None /\ saved[n].link = d.links[n]
      BY PartsAre
    <3>4. /\ y # None => Follows(x, y) /\ OnlyLink(x.now, y.now, n) /\ y.now.links[n] = d.links[n]
          /\ ~x.enforce /\ x.now.links[n] = None /\ Connects(x.now, d.links[n]) => y # None
      BY <3>2, <3>3, AddLinkIs
    <3>5. Step(x, n) = y
      BY <2>2, <3>3 DEF Then
    <3> HIDE DEF y, Step
    <3>6. ASSUME y # None
          PROVE  /\ Follows(t, y) /\ OnlyLinks(t.now, y.now)
                 /\ \A m \in Links : y.now.links[m] = IF m \in s \cup {n} THEN d.links[m] ELSE t.now.links[m]
      <4>1. Follows(t, y)
        BY <3>1, <3>4, <3>6, FollowsOn
      <4>2. OnlyLinks(t.now, y.now) /\ \A m \in Links \ {n} : y.now.links[m] = x.now.links[m]
        BY <3>1, <3>4, <3>6 DEF OnlyLink, OnlyLinks, OnlyStructure
      <4> QED
        BY <3>1, <3>4, <3>6, <4>1, <4>2
    <3>7. ASSUME ~t.enforce, Lacks(d, t.now, s \cup {n}) PROVE y # None
      <4>1. /\ t.now.pins = d.pins /\ \A m \in Links : t.now.links[m] \in {None, d.links[m]}
            /\ t.now.links[n] = None
        BY <3>7 DEF Lacks
      <4>2. /\ x.now.pins = d.pins /\ \A m \in Links : x.now.links[m] \in {None, d.links[m]}
            /\ x.now.links[n] = None /\ ~x.enforce
        BY <3>1, <3>7, <4>1 DEF OnlyLinks, Follows
      <4>3. Connects(x.now, d.links[n])
        BY <3>2, <3>3, <4>2, ConnectsAgain
      <4> QED
        BY <3>4, <4>2, <4>3
    <3> QED
      BY <3>5, <3>6, <3>7 DEF PutBack
  <2> QED
    BY <2>1, <2>2
<1> HIDE DEF Step
<1>5. step \in [Staged \X (S) -> Staged]
  <2> SUFFICES ASSUME NEW p \in Staged \X (S) PROVE Step(p[1], p[2]) \in Staged
    OBVIOUS
  <2> QED
    BY <1>2
<1>6. Folds(S, t, step) # {}
  <2> HIDE DEF step
  <2> QED
    BY <1>1, <1>5, FoldsExist
<1>7. PICK g : g \in Folds(S, t, step)
  BY <1>6
<1>8. Loop(g)
  <2> HIDE DEF Staged
  <2>1. g \in [SUBSET (S) -> Staged] /\ g[{}] = t
    BY <1>7 DEF Folds
  <2>2. ASSUME NEW s \in SUBSET (S), s # {}
        PROVE  g[s] = LET n == CHOOSE n \in s : TRUE IN Step(g[s \ {n}], n)
    <3> DEFINE n == CHOOSE n \in s : TRUE
    <3>1. n \in s /\ g[s \ {n}] \in Staged /\ Rest(s) = s \ {n}
      BY <2>1, <2>2 DEF Rest
    <3>2. g[s] = step[<<g[Rest(s)], n>>]
      BY <1>7, <2>2 DEF Folds
    <3> HIDE DEF n
    <3>3. step[<<g[s \ {n}], n>>] = Step(g[s \ {n}], n)
      BY <3>1
    <3> HIDE DEF step
    <3>4. g[s] = Step(g[s \ {n}], n)
      BY <3>1, <3>2, <3>3
    <3> QED
      BY <3>4 DEF n
  <2> HIDE DEF step
  <2>3. g = [s \in SUBSET (S) |-> g[s]]
    BY <2>1
  <2> QED
    BY <2>1, <2>2, <2>3
<1> HIDE DEF step
<1>9. AddLinks(t, saved) = h[S]
  BY DEF AddLinks, ForEach, FoldSet, MapThenFoldSet, Then, Step
<1>10. Loop(h)
  <2> HIDE DEF Loop
  <2> QED
    BY <1>8
<1> HIDE DEF h
<1>11. {} \in D
  BY <1>3, <1>10
<1>12. ASSUME NEW s \in SUBSET (S), s # {}, s \ {CHOOSE n \in s : TRUE} \in D PROVE s \in D
  <2> DEFINE n == CHOOSE n \in s : TRUE
  <2>1. n \in s /\ PutBack(d, t, h[s \ {n}], s \ {n})
    BY <1>12
  <2>2. h[s] = Step(h[s \ {n}], n)
    BY <1>10, <1>12
  <2> HIDE DEF n, D, Loop
  <2>3. (s \ {n}) \cup {n} = s /\ n \in (S) \ (s \ {n}) /\ s \ {n} \in SUBSET (S)
    BY <2>1
  <2>4. PutBack(d, t, h[s], s)
    BY <1>4, <2>1, <2>2, <2>3
  <2> QED
    BY <2>4 DEF D
<1> HIDE DEF D, Loop
<1>13. S \in D
  BY <1>1, <1>11, <1>12, SubsetInduct
<1> QED
  BY <1>9, <1>13 DEF D

\* The links s of d are put back, and what is shown of them is still missing.
Rejoined(d, t, y) ==
    /\ y \in Transactions /\ ~y.enforce
    /\ OnlyLinks(t.now, y.now) /\ y.now.links = d.links

LEMMA AddLinksAgain ==
    ASSUME NEW d \in Docs, Good(d), NEW S \in SUBSET Links, \A l \in S : d.links[l] # None,
           NEW t \in Transactions, ~t.enforce, t.now.pins = d.pins,
           \A l \in Links : t.now.links[l] = IF l \in S THEN None ELSE d.links[l]
    PROVE  LET y == AddLinks(t, Snapshot(d, S)) IN y # None /\ Rejoined(d, t, y)
<1> DEFINE saved == Snapshot(d, S)
           y == AddLinks(t, saved)
<1>1. DOMAIN saved = S /\ \A l \in S : saved[l].link = d.links[l]
  BY DEF Snapshot
<1> HIDE DEF saved
<1>2. LinksGood(d)
  BY GoodFrom
<1>3. PutBack(d, t, y, S)
  BY <1>1, <1>2, AddLinksIs
<1> HIDE DEF y
<1>4. /\ y # None /\ Follows(t, y) /\ OnlyLinks(t.now, y.now)
      /\ \A l \in Links : y.now.links[l] = d.links[l]
  BY <1>3 DEF PutBack, Lacks
<1>5. y \in Transactions /\ y.now \in Docs /\ ~y.enforce
  BY <1>4 DEF Follows, OnlyLinks
<1>6. y.now.links = d.links
  BY <1>4, <1>5, PartsAre
<1> QED
  BY <1>4, <1>5, <1>6 DEF Rejoined, y, saved

LEMMA ShowLinksAgain ==
    ASSUME NEW d \in Docs, Good(d), NEW S \in SUBSET Links, \A l \in S : d.links[l] # None,
           NEW y \in Transactions, ~y.enforce, y.now.links = d.links,
           \A l \in Links : y.now.link_states[l] = IF l \in S THEN None ELSE d.link_states[l]
    PROVE  LET x == ShowLinks(y, [l \in DOMAIN Snapshot(d, S) |-> Snapshot(d, S)[l].state]) IN
           /\ x # None /\ x \in Transactions /\ ~x.enforce
           /\ OnlyLinkStates(y.now, x.now) /\ x.now.link_states = d.link_states
<1> DEFINE saved == Snapshot(d, S)
           states == [l \in S |-> d.link_states[l]]
           x == ShowLinks(y, [l \in DOMAIN saved |-> saved[l].state])
<1>1. [l \in DOMAIN saved |-> saved[l].state] = states
  BY DEF Snapshot
<1> HIDE DEF saved
<1>2. x = ShowLinks(y, states)
  BY <1>1
<1> HIDE DEF x
<1>3. PICK owner : OwnsPoints(owner, d)
  <2>1. ValidPresentation(d)
    BY GoodFrom
  <2> QED
    BY <2>1, OwnerIs
<1>4. states \in [S -> LinkStates \cup {None}] /\ \A l \in S : states[l] = d.link_states[l]
  BY PartsAre
<1> HIDE DEF states
<1>5. ShownLinks(owner, y, states, x, S)
  BY <1>2, <1>4, ShowLinksIs
<1>6. Shareable(owner, y.now, states, S)
  <2>1. OwnsPoints(owner, y.now)
    BY <1>3 DEF OwnsPoints, OwnPoints
  <2> QED
    BY <1>3, <1>4, <2>1 DEF Shareable, OwnsPoints
<1>7. /\ x # None /\ Follows(y, x) /\ OnlyLinkStates(y.now, x.now)
      /\ \A l \in Links : x.now.link_states[l] = IF l \in S THEN states[l] ELSE y.now.link_states[l]
  BY <1>5, <1>6 DEF ShownLinks
<1>8. x.now \in Docs /\ \A l \in Links : x.now.link_states[l] = d.link_states[l]
  BY <1>4, <1>7 DEF OnlyLinkStates
<1>9. x.now.link_states = d.link_states
  BY <1>8, PartsAre
<1>10. x \in Transactions /\ ~x.enforce
  BY <1>7 DEF Follows
<1> QED
  BY <1>7, <1>9, <1>10 DEF x, saved

LEMMA RestoreLinksIs ==
    ASSUME NEW d \in Docs, Good(d), NEW S \in SUBSET Links, \A l \in S : d.links[l] # None,
           NEW t \in Transactions, ~t.enforce, t.now.pins = d.pins,
           \A l \in Links : t.now.links[l] = IF l \in S THEN None ELSE d.links[l],
           \A l \in Links : t.now.link_states[l] = IF l \in S THEN None ELSE d.link_states[l]
    PROVE  LET x == RestoreLinks(t, Snapshot(d, S)) IN
           /\ x # None /\ x \in Transactions /\ ~x.enforce
           /\ x.now.links = d.links /\ x.now.link_states = d.link_states
           /\ x.now \in Docs /\ x.now.read_only = t.now.read_only
           /\ x.now.nodes = t.now.nodes /\ x.now.pins = t.now.pins
           /\ x.now.node_states = t.now.node_states /\ x.now.groups = t.now.groups
<1> DEFINE saved == Snapshot(d, S)
           y == AddLinks(t, saved)
           z == ShowLinks(y, [l \in DOMAIN saved |-> saved[l].state])
           x == RestoreLinks(t, saved)
<1>1. x = IF y = None THEN None ELSE z
  BY DEF RestoreLinks, Then
<1> HIDE DEF x
<1>2. y # None /\ Rejoined(d, t, y)
  BY AddLinksAgain
<1> HIDE DEF y
<1>3. /\ y \in Transactions /\ ~y.enforce /\ OnlyLinks(t.now, y.now) /\ y.now.links = d.links
  BY <1>2 DEF Rejoined
<1>4. \A l \in Links : y.now.link_states[l] = IF l \in S THEN None ELSE d.link_states[l]
  BY <1>3 DEF OnlyLinks, OnlyStructure
<1>5. /\ z # None /\ z \in Transactions /\ ~z.enforce
      /\ OnlyLinkStates(y.now, z.now) /\ z.now.link_states = d.link_states
  BY <1>3, <1>4, ShowLinksAgain
<1> HIDE DEF z
<1>6. /\ z.now.links = d.links /\ z.now \in Docs /\ z.now.read_only = t.now.read_only
      /\ z.now.nodes = t.now.nodes /\ z.now.pins = t.now.pins
      /\ z.now.node_states = t.now.node_states /\ z.now.groups = t.now.groups
  BY <1>3, <1>5 DEF OnlyLinks, OnlyLinkStates, OnlyStructure
<1> QED
  BY <1>1, <1>2, <1>5, <1>6 DEF x, saved

-----------------------------------------------------------------------------
(* The pins of a node                                                      *)

LEMMA InsertedMembers ==
    ASSUME NEW S, NEW s \in Seq(S), NEW k \in 1..(Len(s) + 1), NEW x \in S
    PROVE  /\ InsertAt(s, k, x) \in Seq(S)
           /\ InsertAt(s, k, x)[k] = x
           /\ Len(InsertAt(s, k, x)) = Len(s) + 1
           /\ ToSet(InsertAt(s, k, x)) = ToSet(s) \cup {x}
           /\ IsInjective(s) /\ x \notin ToSet(s) => IsInjective(InsertAt(s, k, x))
           /\ k \in 1..Len(s) => Last(InsertAt(s, k, x)) = Last(s)
<1> DEFINE t == InsertAt(s, k, x)
<1>1. /\ t \in Seq(S) /\ Len(t) = Len(s) + 1
      /\ \A i \in 1..(Len(s) + 1) : t[i] = IF i < k THEN s[i] ELSE IF i = k THEN x ELSE s[i - 1]
  BY InsertAtIs
<1> HIDE DEF t
<1>2. DOMAIN t = 1..(Len(s) + 1) /\ DOMAIN s = 1..Len(s) /\ Len(s) \in Nat /\ k \in Nat /\ k >= 1
  BY <1>1
<1>3. \A i \in 1..(Len(s) + 1) : /\ i < k => i \in 1..Len(s)
                                 /\ i > k => i - 1 \in 1..Len(s)
  BY <1>2
<1>4. \A j \in 1..Len(s) : /\ j < k => t[j] = s[j] /\ j \in 1..(Len(s) + 1)
                           /\ j >= k => t[j + 1] = s[j] /\ j + 1 \in 1..(Len(s) + 1)
  <2> SUFFICES ASSUME NEW j \in 1..Len(s)
               PROVE  /\ j < k => t[j] = s[j] /\ j \in 1..(Len(s) + 1)
                      /\ j >= k => t[j + 1] = s[j] /\ j + 1 \in 1..(Len(s) + 1)
    OBVIOUS
  <2>1. j \in 1..(Len(s) + 1) /\ j + 1 \in 1..(Len(s) + 1) /\ (j + 1) - 1 = j
    BY <1>2
  <2>2. CASE j < k
    BY <1>1, <2>1, <2>2
  <2>3. CASE j >= k
    <3>1. ~(j + 1 < k) /\ j + 1 # k
      BY <1>2, <2>1, <2>3
    <3> QED
      BY <1>1, <1>2, <2>1, <2>3, <3>1
  <2> QED
    BY <1>2, <2>2, <2>3
<1>5. t[k] = x
  BY <1>1, <1>2
<1>6. ToSet(t) = ToSet(s) \cup {x}
  <2>1. \A i \in 1..(Len(s) + 1) : t[i] \in ToSet(s) \cup {x}
    <3> SUFFICES ASSUME NEW i \in 1..(Len(s) + 1) PROVE t[i] \in ToSet(s) \cup {x}
      OBVIOUS
    <3>1. CASE i < k
      BY <1>1, <1>2, <1>3, <3>1 DEF ToSet
    <3>2. CASE i = k
      BY <1>5, <3>2
    <3>3. CASE i > k
      <4>1. t[i] = s[i - 1] /\ i - 1 \in 1..Len(s)
        BY <1>1, <1>2, <1>3, <3>3
      <4> QED
        BY <1>2, <4>1 DEF ToSet
    <3> QED
      BY <1>2, <3>1, <3>2, <3>3
  <2>2. \A j \in 1..Len(s) : s[j] \in ToSet(t)
    BY <1>2, <1>4 DEF ToSet
  <2>3. x \in ToSet(t)
    BY <1>2, <1>5 DEF ToSet
  <2> QED
    BY <1>2, <2>1, <2>2, <2>3 DEF ToSet
<1>7. ASSUME IsInjective(s), x \notin ToSet(s) PROVE IsInjective(t)
  <2> SUFFICES ASSUME NEW i \in 1..(Len(s) + 1), NEW j \in 1..(Len(s) + 1), t[i] = t[j]
               PROVE  i = j
    BY <1>2 DEF IsInjective
  <2>1. \A m \in 1..(Len(s) + 1) : /\ m < k => t[m] = s[m] /\ m \in DOMAIN s
                                   /\ m > k => t[m] = s[m - 1] /\ m - 1 \in DOMAIN s
    BY <1>1, <1>2, <1>3
  <2>2. \A m \in DOMAIN s : s[m] # x
    BY <1>7 DEF ToSet
  <2>3. \A m, o \in DOMAIN s : s[m] = s[o] => m = o
    BY <1>7 DEF IsInjective
  <2>4. CASE i = k
    <3>1. ~(j < k) /\ ~(j > k)
      BY <1>5, <2>1, <2>2, <2>4
    <3> QED
      BY <1>2, <2>4, <3>1
  <2>5. CASE j = k
    <3>1. ~(i < k) /\ ~(i > k)
      BY <1>5, <2>1, <2>2, <2>5
    <3> QED
      BY <1>2, <2>5, <3>1
  <2>6. CASE i < k /\ j < k
    BY <2>1, <2>3, <2>6
  <2>7. CASE i > k /\ j > k
    <3>1. i - 1 = j - 1
      BY <2>1, <2>3, <2>7
    <3> QED
      BY <3>1
  <2>8. CASE i < k /\ j > k
    <3>1. i = j - 1
      BY <2>1, <2>3, <2>8
    <3> QED
      BY <1>2, <2>8, <3>1
  <2>9. CASE i > k /\ j < k
    <3>1. i - 1 = j
      BY <2>1, <2>3, <2>9
    <3> QED
      BY <1>2, <2>9, <3>1
  <2> QED
    BY <1>2, <2>4, <2>5, <2>6, <2>7, <2>8, <2>9
<1>8. ASSUME k \in 1..Len(s) PROVE Last(t) = Last(s)
  <2>1. Len(s) \in 1..Len(s) /\ Len(s) >= k
    BY <1>2, <1>8
  <2>2. t[Len(s) + 1] = s[Len(s)]
    BY <1>4, <2>1
  <2> QED
    BY <1>1, <2>2 DEF Last
<1> QED
  BY <1>1, <1>5, <1>6, <1>7, <1>8 DEF t

LEMMA RemovedMembers ==
    ASSUME NEW S, NEW s \in Seq(S), NEW k \in 1..Len(s), IsInjective(s)
    PROVE  /\ RemoveAt(s, k) \in Seq(S)
           /\ ToSet(RemoveAt(s, k)) = ToSet(s) \ {s[k]}
           /\ IsInjective(RemoveAt(s, k))
           /\ k # Len(s) => Last(RemoveAt(s, k)) = Last(s)
           /\ (CHOOSE i \in DOMAIN s : s[i] = s[k]) = k
<1> DEFINE t == RemoveAt(s, k)
<1>1. /\ t \in Seq(S) /\ Len(t) = Len(s) - 1
      /\ \A i \in 1..(Len(s) - 1) : t[i] = IF i < k THEN s[i] ELSE s[i + 1]
  BY RemoveAtIs
<1> HIDE DEF t
<1>2. /\ DOMAIN t = 1..(Len(s) - 1) /\ DOMAIN s = 1..Len(s) /\ Len(s) \in Nat /\ k \in 1..Len(s)
      /\ \A i, j \in 1..Len(s) : s[i] = s[j] => i = j
  BY <1>1 DEF IsInjective
<1>3. \A i \in 1..(Len(s) - 1) : /\ i < k => t[i] = s[i] /\ i \in 1..Len(s)
                                 /\ i >= k => t[i] = s[i + 1] /\ i + 1 \in 1..Len(s)
  BY <1>1, <1>2
<1>4. ToSet(t) = ToSet(s) \ {s[k]}
  <2>1. ASSUME NEW i \in 1..(Len(s) - 1) PROVE \E j \in 1..Len(s) : j # k /\ t[i] = s[j]
    <3>1. CASE i < k
      BY <1>3, <3>1
    <3>2. CASE i >= k
      <4>1. i + 1 # k /\ i + 1 \in 1..Len(s) /\ t[i] = s[i + 1]
        BY <1>2, <1>3, <3>2
      <4> QED
        BY <4>1
    <3> QED
      BY <1>2, <3>1, <3>2
  <2>2. ASSUME NEW j \in 1..Len(s), j # k PROVE \E i \in 1..(Len(s) - 1) : t[i] = s[j]
    <3>1. CASE j < k
      <4>1. j \in 1..(Len(s) - 1)
        BY <1>2, <3>1
      <4> QED
        BY <1>3, <3>1, <4>1
    <3>2. CASE j > k
      <4>1. j - 1 \in 1..(Len(s) - 1) /\ j - 1 >= k /\ (j - 1) + 1 = j
        BY <1>2, <3>2
      <4>2. t[j - 1] = s[(j - 1) + 1]
        BY <1>3, <4>1
      <4> QED
        BY <4>1, <4>2
    <3> QED
      BY <1>2, <2>2, <3>1, <3>2
  <2>3. \A y \in ToSet(t) : y \in ToSet(s) /\ y # s[k]
    <3> SUFFICES ASSUME NEW i \in DOMAIN t PROVE t[i] \in ToSet(s) /\ t[i] # s[k]
      BY DEF ToSet
    <3>1. PICK j \in 1..Len(s) : j # k /\ t[i] = s[j]
      BY <1>2, <2>1
    <3> QED
      BY <1>2, <3>1 DEF ToSet
  <2>4. \A y \in ToSet(s) : y # s[k] => y \in ToSet(t)
    <3> SUFFICES ASSUME NEW j \in DOMAIN s, s[j] # s[k] PROVE s[j] \in ToSet(t)
      BY DEF ToSet
    <3>1. PICK i \in 1..(Len(s) - 1) : t[i] = s[j]
      BY <1>2, <2>2
    <3>2. i \in DOMAIN t
      BY <1>2
    <3> QED
      BY <3>1, <3>2 DEF ToSet
  <2> QED
    BY <2>3, <2>4
<1>5. IsInjective(t)
  <2> SUFFICES ASSUME NEW i \in 1..(Len(s) - 1), NEW j \in 1..(Len(s) - 1), t[i] = t[j]
               PROVE  i = j
    BY <1>2 DEF IsInjective
  <2>1. CASE i < k /\ j < k
    BY <1>2, <1>3, <2>1
  <2>2. CASE i >= k /\ j >= k
    <3>1. i + 1 = j + 1
      BY <1>2, <1>3, <2>2
    <3> QED
      BY <3>1
  <2>3. CASE i < k /\ j >= k
    <3>1. i = j + 1
      BY <1>2, <1>3, <2>3
    <3> QED
      BY <1>2, <2>3, <3>1
  <2>4. CASE i >= k /\ j < k
    <3>1. i + 1 = j
      BY <1>2, <1>3, <2>4
    <3> QED
      BY <1>2, <2>4, <3>1
  <2> QED
    BY <1>2, <2>1, <2>2, <2>3, <2>4
<1>6. ASSUME k # Len(s) PROVE Last(t) = Last(s)
  <2>0. Len(s) \in Nat /\ k \in Nat /\ 1 <= k /\ k < Len(s)
    <3>1. Len(s) \in Nat
      BY <1>2
    <3>2. \A m \in Nat : \A i \in 1..m : i # m => i \in Nat /\ 1 <= i /\ i < m
      OBVIOUS
    <3> QED
      BY <1>2, <1>6, <3>1, <3>2
  <2>1. Len(s) - 1 \in 1..(Len(s) - 1) /\ Len(s) - 1 >= k /\ (Len(s) - 1) + 1 = Len(s)
    BY <2>0
  <2>2. t[Len(s) - 1] = s[(Len(s) - 1) + 1]
    BY <1>3, <2>1
  <2> QED
    BY <1>1, <2>1, <2>2 DEF Last
<1>7. (CHOOSE i \in DOMAIN s : s[i] = s[k]) = k
  BY <1>2
<1> QED
  BY <1>1, <1>4, <1>5, <1>6, <1>7 DEF t

\* d and e differ in p and in the order of the pins of its node.
OnlyPinAt(d, e, p, v, order) ==
    /\ e \in Docs /\ OnlyStructure(d, e)
    /\ e.pins[p] = v /\ \A q \in Pins \ {p} : e.pins[q] = d.pins[q]
    /\ e.nodes[p[1]] # None /\ e.nodes[p[1]] = [d.nodes[p[1]] EXCEPT !.pins = order]
    /\ e.nodes[p[1]].pins = order /\ e.nodes[p[1]].schema = d.nodes[p[1]].schema
    /\ \A n \in Nodes \ {p[1]} : e.nodes[n] = d.nodes[n]

PinPut(d, p, v, order) == [d EXCEPT !.pins[p] = v, !.nodes[p[1]].pins = order]
PinPutLinks(d, p, v, order, links) ==
    [d EXCEPT !.pins[p] = v, !.nodes[p[1]].pins = order, !.links = links]

LEMMA PutPinNode ==
    ASSUME NEW d \in Docs, NEW p \in Pins, d.nodes[p[1]] # None,
           NEW v \in PinValues \cup {None}, NEW order \in Seq(Pins),
           NEW g, g = PinPut(d, p, v, order)
    PROVE  OnlyPinAt(d, g, p, v, order) /\ g.links = d.links
<1> DEFINE n == p[1]
           w == [d.nodes[n] EXCEPT !.pins = order]
           x == [d.nodes EXCEPT ![n] = w]
           y == [d.pins EXCEPT ![p] = v]
           e == [d EXCEPT !.nodes = x, !.pins = y]
<1>0. d \in Docs
  OBVIOUS
<1>1. n \in Nodes /\ d.nodes[n] \in NodeValues
  BY PartsAre DEF Pins
<1>2. w \in NodeValues /\ w.pins = order /\ w.schema = d.nodes[n].schema
  BY <1>1 DEF NodeValues
<1>3. w # None
  BY <1>2, NotNone
<1> HIDE DEF w
<1>4. /\ x \in [Nodes -> NodeValues \cup {None}] /\ x[n] = w
      /\ \A m \in Nodes \ {n} : x[m] = d.nodes[m]
  BY <1>1, <1>2, PartsAre
<1>5. /\ y \in [Pins -> PinValues \cup {None}] /\ y[p] = v
      /\ \A q \in Pins \ {p} : y[q] = d.pins[q]
  BY PartsAre
<1>6. g = e
  BY DEF Docs, w, PinPut
<1> HIDE DEF x, y
<1>7. OnlyStructure(d, e) /\ e.nodes = x /\ e.pins = y /\ e.links = d.links
  <2>1. x \in [Nodes -> NodeValues \cup {None}] /\ y \in [Pins -> PinValues \cup {None}]
    BY <1>4, <1>5
  <2> QED
    BY <2>1, <1>0 DEF Docs, OnlyStructure
<1> HIDE DEF e
<1> QED
  BY <1>2, <1>3, <1>4, <1>5, <1>6, <1>7 DEF OnlyPinAt, OnlyStructure, w

LEMMA PutPinNodeLinks ==
    ASSUME NEW d \in Docs, NEW p \in Pins, d.nodes[p[1]] # None,
           NEW v \in PinValues \cup {None}, NEW order \in Seq(Pins),
           NEW links \in [Links -> LinkValues \cup {None}],
           NEW g, g = PinPutLinks(d, p, v, order, links)
    PROVE  OnlyPinAt(d, g, p, v, order) /\ g.links = links
<1> DEFINE n == p[1]
           w == [d.nodes[n] EXCEPT !.pins = order]
           x == [d.nodes EXCEPT ![n] = w]
           y == [d.pins EXCEPT ![p] = v]
           f == [d EXCEPT !.nodes = x, !.pins = y, !.links = links]
<1>0. links \in [Links -> LinkValues \cup {None}] /\ d \in Docs
  OBVIOUS
<1>1. n \in Nodes /\ d.nodes[n] \in NodeValues
  BY PartsAre DEF Pins
<1>2. w \in NodeValues /\ w.pins = order /\ w.schema = d.nodes[n].schema
  BY <1>1 DEF NodeValues
<1>3. w # None
  BY <1>2, NotNone
<1> HIDE DEF w
<1>4. /\ x \in [Nodes -> NodeValues \cup {None}] /\ x[n] = w
      /\ \A m \in Nodes \ {n} : x[m] = d.nodes[m]
  BY <1>1, <1>2, PartsAre
<1>5. /\ y \in [Pins -> PinValues \cup {None}] /\ y[p] = v
      /\ \A q \in Pins \ {p} : y[q] = d.pins[q]
  BY PartsAre
<1>6. g = f
  BY DEF Docs, w, PinPutLinks
<1> HIDE DEF x, y
<1>7. OnlyStructure(d, f) /\ f.nodes = x /\ f.pins = y /\ f.links = links
  <2>1. x \in [Nodes -> NodeValues \cup {None}] /\ y \in [Pins -> PinValues \cup {None}]
    BY <1>4, <1>5
  <2> QED
    BY <2>1, <1>0 DEF Docs, OnlyStructure
<1> HIDE DEF f
<1> QED
  BY <1>2, <1>3, <1>4, <1>5, <1>6, <1>7 DEF OnlyPinAt, OnlyStructure, w

\* What a node is known to keep when its dynamic pins change.
LEMMA NodeRefitted ==
    ASSUME NEW d \in Docs, NEW e \in Docs, NEW n \in Nodes, d.nodes[n] # None,
           Fitted(d, n), e.nodes[n] # None, e.nodes[n].schema = d.nodes[n].schema,
           StaticOrder(e, n) = StaticOrder(d, n),
           \A p \in Pins : p \in ToSet(d.nodes[n].pins) /\ ~Dynamic(d.pins, p) => e.pins[p] = d.pins[p],
           d.nodes[n].schema # "narrow" => e.pins[Last(e.nodes[n].pins)].storage = "static"
    PROVE  Fitted(e, n)
<1> DEFINE pins == d.nodes[n].pins
           static == StaticOrder(d, n)
<1>1. pins \in Seq(Pins) /\ Len(pins) \in 0..Len(pins)
  BY PartsAre DEF NodeValues
<1>2. /\ static \in Seq(Pins)
      /\ \A i \in 1..Len(static) :
            \E k \in 1..Len(pins) : pins[k] = static[i] /\ ~Dynamic(d.pins, pins[k])
  BY <1>1, StaticMembers DEF StaticOrder
<1>3. \A p \in ToSet(static) : e.pins[p] = d.pins[p]
  <2> SUFFICES ASSUME NEW i \in 1..Len(static) PROVE e.pins[static[i]] = d.pins[static[i]]
    BY <1>2 DEF ToSet
  <2> HIDE DEF static
  <2>1. PICK k \in 1..Len(pins) : pins[k] = static[i] /\ ~Dynamic(d.pins, pins[k])
    BY <1>2
  <2>2. static[i] \in Pins /\ static[i] \in ToSet(pins)
    <3> HIDE DEF pins
    <3> QED
      BY <1>1, <2>1 DEF ToSet
  <2> QED
    BY <2>1, <2>2
<1> QED
  BY <1>3 DEF Fitted, MatchesDescriptor

\* A node of which no pin changed.
LEMMA NodeAside ==
    ASSUME NEW d \in Docs, NEW e \in Docs, NEW n \in Nodes, NodesGood(d), d.nodes[n] # None,
           e.nodes[n] = d.nodes[n],
           \A p \in ToSet(d.nodes[n].pins) : e.pins[p] = d.pins[p]
    PROVE  Held(e, n) /\ Fitted(e, n)
<1>1. Held(d, n) /\ Fitted(d, n)
  BY DEF NodesGood
<1>2. \A p \in ToSet(d.nodes[n].pins) : Alike(d.pins[p], e.pins[p])
  BY <1>1 DEF Held, Alike
<1> QED
  BY <1>1, <1>2, NodeFrame

\* A dynamic pin that is added, before a static one.
LEMMA PinAdded ==
    ASSUME NEW d \in Docs, NodesGood(d), NEW p \in Pins, d.nodes[p[1]] # None, d.pins[p] = None,
           p[2] \in DynamicKeys, NEW k \in 1..Len(d.nodes[p[1]].pins),
           NEW v \in PinValues, v.storage = "dynamic",
           NEW e, OnlyPinAt(d, e, p, v, InsertAt(d.nodes[p[1]].pins, k, p))
    PROVE  NodesGood(e)
<1> DEFINE n == p[1]
           pins == d.nodes[n].pins
           order == InsertAt(pins, k, p)
<1>1. /\ n \in Nodes /\ e \in Docs /\ pins \in Seq(Pins) /\ Len(pins) \in Nat
      /\ k \in 1..Len(pins) /\ k \in 1..(Len(pins) + 1)
  BY PartsAre DEF Pins, NodeValues, OnlyPinAt
<1>2. Held(d, n) /\ Fitted(d, n)
  BY <1>1 DEF NodesGood
<1>3. p \notin ToSet(pins)
  BY <1>2 DEF Held
<1>4. /\ e.nodes[n].pins = order /\ e.nodes[n] # None /\ e.nodes[n].schema = d.nodes[n].schema
      /\ e.pins[p] = v /\ v # None /\ \A q \in Pins \ {p} : e.pins[q] = d.pins[q]
      /\ \A m \in Nodes \ {n} : e.nodes[m] = d.nodes[m]
  BY NotNone DEF OnlyPinAt
<1> HIDE DEF n, pins
<1>5. /\ order \in Seq(Pins) /\ ToSet(order) = ToSet(pins) \cup {p}
      /\ IsInjective(order) /\ Last(order) = Last(pins)
      /\ Len(order) = Len(pins) + 1
  <2>1. IsInjective(pins)
    BY <1>2 DEF Held, pins, n
  <2> HIDE DEF order
  <2>2. order = InsertAt(pins, k, p) /\ p \in Pins
    BY DEF order
  <2> QED
    BY <1>1, <1>3, <2>1, <2>2, InsertedMembers
<1>7. ToSet(pins) \subseteq Pins \ {p}
  BY <1>1, <1>3 DEF ToSet
<1>8. \A i \in 1..Len(pins) : pins[i] \in Pins \ {p}
  BY <1>1, <1>7 DEF ToSet
<1> HIDE DEF order
<1>9. Fitted(e, n)
  <2>1. StaticOrder(e, n) = StaticOrder(d, n)
    <3>1. \A i \in 1..Len(pins) : Dynamic(d.pins, pins[i]) <=> Dynamic(e.pins, pins[i])
      BY <1>4, <1>8 DEF Dynamic
    <3>2. Dynamic(e.pins, p)
      BY <1>4 DEF Dynamic
    <3>3. StaticAmong(order, e.pins)[Len(pins) + 1] = StaticAmong(pins, d.pins)[Len(pins)]
      BY <1>1, <3>1, <3>2, StaticInsert DEF order
    <3> QED
      BY <1>4, <1>5, <3>3 DEF StaticOrder, pins
  <2>2. d.nodes[n].schema # "narrow" => e.pins[Last(order)].storage = "static"
    <3>1. d.nodes[n].schema # "narrow" => d.pins[Last(pins)].storage = "static"
      BY <1>2 DEF Fitted, pins
    <3>2. Last(pins) = pins[Len(pins)] /\ Len(pins) \in 1..Len(pins)
      BY <1>1 DEF Last
    <3>3. Last(pins) \in Pins \ {p}
      BY <1>8, <3>2
    <3> QED
      BY <1>4, <1>5, <3>1, <3>3
  <2> QED
    BY <1>1, <1>2, <1>4, <1>7, <2>1, <2>2, NodeRefitted DEF pins, n
<1>10. Held(e, n)
  BY <1>2, <1>4, <1>5, <1>7 DEF Held, pins, n
<1>11. ASSUME NEW m \in Nodes, e.nodes[m] # None, m # n PROVE Held(e, m) /\ Fitted(e, m)
  <2>1. d.nodes[m] # None /\ e.nodes[m] = d.nodes[m]
    BY <1>4, <1>11
  <2>2. \A q \in ToSet(d.nodes[m].pins) : q \in Pins /\ q # p
    <3>1. Held(d, m) /\ ToSet(d.nodes[m].pins) \subseteq Pins
      BY <2>1, PartsAre DEF NodesGood, NodeValues, ToSet
    <3> QED
      BY <1>11, <3>1 DEF Held, n
  <2> QED
    BY <1>1, <1>4, <2>1, <2>2, NodeAside
<1>12. ASSUME NEW q \in Pins, e.pins[q] # None PROVE Rooted(e, q)
  <2>1. CASE q = p
    BY <1>4, <1>5, <2>1 DEF Rooted, n
  <2>2. CASE q # p
    <3>1. Rooted(d, q) /\ e.pins[q] = d.pins[q] /\ q[1] \in Nodes
      BY <1>4, <1>12, <2>2 DEF NodesGood, Pins
    <3> QED
      BY <1>4, <1>5, <3>1 DEF Rooted, n, pins
  <2> QED
    BY <2>1, <2>2
<1> QED
  BY <1>9, <1>10, <1>11, <1>12 DEF NodesGood

\* A dynamic pin that is taken away.
LEMMA PinLost ==
    ASSUME NEW d \in Docs, NodesGood(d), NEW p \in Pins, d.nodes[p[1]] # None,
           NEW k \in 1..Len(d.nodes[p[1]].pins), d.nodes[p[1]].pins[k] = p,
           d.pins[p].storage = "dynamic",
           NEW e, OnlyPinAt(d, e, p, None, RemoveAt(d.nodes[p[1]].pins, k))
    PROVE  NodesGood(e)
<1> DEFINE n == p[1]
           pins == d.nodes[n].pins
           order == RemoveAt(pins, k)
<1>1. n \in Nodes /\ e \in Docs /\ pins \in Seq(Pins) /\ Len(pins) \in Nat
  BY PartsAre DEF Pins, NodeValues, OnlyPinAt
<1>2. Held(d, n) /\ Fitted(d, n)
  BY <1>1 DEF NodesGood
<1>4. /\ e.nodes[n].pins = order /\ e.nodes[n] # None /\ e.nodes[n].schema = d.nodes[n].schema
      /\ e.pins[p] = None /\ \A q \in Pins \ {p} : e.pins[q] = d.pins[q]
      /\ \A m \in Nodes \ {n} : e.nodes[m] = d.nodes[m]
  BY DEF OnlyPinAt
<1>3. k \in 1..Len(pins) /\ pins[k] = p
  OBVIOUS
<1> HIDE DEF n, pins
<1>5. /\ order \in Seq(Pins) /\ ToSet(order) = ToSet(pins) \ {p}
      /\ IsInjective(order)
      /\ k # Len(pins) => Last(order) = Last(pins)
  BY <1>1, <1>2, <1>3, RemovedMembers DEF Held, pins, n
<1>6. /\ Len(order) = Len(pins) - 1 /\ InsertAt(order, k, p) = pins
      /\ k \in 1..(Len(order) + 1) /\ Len(order) \in Nat
  <2>1. Len(order) = Len(pins) - 1 /\ InsertAt(order, k, pins[k]) = pins
    BY <1>1, <1>3, RemoveAtIs, RemoveThenInsert
  <2>2. Len(order) \in Nat
    BY <1>5
  <2> HIDE DEF order
  <2>3. Len(order) + 1 = Len(pins)
    BY <1>1, <2>1, <2>2
  <2> QED
    BY <1>3, <2>1, <2>2, <2>3
<1> HIDE DEF order
<1>7. ToSet(pins) \subseteq Pins
  BY <1>1 DEF ToSet
<1>8. \A i \in 1..Len(order) : order[i] \in Pins \ {p}
  BY <1>5, <1>7 DEF ToSet
<1>9. Fitted(e, n)
  <2>1. StaticOrder(e, n) = StaticOrder(d, n)
    <3>1. \A i \in 1..Len(order) : Dynamic(e.pins, order[i]) <=> Dynamic(d.pins, order[i])
      BY <1>4, <1>8 DEF Dynamic
    <3>2. Dynamic(d.pins, p)
      BY DEF Dynamic
    <3>3. StaticAmong(InsertAt(order, k, p), d.pins)[Len(order) + 1]
             = StaticAmong(order, e.pins)[Len(order)]
      BY <1>5, <1>6, <3>1, <3>2, StaticInsert
    <3>4. Len(order) + 1 = Len(pins)
      BY <1>1, <1>6
    <3> QED
      BY <1>4, <1>6, <3>3, <3>4 DEF StaticOrder, pins
  <2>2. ASSUME d.nodes[n].schema # "narrow" PROVE e.pins[Last(order)].storage = "static"
    <3>1. d.pins[Last(pins)].storage = "static"
      BY <1>2, <2>2 DEF Fitted, pins
    <3>2. Last(pins) = pins[Len(pins)]
      BY DEF Last
    <3>3. k # Len(pins)
      BY <1>3, <3>1, <3>2
    <3>4. Last(pins) \in Pins \ {p}
      <4>1. Len(pins) \in 1..Len(pins)
        BY <1>1, <1>3
      <4>2. Last(pins) \in Pins
        BY <1>1, <3>2, <4>1
      <4> QED
        BY <3>1, <4>2
    <3>5. e.pins[Last(pins)] = d.pins[Last(pins)]
      BY <1>4, <3>4
    <3>6. Last(order) = Last(pins)
      BY <1>5, <3>3
    <3> QED
      BY <3>1, <3>5, <3>6
  <2>3. \A q \in Pins : q \in ToSet(pins) /\ ~Dynamic(d.pins, q) => e.pins[q] = d.pins[q]
    BY <1>4 DEF Dynamic
  <2> QED
    BY <1>1, <1>2, <1>4, <2>1, <2>2, <2>3, NodeRefitted DEF pins, n
<1>10. Held(e, n)
  <2>1. \A q \in ToSet(order) : q \in Pins /\ q # p /\ q \in ToSet(pins)
    BY <1>5, <1>7
  <2>2. \A q \in ToSet(pins) : q[1] = n /\ d.pins[q] # None
    BY <1>2 DEF Held, pins
  <2> QED
    BY <1>4, <1>5, <2>1, <2>2 DEF Held
<1>11. ASSUME NEW m \in Nodes, e.nodes[m] # None, m # n PROVE Held(e, m) /\ Fitted(e, m)
  <2>1. d.nodes[m] # None /\ e.nodes[m] = d.nodes[m]
    BY <1>4, <1>11
  <2>2. \A q \in ToSet(d.nodes[m].pins) : q \in Pins /\ q # p
    <3>1. Held(d, m) /\ ToSet(d.nodes[m].pins) \subseteq Pins
      BY <2>1, PartsAre DEF NodesGood, NodeValues, ToSet
    <3> QED
      BY <1>11, <3>1 DEF Held, n
  <2> QED
    BY <1>1, <1>4, <2>1, <2>2, NodeAside
<1>12. ASSUME NEW q \in Pins, e.pins[q] # None PROVE Rooted(e, q)
  <2>1. q # p /\ Rooted(d, q) /\ e.pins[q] = d.pins[q] /\ q[1] \in Nodes
    BY <1>4, <1>12 DEF NodesGood, Pins
  <2> QED
    BY <1>4, <1>5, <2>1 DEF Rooted, n, pins
<1> QED
  BY <1>9, <1>10, <1>11, <1>12 DEF NodesGood

\* The dynamic pins of a node change, or change places with each other.
LEMMA PinsChanged ==
    ASSUME NEW d \in Docs, NEW e \in Docs, NEW n \in Nodes, d.nodes[n] # None,
           Held(d, n), Fitted(d, n), e.nodes[n] # None, e.nodes[n].schema = d.nodes[n].schema,
           Len(e.nodes[n].pins) = Len(d.nodes[n].pins),
           ToSet(e.nodes[n].pins) = ToSet(d.nodes[n].pins), IsInjective(e.nodes[n].pins),
           \A i \in 1..Len(d.nodes[n].pins) :
              /\ Dynamic(d.pins, d.nodes[n].pins[i]) <=> Dynamic(e.pins, e.nodes[n].pins[i])
              /\ ~Dynamic(d.pins, d.nodes[n].pins[i]) => e.nodes[n].pins[i] = d.nodes[n].pins[i],
           \A p \in ToSet(d.nodes[n].pins) : e.pins[p] # None,
           \A p \in Pins : p \in ToSet(d.nodes[n].pins) /\ ~Dynamic(d.pins, p) => e.pins[p] = d.pins[p]
    PROVE  Held(e, n) /\ Fitted(e, n)
<1> DEFINE pins == d.nodes[n].pins
           qins == e.nodes[n].pins
<1>1. pins \in Seq(Pins) /\ qins \in Seq(Pins) /\ Len(pins) \in Nat /\ Len(qins) = Len(pins)
  BY PartsAre DEF NodeValues
<1>2. \A i \in 1..Len(pins) : /\ Dynamic(d.pins, pins[i]) <=> Dynamic(e.pins, qins[i])
                              /\ ~Dynamic(d.pins, pins[i]) => pins[i] = qins[i]
  OBVIOUS
<1>3. Held(e, n)
  BY DEF Held
<1>4. StaticOrder(e, n) = StaticOrder(d, n)
  <2> HIDE DEF pins, qins
  <2>1. \A i \in 0..Len(pins) : StaticAmong(pins, d.pins)[i] = StaticAmong(qins, e.pins)[i]
    BY <1>1, <1>2, StaticSame
  <2>2. StaticAmong(pins, d.pins)[Len(pins)] = StaticAmong(qins, e.pins)[Len(pins)]
    BY <1>1, <2>1
  <2> QED
    BY <1>1, <2>2 DEF StaticOrder, pins, qins
<1>5. ASSUME d.nodes[n].schema # "narrow" PROVE e.pins[Last(qins)].storage = "static"
  <2>1. d.pins[Last(pins)].storage = "static"
    BY <1>5 DEF Fitted
  <2>2. Len(pins) \in 1..Len(pins)
    <3>1. StaticOrder(d, n) = [i \in DOMAIN ResolvePinSchema(d.nodes[n].schema).order |->
                                  <<n, ResolvePinSchema(d.nodes[n].schema).order[i]>>]
      BY DEF Fitted, MatchesDescriptor
    <3>2. d.nodes[n].schema \in SchemaNames
      BY PartsAre DEF NodeValues
    <3>3. 1 \in DOMAIN ResolvePinSchema(d.nodes[n].schema).order
      BY <3>2 DEF ResolvePinSchema, SchemaNames
    <3>4. StaticOrder(d, n) # <<>>
      BY <3>1, <3>3
    <3>5. StaticAmong(pins, d.pins)[0] = <<>>
      BY <1>1, StaticIs
    <3>6. Len(pins) # 0
      BY <3>4, <3>5 DEF StaticOrder
    <3> HIDE DEF pins
    <3> QED
      BY <1>1, <3>6
  <2> HIDE DEF pins, qins
  <2>3. Last(pins) = pins[Len(pins)] /\ Last(qins) = qins[Len(pins)]
    BY <1>1 DEF Last
  <2>4. Last(qins) = Last(pins) /\ Last(pins) \in Pins /\ Last(pins) \in ToSet(pins)
    BY <1>1, <1>2, <2>1, <2>2, <2>3 DEF Dynamic, ToSet
  <2> QED
    BY <2>1, <2>4 DEF Dynamic, pins
<1> QED
  BY <1>3, <1>4, <1>5, NodeRefitted

-----------------------------------------------------------------------------
(* Dynamic pins                                                            *)

LEMMA AddDynamicPinIs ==
    ASSUME NEW t \in Transactions, NEW p \in Pins, NEW pin \in PinValues, NEW k
    PROVE  LET x == AddDynamicPin(t, p, pin, k)
               d == t.now
           IN /\ x # None =>
                    /\ Follows(t, x)
                    /\ d.nodes[p[1]] # None /\ k \in 1..(Len(d.nodes[p[1]].pins) + 1)
                    /\ d.pins[p] = None
                    /\ OnlyPinAt(d, x.now, p, pin, InsertAt(d.nodes[p[1]].pins, k, p))
                    /\ x.now.links = d.links
                    /\ Permitted(t, d, x.now)
              /\ /\ ~t.enforce /\ d.nodes[p[1]] # None /\ d.pins[p] = None
                 /\ k \in 1..(Len(d.nodes[p[1]].pins) + 1)
                 => x # None
<1> DEFINE d == t.now
           n == p[1]
           order == InsertAt(d.nodes[n].pins, k, p)
           e == [d EXCEPT !.pins[p] = pin, !.nodes[p[1]].pins = order]
           x == AddDynamicPin(t, p, pin, k)
           There == d.nodes[n] # None /\ k \in 1..(Len(d.nodes[n].pins) + 1) /\ d.pins[p] = None
<1>0. d \in Docs /\ n \in Nodes /\ t # None
  BY NowIs DEF Pins
<1>1. x = IF ~GraphReadOnly(t) /\ ~NodeReadOnly(t, n) /\ There THEN Stage(t, e) ELSE None
  <2>1. There => e = [d EXCEPT !.pins[p] = pin, !.nodes[p[1]].pins = InsertAt(@, k, p)]
    <3>1. d.nodes \in [Nodes -> NodeValues \cup {None}]
      BY <1>0, PartsAre
    <3> QED
      BY <1>0, <3>1 DEF Docs, order
  <2> HIDE DEF e
  <2>2. InsertPin(d, p, pin, k) = IF There THEN e ELSE None
    BY <2>1 DEF InsertPin, When
  <2> HIDE DEF There
  <2>3. Stage(t, None) = None
    BY DEF Stage
  <2> QED
    BY <2>2, <2>3 DEF AddDynamicPin, When
<1>2. /\ ~GraphReadOnly(t) => OpenGraph(t)
      /\ ~NodeReadOnly(t, n) => FreeNode(t, n)
      /\ ~t.enforce => ~GraphReadOnly(t) /\ ~NodeReadOnly(t, n)
  BY ProtectionIs, FreeIs
<1>3. ASSUME There
      PROVE  OnlyPinAt(d, e, p, pin, order) /\ e.links = d.links /\ e \in Docs
  <2>1. order \in Seq(Pins)
    <3>1. d.nodes[n].pins \in Seq(Pins)
      BY <1>0, <1>3, PartsAre DEF NodeValues
    <3> QED
      BY <1>3, <3>1, InsertedMembers
  <2>2. d.links \in [Links -> LinkValues \cup {None}]
    BY <1>0, PartsAre
  <2> HIDE DEF order
  <2>4. e = PinPut(d, p, pin, order) /\ d.nodes[p[1]] # None
    BY <1>3 DEF PinPut
  <2> HIDE DEF e
  <2>3. OnlyPinAt(d, e, p, pin, order) /\ e.links = d.links
    BY <1>0, <2>1, <2>4, PutPinNode
  <2> QED
    BY <2>3 DEF OnlyPinAt
<1> HIDE DEF x, e
<1>4. ASSUME There, OpenGraph(t), FreeNode(t, n) PROVE Permitted(t, d, e)
  <2> HIDE DEF order
  <2> QED
    BY <1>3, <1>4 DEF Permitted, OnlyPinAt, OnlyStructure
<1>5. ASSUME There PROVE Stage(t, e) # None /\ Follows(t, Stage(t, e)) /\ Stage(t, e).now = e
  BY <1>3, <1>5, StageIs
<1>6. x # None => /\ Follows(t, x) /\ There /\ OnlyPinAt(d, x.now, p, pin, order)
                  /\ x.now.links = d.links /\ Permitted(t, d, x.now)
  <2> HIDE DEF There, order
  <2> QED
    BY <1>1, <1>2, <1>3, <1>4, <1>5
<1>7. ~t.enforce /\ There => x # None
  <2> HIDE DEF There
  <2> QED
    BY <1>1, <1>2, <1>5
<1> QED
  BY <1>6, <1>7 DEF x

LEMMA RemoveDynamicPinIs ==
    ASSUME NEW t \in Transactions, NEW p \in Pins, t.now.nodes[p[1]] # None,
           IsInjective(t.now.nodes[p[1]].pins),
           NEW k \in 1..Len(t.now.nodes[p[1]].pins), t.now.nodes[p[1]].pins[k] = p
    PROVE  LET x == RemoveDynamicPin(t, p)
               d == t.now
           IN /\ x # None =>
                    /\ Follows(t, x)
                    /\ d.pins[p] # None /\ d.pins[p].storage = "dynamic"
                    /\ OnlyPinAt(d, x.now, p, None, RemoveAt(d.nodes[p[1]].pins, k))
                    /\ \A l \in Links : x.now.links[l] = IF l \in IncidentLinks(d, p) THEN None ELSE d.links[l]
                    /\ Permitted(t, d, x.now)
              /\ ~t.enforce /\ d.pins[p] # None /\ d.pins[p].storage = "dynamic" => x # None
<1> DEFINE d == t.now
           n == p[1]
           order == RemoveAt(d.nodes[n].pins, k)
           links == [l \in Links |-> IF l \in IncidentLinks(d, p) THEN None ELSE d.links[l]]
           e == [d EXCEPT !.pins[p] = None, !.nodes[p[1]].pins = order, !.links = links]
           x == RemoveDynamicPin(t, p)
           There == d.pins[p] # None /\ d.pins[p].storage = "dynamic"
           Free == /\ ~GraphReadOnly(t) /\ ~EndpointReadOnly(t, p)
                   /\ t.enforce => \A l \in IncidentLinks(d, p) : CheckLinkRemoval(t, l)
<1>0. /\ d \in Docs /\ n \in Nodes /\ t # None
      /\ d.nodes[n].pins \in Seq(Pins) /\ d.links \in [Links -> LinkValues \cup {None}]
  BY NowIs, PartsAre DEF Pins, NodeValues
<1>1. x = IF Free /\ There THEN Stage(t, e) ELSE None
  <2>1. (CHOOSE i \in DOMAIN d.nodes[n].pins : d.nodes[n].pins[i] = p) = k
    <3>1. (CHOOSE i \in DOMAIN d.nodes[n].pins : d.nodes[n].pins[i] = d.nodes[n].pins[k]) = k
      BY <1>0, RemovedMembers
    <3> QED
      BY <3>1
  <2>2. e = [d EXCEPT !.pins[p] = None,
                      !.nodes[p[1]].pins = RemoveAt(@, CHOOSE i \in DOMAIN @ : @[i] = p),
                      !.links = [l \in Links |-> IF l \in IncidentLinks(d, p) THEN None ELSE @[l]]]
    <3>1. d.nodes \in [Nodes -> NodeValues \cup {None}]
      BY <1>0, PartsAre
    <3>2. order = RemoveAt(d.nodes[n].pins, CHOOSE i \in DOMAIN d.nodes[n].pins : d.nodes[n].pins[i] = p)
      BY <2>1
    <3> HIDE DEF order
    <3> QED
      BY <1>0, <3>1, <3>2 DEF Docs
  <2> HIDE DEF e
  <2>3. ErasePin(d, p) = IF There THEN e ELSE None
    BY <2>2 DEF ErasePin, When
  <2>4. Stage(t, None) = None
    BY DEF Stage
  <2>5. x = IF d.pins[p] # None /\ Free THEN Stage(t, ErasePin(d, p)) ELSE None
    BY DEF RemoveDynamicPin, When
  <2> HIDE DEF Free, x
  <2> QED
    BY <2>3, <2>4, <2>5
<1>2. OnlyPinAt(d, e, p, None, order) /\ e.links = links /\ e \in Docs
  <2>1. order \in Seq(Pins)
    BY <1>0, RemovedMembers
  <2>2. links \in [Links -> LinkValues \cup {None}]
    BY <1>0
  <2> HIDE DEF order, links
  <2>4. e = PinPutLinks(d, p, None, order, links)
    BY DEF PinPutLinks
  <2> HIDE DEF e
  <2>3. OnlyPinAt(d, e, p, None, order) /\ e.links = links
    <3>1. d.nodes[p[1]] # None
      OBVIOUS
    <3>2. \A v \in PinValues \cup {None} : \A y \in [Links -> LinkValues \cup {None}] :
             e = PinPutLinks(d, p, v, order, y) =>
                OnlyPinAt(d, e, p, v, order) /\ e.links = y
      BY <1>0, <2>1, <3>1, PutPinNodeLinks
    <3> QED
      BY <2>2, <2>4, <3>2
  <2> QED
    BY <2>3 DEF OnlyPinAt
<1> HIDE DEF e
<1>3. \A l \in Links : e.links[l] = IF l \in IncidentLinks(d, p) THEN None ELSE d.links[l]
  BY <1>2
<1> HIDE DEF x, order, links
<1>4. ASSUME Free PROVE Permitted(t, d, e)
  <2>1. OpenGraph(t) /\ FreeEnd(t, p)
    BY <1>4, ProtectionIs
  <2>2. ASSUME NEW l \in IncidentLinks(d, p)
        PROVE  FreeLink(t, l) /\ \A q \in Ends(d, l) : FreeEnd(t, q)
    <3>1. CASE t.enforce
      BY <1>4, <2>2, <3>1, ProtectionIs DEF CheckLinkRemoval, Ends
    <3>2. CASE ~t.enforce
      BY <3>2 DEF FreeLink, FreeEnd, FreePin, FreeNode
    <3> QED
      BY <3>1, <3>2
  <2> HIDE DEF Free
  <2> QED
    BY <1>2, <1>3, <2>1, <2>2 DEF Permitted, OnlyPinAt, OnlyStructure, FreeEnd
<1>5. Stage(t, e) # None /\ Follows(t, Stage(t, e)) /\ Stage(t, e).now = e
  BY <1>2, StageIs
<1>6. ~t.enforce => Free
  BY FreeIs
<1> HIDE DEF Free
<1>7. /\ x # None => /\ Follows(t, x) /\ There /\ OnlyPinAt(d, x.now, p, None, order)
                     /\ \A l \in Links : x.now.links[l] = IF l \in IncidentLinks(d, p) THEN None ELSE d.links[l]
                     /\ Permitted(t, d, x.now)
      /\ ~t.enforce /\ There => x # None
  <2> HIDE DEF There
  <2> QED
    BY <1>1, <1>2, <1>3, <1>4, <1>5, <1>6
<1> QED
  BY <1>7 DEF x, order

\* What is shown stays valid when elements go with what is shown of them.
LEMMA ShownLess ==
    ASSUME NEW d \in Docs, NEW e \in Docs, ValidPresentation(d),
           \A n \in Nodes : /\ e.node_states[n] \in {None, d.node_states[n]}
                            /\ e.node_states[n] # None => e.nodes[n] # None,
           \A l \in Links : /\ e.link_states[l] \in {None, d.link_states[l]}
                            /\ e.link_states[l] # None => e.links[l] # None,
           \A g \in Groups : e.groups[g] # None => \A n \in e.groups[g].members : e.nodes[n] # None
    PROVE  ValidPresentation(e)
<1>1. \A point \in Points : RoutePointOwner(e, point) \subseteq RoutePointOwner(d, point)
  BY DEF RoutePointOwner
<1> QED
  BY <1>1 DEF ValidPresentation

\* The links that are left when a pin is gone.
LEMMA LinksOfLostPin ==
    ASSUME NEW d \in Docs, NEW e \in Docs, LinksGood(d), NEW p \in Pins,
           \A q \in Pins \ {p} : e.pins[q] = d.pins[q],
           \A l \in Links : e.links[l] = IF l \in IncidentLinks(d, p) THEN None ELSE d.links[l]
    PROVE  LinksGood(e)
<1>1. \A l \in Links : e.links[l] \in {None, d.links[l]}
  OBVIOUS
<1>2. ASSUME NEW l \in Links, e.links[l] # None, NEW q \in Ends(e, l)
      PROVE  Alike(d.pins[q], e.pins[q])
  <2>1. e.links[l] = d.links[l] /\ l \notin IncidentLinks(d, p) /\ Joins(d, d.links[l])
    BY <1>2 DEF LinksGood
  <2>2. q # p
    BY <1>2, <2>1 DEF IncidentLinks, Ends
  <2>3. q \in Pins /\ d.pins[q] # None
    BY <1>2, <2>1, PartsAre DEF Ends, LinkValues, Joins
  <2> QED
    BY <2>2, <2>3 DEF Alike
<1> QED
  BY <1>1, <1>2, LinksErased

LEMMA AddPinUndoes ==
    ASSUME NEW d \in Docs, Good(d), NEW p \in Pins, d.nodes[p[1]] # None, p[2] \in DynamicKeys,
           NEW pin \in PinValues, pin.storage = "dynamic",
           NEW k \in 1..Len(d.nodes[p[1]].pins)
    PROVE  Undoes(d, [kind |-> "add_pin", pin |-> p, instance |-> pin, index |-> k])
<1> DEFINE c == [kind |-> "add_pin", pin |-> p, instance |-> pin, index |-> k]
           b == Begin(d, TRUE)
           t == Executed(d, c)
           e == Led(d, c)
           f == Begin(e, FALSE)
           u == TakenBack(d, c)
           pins == d.nodes[p[1]].pins
           order == InsertAt(pins, k, p)
<1>1. t = AddDynamicPin(b, p, pin, k) /\ u = RemoveDynamicPin(f, p)
  BY DEF Executed, TakenBack, Apply, Revert
<1>2. /\ p[1] \in Nodes /\ pins \in Seq(Pins) /\ Len(pins) \in Nat /\ k \in 1..Len(pins)
      /\ k \in 1..(Len(pins) + 1)
  BY PartsAre DEF NodeValues, Pins
<1>3. b \in Transactions /\ b.now = d
  BY ExecutedIs
<1>4. NodesGood(d) /\ LinksGood(d) /\ ValidPresentation(d)
  BY GoodFrom
<1> HIDE DEF c
<1> SUFFICES ASSUME t # None
             PROVE  /\ e \in Docs /\ Good(e) /\ Permitted(b, d, e)
                    /\ u \in Transactions /\ u.now = d
  <2>1. Undoes(d, c)
    BY PermittedUndoes DEF Changes
  <2> QED
    BY <2>1 DEF c
<1> HIDE DEF b
<1>5. /\ d.pins[p] = None /\ OnlyPinAt(d, e, p, pin, order) /\ e.links = d.links
      /\ Permitted(b, d, e)
  <2> HIDE DEF t
  <2> QED
    BY <1>1, <1>3, AddDynamicPinIs DEF Led, t
<1> HIDE DEF e, t
<1>6. e \in Docs
  BY <1>5 DEF OnlyPinAt
<1>7. Good(e)
  <2>1. NodesGood(e)
    BY <1>4, <1>5, PinAdded
  <2>2. LinksGood(e)
    <3>1. \A l \in Links : e.links[l] # None => \A q \in Ends(e, l) : Alike(d.pins[q], e.pins[q])
      <4> SUFFICES ASSUME NEW l \in Links, e.links[l] # None, NEW q \in Ends(e, l)
                   PROVE  Alike(d.pins[q], e.pins[q])
        OBVIOUS
      <4>1. d.pins[q] # None /\ q \in Pins
        <5>1. Joins(d, d.links[l]) /\ d.links[l] \in LinkValues
          BY <1>4, <1>5, PartsAre DEF LinksGood
        <5> QED
          BY <1>5, <5>1 DEF Joins, Ends, LinkValues
      <4> QED
        BY <1>5, <4>1 DEF OnlyPinAt, Alike
    <3> QED
      BY <1>4, <1>5, <1>6, <3>1, LinksErased
  <2>3. ValidPresentation(e)
    <3>1. \A n \in Nodes : d.nodes[n] # None => e.nodes[n] # None
      BY <1>5 DEF OnlyPinAt
    <3> QED
      BY <1>4, <1>5, <1>6, <3>1, ShownStill DEF OnlyPinAt
  <2> QED
    BY <1>6, <2>1, <2>2, <2>3, GoodFrom
<1>8. f \in Transactions /\ f.now = e /\ ~f.enforce
  BY <1>6, RevertedIs
<1>9. /\ order \in Seq(Pins) /\ order[k] = p /\ IsInjective(order)
      /\ k \in 1..Len(order) /\ RemoveAt(order, k) = pins
  <2>1. /\ order \in Seq(Pins) /\ order[k] = p /\ Len(order) = Len(pins) + 1
        /\ RemoveAt(order, k) = pins
    <3> HIDE DEF pins
    <3> QED
      BY <1>2, InsertedMembers, InsertThenRemove
  <2>2. IsInjective(pins) /\ p \notin ToSet(pins)
    BY <1>2, <1>4, <1>5 DEF NodesGood, Held
  <2>3. IsInjective(order)
    BY <1>2, <2>2, InsertedMembers
  <2> QED
    BY <1>2, <2>1, <2>3
<1>10. e.nodes[p[1]] # None /\ e.nodes[p[1]].pins = order /\ e.pins[p] = pin /\ pin # None
  BY <1>5, NotNone DEF OnlyPinAt
<1> HIDE DEF f, u, order
<1>11. /\ u # None /\ Follows(f, u) /\ OnlyPinAt(e, u.now, p, None, pins)
       /\ \A l \in Links : u.now.links[l] = IF l \in IncidentLinks(e, p) THEN None ELSE e.links[l]
  BY <1>1, <1>8, <1>9, <1>10, RemoveDynamicPinIs
<1>12. IncidentLinks(e, p) = {}
  <2>1. IncidentLinks(d, p) = {}
    BY <1>4, <1>5 DEF LinksGood, IncidentLinks, Joins
  <2> QED
    BY <1>5, <2>1 DEF IncidentLinks
<1>13. u.now = d
  <2>1. u.now \in Docs /\ OnlyStructure(d, u.now)
    BY <1>5, <1>11 DEF OnlyPinAt, OnlyStructure
  <2>2. u.now.links = d.links
    <3>1. \A l \in Links : u.now.links[l] = d.links[l]
      BY <1>5, <1>11, <1>12
    <3> QED
      BY <2>1, <3>1, PartsAre
  <2>3. u.now.pins = d.pins
    <3>1. \A q \in Pins : u.now.pins[q] = d.pins[q]
      BY <1>5, <1>11 DEF OnlyPinAt
    <3> QED
      BY <2>1, <3>1, PartsAre
  <2>4. u.now.nodes = d.nodes
    <3>1. u.now.nodes[p[1]] = d.nodes[p[1]]
      <4>1. d.nodes[p[1]] \in NodeValues
        BY <1>2, PartsAre
      <4>2. u.now.nodes[p[1]] = [[d.nodes[p[1]] EXCEPT !.pins = order] EXCEPT !.pins = pins]
        BY <1>5, <1>11 DEF OnlyPinAt
      <4> QED
        BY <4>1, <4>2 DEF NodeValues
    <3>2. \A n \in Nodes : u.now.nodes[n] = d.nodes[n]
      BY <1>5, <1>11, <3>1 DEF OnlyPinAt
    <3> QED
      BY <2>1, <3>2, PartsAre
  <2> QED
    BY <2>1, <2>2, <2>3, <2>4, SameDocument DEF OnlyStructure
<1> QED
  BY <1>5, <1>6, <1>7, <1>8, <1>11, <1>13 DEF Follows, OnlyPinAt

LEMMA RemovePinUndoes ==
    ASSUME NEW d \in Docs, Good(d), NEW p \in Pins, d.pins[p] # None
    PROVE  Undoes(d, [kind |-> "remove_pin", pin |-> p])
<1> DEFINE c == [kind |-> "remove_pin", pin |-> p]
           b == Begin(d, TRUE)
           t == Executed(d, c)
           e == Led(d, c)
           f == Begin(e, FALSE)
           u == TakenBack(d, c)
           n == p[1]
           pins == d.nodes[n].pins
           k == CHOOSE i \in DOMAIN pins : pins[i] = p
           S == IncidentLinks(d, p)
           order == RemoveAt(pins, k)
           old == d.pins[p]
           x == RemoveDynamicPin(b, p)
           v == AddDynamicPin(f, p, old, k)
           saved == Capture(d, c)
<1>1. /\ t = IF x = None THEN None ELSE ClearLinks(x, S)
      /\ u = IF v = None THEN None ELSE RestoreLinks(v, Snapshot(d, S))
  <2>1. saved.pin = old /\ saved.index = k /\ saved.links = Snapshot(d, S)
    BY DEF Capture, CaptureRemovePin
  <2>2. DOMAIN Snapshot(d, S) = S
    BY DEF Snapshot
  <2>3. c.pin = p
    OBVIOUS
  <2>4. t = ApplyRemovePin(b, c, saved) /\ u = RevertRemovePin(f, c, saved)
    <3> HIDE DEF b, f, x, v, old, k, S
    <3> QED
      BY DEF Executed, TakenBack, Apply, Revert, b, f, saved
  <2> HIDE DEF saved, k, S, old, b, f, c, t, u
  <2> QED
    BY <2>1, <2>2, <2>3, <2>4 DEF ApplyRemovePin, RevertRemovePin, Then
<1> HIDE DEF saved, c
<1>2. b \in Transactions /\ b.now = d
  BY ExecutedIs
<1>3. NodesGood(d) /\ LinksGood(d) /\ ValidPresentation(d)
  BY GoodFrom
<1>4. /\ n \in Nodes /\ d.nodes[n] # None /\ pins \in Seq(Pins) /\ Len(pins) \in Nat
      /\ Held(d, n) /\ IsInjective(pins) /\ p \in ToSet(pins)
      /\ S \in SUBSET Links /\ \A l \in S : d.links[l] # None
  <2>1. n \in Nodes /\ Rooted(d, p)
    BY <1>3 DEF NodesGood, Pins
  <2>2. d.nodes[n] # None /\ p \in ToSet(pins)
    BY <2>1 DEF Rooted
  <2>3. Held(d, n) /\ pins \in Seq(Pins)
    BY <1>3, <2>1, <2>2, PartsAre DEF NodesGood, NodeValues
  <2> QED
    BY <2>1, <2>2, <2>3 DEF Held, IncidentLinks
<1>5. k \in 1..Len(pins) /\ pins[k] = p
  <2> HIDE DEF pins
  <2> QED
    BY <1>4 DEF ToSet
<1> HIDE DEF k
<1>6. /\ order \in Seq(Pins) /\ InsertAt(order, k, p) = pins
      /\ k \in 1..(Len(order) + 1)
  <2> HIDE DEF pins
  <2>1. order \in Seq(Pins) /\ Len(order) = Len(pins) - 1 /\ InsertAt(order, k, pins[k]) = pins
    BY <1>4, <1>5, RemoveAtIs, RemoveThenInsert
  <2> HIDE DEF order
  <2>2. Len(order) + 1 = Len(pins)
    BY <1>4, <1>5, <2>1
  <2> QED
    BY <1>5, <2>1, <2>2
<1> SUFFICES ASSUME t # None
             PROVE  /\ e \in Docs /\ Good(e) /\ Permitted(b, d, e)
                    /\ u \in Transactions /\ u.now = d
  <2>1. Undoes(d, c)
    BY PermittedUndoes DEF Changes
  <2> QED
    BY <2>1 DEF c
<1> HIDE DEF b
<1>7. /\ x # None /\ Follows(b, x) /\ old # None /\ old.storage = "dynamic"
      /\ OnlyPinAt(d, x.now, p, None, order)
      /\ \A l \in Links : x.now.links[l] = IF l \in S THEN None ELSE d.links[l]
      /\ Permitted(b, d, x.now)
  <2>1. x # None
    <3> HIDE DEF x, t
    <3> QED
      BY <1>1
  <2> HIDE DEF order
  <2> QED
    BY <1>2, <1>4, <1>5, <2>1, RemoveDynamicPinIs DEF order
<1> HIDE DEF order, S
<1>8. x \in Transactions /\ x.now \in Docs
  BY <1>7 DEF Follows, OnlyPinAt
<1> HIDE DEF x
<1>9. /\ Follows(x, t) /\ OnlyLinkStates(x.now, e) /\ Permitted(x, x.now, e)
      /\ \A l \in Links : e.link_states[l] = IF l \in S THEN None ELSE x.now.link_states[l]
  <2> HIDE DEF t
  <2> QED
    BY <1>1, <1>4, <1>7, <1>8, ClearLinksIs DEF Led, t
<1> HIDE DEF e, t
<1>10. Permitted(b, d, e)
  <2>1. Permitted(b, x.now, e)
    BY <1>2, <1>7, <1>9, PermittedIs
  <2> QED
    BY <1>7, <2>1, PermittedOn
<1>11. /\ e \in Docs /\ OnlyPinAt(d, x.now, p, None, order)
       /\ e.nodes = x.now.nodes /\ e.pins = x.now.pins /\ e.links = x.now.links
       /\ e.read_only = d.read_only /\ e.node_states = d.node_states /\ e.groups = d.groups
       /\ \A l \in Links : e.link_states[l] = IF l \in S THEN None ELSE d.link_states[l]
       /\ \A l \in Links : e.links[l] = IF l \in S THEN None ELSE d.links[l]
  BY <1>7, <1>9 DEF OnlyPinAt, OnlyLinkStates, OnlyStructure
<1>12. Good(e)
  <2>1. NodesGood(x.now)
    BY <1>3, <1>4, <1>5, <1>7, PinLost DEF order
  <2>2. NodesGood(e)
    BY <1>8, <1>11, <2>1, NodesSame
  <2>3. LinksGood(e)
    <3>1. \A q \in Pins \ {p} : e.pins[q] = d.pins[q]
      BY <1>11 DEF OnlyPinAt
    <3> QED
      BY <1>3, <1>11, <3>1, LinksOfLostPin DEF S
  <2>4. ValidPresentation(e)
    <3>1. \A m \in Nodes : d.nodes[m] # None => e.nodes[m] # None
      BY <1>11 DEF OnlyPinAt
    <3>2. \A m \in Nodes : /\ e.node_states[m] \in {None, d.node_states[m]}
                           /\ e.node_states[m] # None => e.nodes[m] # None
      BY <1>3, <1>11, <3>1 DEF ValidPresentation
    <3>3. \A l \in Links : /\ e.link_states[l] \in {None, d.link_states[l]}
                           /\ e.link_states[l] # None => e.links[l] # None
      BY <1>3, <1>11 DEF ValidPresentation
    <3>4. \A g \in Groups : e.groups[g] # None => \A m \in e.groups[g].members : e.nodes[m] # None
      <4>1. \A g \in Groups : d.groups[g] # None => d.groups[g].members \subseteq Nodes
        BY PartsAre DEF GroupValues
      <4> QED
        BY <1>3, <1>11, <3>1, <4>1 DEF ValidPresentation
    <3> QED
      BY <1>3, <1>11, <3>2, <3>3, <3>4, ShownLess
  <2> QED
    BY <1>11, <2>2, <2>3, <2>4, GoodFrom
<1>13. f \in Transactions /\ f.now = e /\ ~f.enforce
  BY <1>11, RevertedIs
<1> HIDE DEF f
<1>14. old \in PinValues
  BY <1>7, PartsAre
<1>15. /\ e.nodes[n] # None /\ e.nodes[n].pins = order /\ e.pins[p] = None
       /\ e.nodes[n] = [d.nodes[n] EXCEPT !.pins = order]
  BY <1>11 DEF OnlyPinAt
<1> HIDE DEF old, u, pins
<1>16. /\ v # None /\ Follows(f, v) /\ OnlyPinAt(e, v.now, p, old, pins)
       /\ v.now.links = e.links
  <2>1. /\ f.now.nodes[p[1]] # None /\ f.now.pins[p] = None
        /\ k \in 1..(Len(f.now.nodes[p[1]].pins) + 1)
        /\ InsertAt(f.now.nodes[p[1]].pins, k, p) = pins
    BY <1>6, <1>13, <1>15
  <2>2. v = AddDynamicPin(f, p, old, k)
    OBVIOUS
  <2> HIDE DEF v, n
  <2>3. v # None
    BY <1>13, <1>14, <2>1, <2>2, AddDynamicPinIs
  <2> QED
    BY <1>13, <1>14, <2>1, <2>2, <2>3, AddDynamicPinIs
<1>17. v \in Transactions /\ v.now \in Docs /\ ~v.enforce
  BY <1>13, <1>16 DEF Follows, OnlyPinAt
<1> HIDE DEF v
<1>18. v.now.pins = d.pins
  <2>1. \A q \in Pins : v.now.pins[q] = d.pins[q]
    BY <1>11, <1>16 DEF OnlyPinAt, old
  <2> QED
    BY <1>17, <2>1, PartsAre
<1>19. v.now.nodes = d.nodes
  <2>1. v.now.nodes[n] = d.nodes[n]
    <3>1. d.nodes[n] \in NodeValues
      BY <1>4, PartsAre
    <3>2. v.now.nodes[n] = [[d.nodes[n] EXCEPT !.pins = order] EXCEPT !.pins = pins]
      BY <1>15, <1>16 DEF OnlyPinAt
    <3> QED
      BY <3>1, <3>2 DEF NodeValues, pins
  <2>2. \A m \in Nodes : v.now.nodes[m] = d.nodes[m]
    BY <1>11, <1>16, <2>1 DEF OnlyPinAt
  <2> QED
    BY <1>17, <2>2, PartsAre
<1>20. /\ \A l \in Links : v.now.links[l] = IF l \in S THEN None ELSE d.links[l]
       /\ \A l \in Links : v.now.link_states[l] = IF l \in S THEN None ELSE d.link_states[l]
       /\ v.now.read_only = d.read_only /\ v.now.node_states = d.node_states
       /\ v.now.groups = d.groups
  BY <1>11, <1>16 DEF OnlyPinAt, OnlyStructure
<1>21. /\ u # None /\ u \in Transactions /\ u.now \in Docs
       /\ u.now.links = d.links /\ u.now.link_states = d.link_states
       /\ u.now.read_only = v.now.read_only /\ u.now.nodes = v.now.nodes
       /\ u.now.pins = v.now.pins /\ u.now.node_states = v.now.node_states
       /\ u.now.groups = v.now.groups
  <2>1. u = RestoreLinks(v, Snapshot(d, S))
    BY <1>1, <1>16
  <2> QED
    BY <1>4, <1>17, <1>18, <1>20, <2>1, RestoreLinksIs
<1>22. u.now = d
  BY <1>18, <1>19, <1>20, <1>21, SameDocument
<1> QED
  BY <1>10, <1>11, <1>12, <1>21, <1>22

LEMMA UpdateDynamicPinIs ==
    ASSUME NEW t \in Transactions, NEW p \in Pins, NEW pin \in PinValues
    PROVE  LET x == UpdateDynamicPin(t, p, pin)
               d == t.now
               free == [d.pins[p] EXCEPT !.read_only = pin.read_only] # pin => IncidentLinks(d, p) = {}
           IN /\ x # None =>
                    /\ Follows(t, x) /\ OnlyPin(d, x.now, p) /\ x.now.pins[p] = pin
                    /\ d.pins[p] # None /\ d.pins[p].storage = "dynamic" /\ pin.storage = "dynamic"
                    /\ free
                    /\ Permitted(t, d, x.now)
              /\ /\ ~t.enforce /\ free /\ d.pins[p] # None
                 /\ d.pins[p].storage = "dynamic" /\ pin.storage = "dynamic"
                 => x # None
<1> DEFINE d == t.now
           free == [d.pins[p] EXCEPT !.read_only = pin.read_only] # pin => IncidentLinks(d, p) = {}
           There == /\ d.pins[p] # None
                    /\ d.pins[p].storage = "dynamic" /\ pin.storage = "dynamic"
                    /\ free
           Free == /\ ~GraphReadOnly(t) /\ ~EndpointReadOnly(t, p)
                   /\ t.enforce => d.pins[p].read_only = pin.read_only
           e == [d EXCEPT !.pins[p] = pin]
           x == UpdateDynamicPin(t, p, pin)
<1>0. d \in Docs
  BY NowIs
<1>1. x = IF Free /\ There THEN Stage(t, e) ELSE None
  <2>1. ReplacePin(d, p, pin) = IF There THEN e ELSE None
    BY DEF ReplacePin, When
  <2>2. Stage(t, None) = None
    BY DEF Stage
  <2>3. x = IF d.pins[p] # None /\ Free THEN Stage(t, ReplacePin(d, p, pin)) ELSE None
    BY DEF UpdateDynamicPin, When
  <2> HIDE DEF Free, x, free, e
  <2> QED
    BY <2>1, <2>2, <2>3
<1>2. OnlyPin(d, e, p) /\ e \in Docs /\ e.pins[p] = pin
  BY <1>0, PutPin DEF OnlyPin
<1>3. Stage(t, e) # None /\ Follows(t, Stage(t, e)) /\ Stage(t, e).now = e
  <2> HIDE DEF e
  <2> QED
    BY <1>2, StageIs
<1>4. ASSUME Free PROVE Permitted(t, d, e)
  <2>1. OpenGraph(t) /\ FreeEnd(t, p)
    BY <1>4, ProtectionIs
  <2> HIDE DEF e, Free
  <2> QED
    BY <1>2, <2>1 DEF Permitted, OnlyPin, OnlyStructure
<1>5. ~t.enforce => Free
  BY FreeIs
<1> HIDE DEF Free, x, e, free
<1>6. /\ x # None => /\ Follows(t, x) /\ OnlyPin(d, x.now, p) /\ x.now.pins[p] = pin
                     /\ There /\ Permitted(t, d, x.now)
      /\ ~t.enforce /\ There => x # None
  <2> HIDE DEF There
  <2> QED
    BY <1>1, <1>2, <1>3, <1>4, <1>5
<1> QED
  BY <1>6 DEF x, free

\* Pins that are all there, with the static ones where they were.
LEMMA NodesRefitted ==
    ASSUME NEW d \in Docs, NEW e \in Docs, NodesGood(d),
           \A n \in Nodes : e.nodes[n] = None <=> d.nodes[n] = None,
           \A n \in Nodes : d.nodes[n] # None => Held(e, n) /\ Fitted(e, n),
           \A n \in Nodes : d.nodes[n] # None => ToSet(e.nodes[n].pins) = ToSet(d.nodes[n].pins),
           \A p \in Pins : e.pins[p] # None => d.pins[p] # None /\ e.pins[p].storage = d.pins[p].storage
    PROVE  NodesGood(e)
<1>1. ASSUME NEW p \in Pins, e.pins[p] # None PROVE Rooted(e, p)
  <2>1. Rooted(d, p) /\ p[1] \in Nodes
    BY <1>1 DEF NodesGood, Pins
  <2> QED
    BY <1>1, <2>1 DEF Rooted
<1> QED
  BY <1>1 DEF NodesGood

LEMMA UpdatePinUndoes ==
    ASSUME NEW d \in Docs, Good(d), NEW p \in Pins, d.pins[p] # None, NEW pin \in PinValues
    PROVE  Undoes(d, [kind |-> "update_pin", pin |-> p, instance |-> pin])
<1> DEFINE c == [kind |-> "update_pin", pin |-> p, instance |-> pin]
           b == Begin(d, TRUE)
           t == Executed(d, c)
           e == Led(d, c)
           f == Begin(e, FALSE)
           u == TakenBack(d, c)
           old == d.pins[p]
<1>1. t = UpdateDynamicPin(b, p, pin) /\ u = UpdateDynamicPin(f, p, old)
  BY DEF Executed, TakenBack, Apply, Revert, Capture
<1>2. old \in PinValues
  BY PartsAre
<1>3. b \in Transactions /\ b.now = d
  BY ExecutedIs
<1>4. NodesGood(d) /\ LinksGood(d) /\ ValidPresentation(d)
  BY GoodFrom
<1> HIDE DEF c
<1> SUFFICES ASSUME t # None
             PROVE  /\ e \in Docs /\ Good(e) /\ Permitted(b, d, e)
                    /\ u \in Transactions /\ u.now = d
  <2>1. Undoes(d, c)
    BY PermittedUndoes DEF Changes
  <2> QED
    BY <2>1 DEF c
<1> HIDE DEF b
<1>5. /\ OnlyPin(d, e, p) /\ e.pins[p] = pin /\ old.storage = "dynamic" /\ pin.storage = "dynamic"
      /\ [old EXCEPT !.read_only = pin.read_only] # pin => IncidentLinks(d, p) = {}
      /\ Permitted(b, d, e)
  <2> HIDE DEF t
  <2> QED
    BY <1>1, <1>3, UpdateDynamicPinIs DEF Led, t
<1> HIDE DEF e, t, old
<1>6. /\ e \in Docs /\ e.nodes = d.nodes /\ e.links = d.links
      /\ \A q \in Pins \ {p} : e.pins[q] = d.pins[q]
      /\ pin # None /\ OnlyStructure(d, e)
  BY <1>5, NotNone DEF OnlyPin
<1>7. Good(e)
  <2>1. NodesGood(e)
    <3>1. ASSUME NEW n \in Nodes, d.nodes[n] # None PROVE Held(e, n) /\ Fitted(e, n)
      <4>1. Held(d, n) /\ Fitted(d, n)
        BY <1>4, <3>1 DEF NodesGood
      <4>2. \A q \in Pins : Dynamic(d.pins, q) <=> Dynamic(e.pins, q)
        BY <1>5, <1>6 DEF Dynamic, old
      <4>3. \A i \in 1..Len(d.nodes[n].pins) : d.nodes[n].pins[i] \in Pins
        <5>1. d.nodes[n].pins \in Seq(Pins)
          BY <3>1, PartsAre DEF NodeValues
        <5> QED
          BY <5>1
      <4>4. \A q \in ToSet(d.nodes[n].pins) : e.pins[q] # None
        <5>1. ToSet(d.nodes[n].pins) \subseteq Pins
          BY <3>1, PartsAre DEF NodeValues, ToSet
        <5> QED
          BY <1>5, <1>6, <4>1, <5>1 DEF Held
      <4>5. \A q \in Pins : q \in ToSet(d.nodes[n].pins) /\ ~Dynamic(d.pins, q) => e.pins[q] = d.pins[q]
        BY <1>5, <1>6 DEF Dynamic, old
      <4> QED
        BY <1>6, <3>1, <4>1, <4>2, <4>3, <4>4, <4>5, PinsChanged DEF Held
    <3>2. \A q \in Pins : e.pins[q] # None => d.pins[q] # None /\ e.pins[q].storage = d.pins[q].storage
      BY <1>5, <1>6 DEF old
    <3> QED
      BY <1>4, <1>6, <3>1, <3>2, NodesRefitted
  <2>2. LinksGood(e)
    <3>1. ASSUME NEW l \in Links, e.links[l] # None, NEW q \in Ends(e, l)
          PROVE  Alike(d.pins[q], e.pins[q])
      <4>1. e.links[l] = d.links[l] /\ Joins(d, d.links[l])
        BY <1>4, <1>6, <3>1 DEF LinksGood
      <4>2. q \in Pins /\ d.pins[q] # None /\ l \in IncidentLinks(d, q)
        BY <3>1, <4>1, PartsAre DEF Ends, LinkValues, Joins, IncidentLinks
      <4>3. CASE q # p
        BY <1>6, <4>2, <4>3 DEF Alike
      <4>4. CASE q = p
        <5>1. [old EXCEPT !.read_only = pin.read_only] = pin
          BY <1>5, <4>2, <4>4
        <5>2. /\ pin.direction = old.direction /\ pin.type = old.type
              /\ pin.single = old.single /\ pin.storage = old.storage
          BY <1>2, <5>1 DEF PinValues
        <5> QED
          BY <1>5, <1>6, <4>4, <5>2 DEF Alike, old
      <4> QED
        BY <4>3, <4>4
    <3> QED
      BY <1>4, <1>6, <3>1, LinksErased
  <2>3. ValidPresentation(e)
    BY <1>4, <1>6, ShownStill
  <2> QED
    BY <1>6, <2>1, <2>2, <2>3, GoodFrom
<1>8. f \in Transactions /\ f.now = e /\ ~f.enforce
  BY <1>6, RevertedIs
<1>9. [pin EXCEPT !.read_only = old.read_only] # old => IncidentLinks(e, p) = {}
  <2>1. IncidentLinks(e, p) = IncidentLinks(d, p)
    BY <1>6 DEF IncidentLinks
  <2>2. [old EXCEPT !.read_only = pin.read_only] = pin => [pin EXCEPT !.read_only = old.read_only] = old
    BY <1>2 DEF PinValues
  <2> QED
    BY <1>5, <2>1, <2>2
<1> HIDE DEF f, u
<1>10. u # None /\ Follows(f, u) /\ OnlyPin(e, u.now, p) /\ u.now.pins[p] = old
  BY <1>1, <1>2, <1>5, <1>6, <1>8, <1>9, UpdateDynamicPinIs
<1>11. OnlyPin(d, u.now, p)
  BY <1>5, <1>10 DEF OnlyPin, OnlyStructure
<1>12. u.now = d
  BY <1>10, <1>11, OnlyOneIs DEF old
<1> QED
  BY <1>5, <1>6, <1>7, <1>8, <1>10, <1>12 DEF Follows, OnlyPin

\* The order of the pins of a node, which leaves the static ones where they are.
Orders(d, n, order) ==
    /\ d.nodes[n] # None /\ Len(order) = Len(d.nodes[n].pins)
    /\ ToSet(order) = ToSet(d.nodes[n].pins)
    /\ \A i \in 1..Len(d.nodes[n].pins) :
          ~Dynamic(d.pins, d.nodes[n].pins[i]) => order[i] = d.nodes[n].pins[i]

LEMMA ReorderDynamicPinsIs ==
    ASSUME NEW t \in Transactions, NEW n \in Nodes, NEW order \in Seq(Pins), NodesGood(t.now)
    PROVE  LET x == ReorderDynamicPins(t, n, order)
               d == t.now
           IN /\ x # None =>
                    /\ Follows(t, x) /\ OnlyNode(d, x.now, n) /\ Orders(d, n, order)
                    /\ x.now.nodes[n] = [d.nodes[n] EXCEPT !.pins = order]
                    /\ Permitted(t, d, x.now)
              /\ ~t.enforce /\ Orders(d, n, order) => x # None
<1> DEFINE d == t.now
           pins == d.nodes[n].pins
           node == [d.nodes[n] EXCEPT !.pins = order]
           x == ReorderDynamicPins(t, n, order)
           Free == /\ ~GraphReadOnly(t) /\ ~NodeReadOnly(t, n)
                   /\ \A p \in ToSet(pins) : ~PinReadOnly(t, p)
<1>0. d \in Docs /\ t # None
  BY NowIs
<1>1. ASSUME d.nodes[n] # None
      PROVE  /\ d.nodes[n] \in NodeValues /\ node \in NodeValues
             /\ DOMAIN pins = 1..Len(pins)
             /\ \A i \in 1..Len(pins) : d.pins[pins[i]].storage = "static" <=> ~Dynamic(d.pins, pins[i])
  <2>1. d.nodes[n] \in NodeValues /\ pins \in Seq(Pins)
    BY <1>0, <1>1, PartsAre DEF NodeValues
  <2>2. node \in NodeValues
    BY <2>1 DEF NodeValues
  <2>3. \A p \in ToSet(pins) : p \in Pins /\ d.pins[p] # None
    BY <1>1, <2>1 DEF NodesGood, Held, ToSet
  <2>4. \A p \in ToSet(pins) : d.pins[p] \in PinValues
    BY <1>0, <2>3, PartsAre
  <2>5. \A p \in ToSet(pins) : d.pins[p].storage = "static" <=> ~Dynamic(d.pins, p)
    BY <2>4 DEF PinValues, Dynamic
  <2>6. \A i \in 1..Len(pins) : pins[i] \in ToSet(pins)
    <3> HIDE DEF pins
    <3> QED
      BY <2>1 DEF ToSet
  <2> QED
    BY <2>1, <2>2, <2>5, <2>6
<1>2. x = IF d.nodes[n] # None /\ Free /\ Orders(d, n, order)
          THEN Stage(t, [d EXCEPT !.nodes[n] = node]) ELSE None
  <2>1. CASE d.nodes[n] = None
    BY <2>1 DEF ReorderDynamicPins, When
  <2>2. CASE d.nodes[n] # None
    <3>1. d.nodes[n] # None => [d EXCEPT !.nodes[n] = node] = [d EXCEPT !.nodes[n].pins = order]
      OBVIOUS
    <3>2. OrderPins(d, n, order) = IF Orders(d, n, order) THEN [d EXCEPT !.nodes[n] = node] ELSE None
      <4> HIDE DEF node
      <4>1. /\ DOMAIN pins = 1..Len(pins)
            /\ \A i \in 1..Len(pins) : d.pins[pins[i]].storage = "static" <=> ~Dynamic(d.pins, pins[i])
        BY <1>1, <2>2
      <4>2. OrderPins(d, n, order) =
               IF /\ d.nodes[n] # None /\ Len(order) = Len(pins) /\ ToSet(order) = ToSet(pins)
                  /\ \A i \in DOMAIN pins : d.pins[pins[i]].storage = "static" => order[i] = pins[i]
               THEN [d EXCEPT !.nodes[n].pins = order] ELSE None
        BY DEF OrderPins, When
      <4>3. (\A i \in DOMAIN pins : d.pins[pins[i]].storage = "static" => order[i] = pins[i])
               <=> (\A i \in 1..Len(pins) : ~Dynamic(d.pins, pins[i]) => order[i] = pins[i])
        <5> HIDE DEF pins
        <5> QED
          BY <4>1
      <4> QED
        BY <2>2, <3>1, <4>2, <4>3 DEF Orders
    <3>3. Stage(t, None) = None
      BY DEF Stage
    <3>4. x = IF d.nodes[n] # None /\ Free THEN Stage(t, OrderPins(d, n, order)) ELSE None
      BY DEF ReorderDynamicPins, When
    <3> HIDE DEF Free, x, node
    <3> QED
      BY <2>2, <3>2, <3>3, <3>4
  <2> QED
    BY <2>1, <2>2
<1>3. Free => OpenGraph(t) /\ FreeNode(t, n)
  BY ProtectionIs
<1>4. ~t.enforce => Free
  BY FreeIs
<1>5. ASSUME d.nodes[n] # None, Free
      PROVE  LET y == Stage(t, [d EXCEPT !.nodes[n] = node]) IN
             /\ y # None /\ Follows(t, y) /\ OnlyNode(d, y.now, n) /\ y.now.nodes[n] = node
             /\ Permitted(t, d, y.now)
  <2>1. node \in NodeValues
    BY <1>1, <1>5
  <2> HIDE DEF node, Free
  <2> QED
    BY <1>3, <1>5, <2>1, NodeStaged
<1>6. Orders(d, n, order) => d.nodes[n] # None
  BY DEF Orders
<1> HIDE DEF Free, x, node
<1>7. /\ x # None => /\ Follows(t, x) /\ OnlyNode(d, x.now, n) /\ Orders(d, n, order)
                     /\ x.now.nodes[n] = node /\ Permitted(t, d, x.now)
      /\ ~t.enforce /\ Orders(d, n, order) => x # None
  BY <1>2, <1>4, <1>5, <1>6
<1> QED
  BY <1>7 DEF x, node

\* Where the static pins stay, the dynamic ones get the other places.
LEMMA OrdersBack ==
    ASSUME NEW pins \in Seq(Pins), NEW order \in Seq(Pins), IsInjective(order), NEW values,
           Len(order) = Len(pins), ToSet(order) = ToSet(pins),
           \A i \in 1..Len(pins) : ~Dynamic(values, pins[i]) => order[i] = pins[i]
    PROVE  \A i \in 1..Len(pins) : Dynamic(values, pins[i]) <=> Dynamic(values, order[i])
<1> SUFFICES ASSUME NEW i \in 1..Len(pins)
             PROVE  Dynamic(values, pins[i]) <=> Dynamic(values, order[i])
  OBVIOUS
<1>1. CASE ~Dynamic(values, pins[i])
  BY <1>1
<1>2. CASE Dynamic(values, pins[i])
  <2> SUFFICES ASSUME ~Dynamic(values, order[i]) PROVE FALSE
    BY <1>2
  <2>1. order[i] \in ToSet(pins)
    <3>1. i \in DOMAIN order
      OBVIOUS
    <3> QED
      BY <3>1 DEF ToSet
  <2>2. PICK j \in 1..Len(pins) : order[i] = pins[j]
    BY <2>1 DEF ToSet
  <2>3. order[j] = order[i]
    BY <2>2
  <2>4. i = j
    BY <2>3 DEF IsInjective
  <2> QED
    BY <1>2, <2>2, <2>4
<1> QED
  BY <1>1, <1>2

LEMMA ReorderUndoes ==
    ASSUME NEW d \in Docs, Good(d), NEW n \in Nodes, d.nodes[n] # None,
           NEW order \in SetToSeqs(ToSet(d.nodes[n].pins))
    PROVE  Undoes(d, [kind |-> "reorder", node |-> n, order |-> order])
<1> DEFINE c == [kind |-> "reorder", node |-> n, order |-> order]
           b == Begin(d, TRUE)
           t == Executed(d, c)
           e == Led(d, c)
           f == Begin(e, FALSE)
           u == TakenBack(d, c)
           pins == d.nodes[n].pins
<1>1. t = ReorderDynamicPins(b, n, order) /\ u = ReorderDynamicPins(f, n, pins)
  BY DEF Executed, TakenBack, Apply, Revert, Capture
<1>2. b \in Transactions /\ b.now = d
  BY ExecutedIs
<1>3. NodesGood(d) /\ LinksGood(d) /\ ValidPresentation(d)
  BY GoodFrom
<1>4. d.nodes[n] \in NodeValues /\ pins \in Seq(Pins) /\ Len(pins) \in Nat /\ ToSet(pins) \in SUBSET Pins
  BY PartsAre DEF NodeValues, ToSet
<1>5. order \in Seq(Pins) /\ IsInjective(order)
  <2> HIDE DEF pins
  <2>1. ToSet(pins) = {pins[i] : i \in 1..Len(pins)}
    BY <1>4 DEF ToSet
  <2>2. IsFiniteSet(ToSet(pins))
    <3>1. IsFiniteSet(1..Len(pins))
      BY <1>4, FS_Interval
    <3>2. pins \in Surjection(1..Len(pins), ToSet(pins))
      BY <1>4, <2>1 DEF Surjection
    <3> QED
      BY <3>1, <3>2, FS_Surjection
  <2>3. Cardinality(ToSet(pins)) \in Nat
    BY <2>2, FS_CardinalityType
  <2>4. /\ order \in [1..Cardinality(ToSet(pins)) -> ToSet(pins)]
        /\ \A i, j \in 1..Cardinality(ToSet(pins)) : i # j => order[i] # order[j]
    BY DEF SetToSeqs, pins
  <2>5. order \in [1..Cardinality(ToSet(pins)) -> Pins]
    BY <1>4, <2>4
  <2> QED
    BY <2>3, <2>4, <2>5 DEF IsInjective
<1> HIDE DEF c
<1> SUFFICES ASSUME t # None
             PROVE  /\ e \in Docs /\ Good(e) /\ Permitted(b, d, e)
                    /\ u \in Transactions /\ u.now = d
  <2>1. Undoes(d, c)
    BY PermittedUndoes DEF Changes
  <2> QED
    BY <2>1 DEF c
<1> HIDE DEF b
<1>6. /\ OnlyNode(d, e, n) /\ Orders(d, n, order)
      /\ e.nodes[n] = [d.nodes[n] EXCEPT !.pins = order] /\ Permitted(b, d, e)
  <2> HIDE DEF t
  <2> QED
    BY <1>1, <1>2, <1>3, <1>5, ReorderDynamicPinsIs DEF Led, t
<1> HIDE DEF e, t
<1>7. /\ e \in Docs /\ OnlyStructure(d, e) /\ e.links = d.links /\ e.pins = d.pins
      /\ e.nodes[n] \in NodeValues /\ e.nodes[n] # None
      /\ e.nodes[n].pins = order /\ e.nodes[n].schema = d.nodes[n].schema
      /\ \A m \in Nodes \ {n} : e.nodes[m] = d.nodes[m]
      /\ [e.nodes[n] EXCEPT !.pins = pins] = d.nodes[n]
  <2>1. e.nodes[n] \in NodeValues /\ [e.nodes[n] EXCEPT !.pins = pins] = d.nodes[n]
        /\ e.nodes[n].pins = order /\ e.nodes[n].schema = d.nodes[n].schema
    BY <1>4, <1>5, <1>6 DEF NodeValues
  <2> QED
    BY <1>6, <2>1, NotNone DEF OnlyNode
<1>8. /\ Len(order) = Len(pins) /\ ToSet(order) = ToSet(pins)
      /\ \A i \in 1..Len(pins) : ~Dynamic(d.pins, pins[i]) => order[i] = pins[i]
  BY <1>6 DEF Orders
<1>9. \A i \in 1..Len(pins) : Dynamic(d.pins, pins[i]) <=> Dynamic(d.pins, order[i])
  <2> HIDE DEF pins
  <2> QED
    BY <1>4, <1>5, <1>8, OrdersBack
<1>10. NodesGood(e)
  <2>1. Held(d, n) /\ Fitted(d, n)
    BY <1>3 DEF NodesGood
  <2>2. Held(e, n) /\ Fitted(e, n)
    BY <1>5, <1>7, <1>8, <1>9, <2>1, PinsChanged DEF Held
  <2>3. ASSUME NEW m \in Nodes, m # n, d.nodes[m] # None PROVE Held(e, m) /\ Fitted(e, m)
    BY <1>3, <1>7, <2>3, NodeAside
  <2>4. \A m \in Nodes : d.nodes[m] # None => Held(e, m) /\ Fitted(e, m)
    BY <2>2, <2>3
  <2>5. \A m \in Nodes : d.nodes[m] # None => ToSet(e.nodes[m].pins) = ToSet(d.nodes[m].pins)
    BY <1>7, <1>8
  <2>6. \A m \in Nodes : e.nodes[m] = None <=> d.nodes[m] = None
    BY <1>7
  <2>7. \A p \in Pins : e.pins[p] # None => d.pins[p] # None /\ e.pins[p].storage = d.pins[p].storage
    BY <1>7
  <2> QED
    BY <1>3, <1>7, <2>4, <2>5, <2>6, <2>7, NodesRefitted
<1>11. Good(e)
  <2>1. LinksGood(e)
    <3>1. \A l \in Links : e.links[l] # None => \A p \in Ends(e, l) : Alike(d.pins[p], e.pins[p])
      BY <1>3, <1>7 DEF LinksGood, Joins, Ends, Alike
    <3> QED
      BY <1>3, <1>7, <3>1, LinksErased
  <2>2. ValidPresentation(e)
    BY <1>3, <1>7, ShownStill
  <2> QED
    BY <1>7, <1>10, <2>1, <2>2, GoodFrom
<1>12. f \in Transactions /\ f.now = e /\ ~f.enforce
  BY <1>7, RevertedIs
<1>13. Orders(e, n, pins)
  <2> HIDE DEF pins
  <2> QED
    BY <1>7, <1>8, <1>9 DEF Orders
<1> HIDE DEF f, u, pins
<1>14. /\ u # None /\ Follows(f, u) /\ OnlyNode(e, u.now, n) /\ u.now.nodes[n] = d.nodes[n]
  BY <1>1, <1>4, <1>7, <1>10, <1>12, <1>13, ReorderDynamicPinsIs
<1>15. OnlyNode(d, u.now, n)
  BY <1>6, <1>14 DEF OnlyNode, OnlyStructure
<1>16. u.now = d
  BY <1>14, <1>15, OnlyOneIs
<1> QED
  BY <1>6, <1>7, <1>11, <1>12, <1>14, <1>16 DEF Follows

-----------------------------------------------------------------------------
(* Links that go with what is shown of them                                *)

LEMMA LinkStatePermitted ==
    ASSUME NEW t \in Transactions, NEW d \in Docs, NEW e, NEW l \in Links, OnlyLinkState(d, e, l),
           e.link_states[l] = d.link_states[l] \/ (OpenGraph(t) /\ FreeLinkState(t, l))
    PROVE  e \in Docs /\ Permitted(t, d, e)
<1>1. CASE e.link_states[l] = d.link_states[l]
  <2>1. e = d
    BY <1>1, OnlyLinkStateIs
  <2> QED
    BY <2>1, PermittedIs, NowIs
<1>2. CASE OpenGraph(t) /\ FreeLinkState(t, l)
  <2>1. \A m \in Links : e.link_states[m] # d.link_states[m] => FreeLinkState(t, m)
    BY <1>2 DEF OnlyLinkState
  <2> QED
    BY <1>2, <2>1 DEF Permitted, OnlyLinkState, OnlyLinkStates, Ends
<1> QED
  BY <1>1, <1>2

LEMMA NodeStatePermitted ==
    ASSUME NEW t \in Transactions, NEW d \in Docs, NEW e, NEW n \in Nodes, OnlyNodeState(d, e, n),
           e.node_states[n] = d.node_states[n] \/ (OpenGraph(t) /\ FreeNodeState(t, n))
    PROVE  e \in Docs /\ Permitted(t, d, e)
<1>1. CASE e.node_states[n] = d.node_states[n]
  <2>1. e \in Docs /\ \A m \in Nodes : e.node_states[m] = d.node_states[m]
    BY <1>1 DEF OnlyNodeState, OnlyNodeStates
  <2>2. e.node_states = d.node_states
    BY <2>1, PartsAre
  <2>3. e = d
    BY <2>1, <2>2, SameDocument DEF OnlyNodeState, OnlyNodeStates
  <2> QED
    BY <2>3, PermittedIs, NowIs
<1>2. CASE OpenGraph(t) /\ FreeNodeState(t, n)
  <2>1. \A m \in Nodes : e.node_states[m] # d.node_states[m] => FreeNodeState(t, m)
    BY <1>2 DEF OnlyNodeState
  <2> QED
    BY <1>2, <2>1 DEF Permitted, OnlyNodeState, OnlyNodeStates, Ends
<1> QED
  BY <1>1, <1>2

LinksAside(d, e) ==
    /\ e \in Docs /\ e.read_only = d.read_only /\ e.nodes = d.nodes /\ e.pins = d.pins
    /\ e.node_states = d.node_states /\ e.groups = d.groups

LEMMA UnlinkIs ==
    ASSUME NEW t \in Transactions, NEW l \in Links
    PROVE  LET x == Unlink(t, l) IN
           /\ x # None =>
                 /\ Follows(t, x) /\ LinksAside(t.now, x.now)
                 /\ t.now.links[l] # None
                 /\ x.now.links[l] = None /\ x.now.link_states[l] = None
                 /\ \A m \in Links \ {l} : /\ x.now.links[m] = t.now.links[m]
                                           /\ x.now.link_states[m] = t.now.link_states[m]
                 /\ Permitted(t, t.now, x.now)
           /\ ~t.enforce /\ t.now.links[l] # None => x # None
<1> DEFINE y == SetLinkPresentation(t, l, None)
           x == Unlink(t, l)
<1>1. x = IF y = None THEN None ELSE RemoveLink(y, l)
  BY DEF Unlink, Then
<1>2. /\ y # None =>
            /\ Follows(t, y) /\ OnlyLinkState(t.now, y.now, l)
            /\ y.now.link_states[l] = None
            /\ None = t.now.link_states[l] \/ (OpenGraph(t) /\ FreeLinkState(t, l))
      /\ ~t.enforce => y # None
  <2>1. Unshared(t.now, l, None) /\ None \in LinkStates \cup {None}
    BY DEF Unshared
  <2> HIDE DEF y
  <2>2. LET z == SetLinkPresentation(t, l, None) IN
           /\ z # None =>
                 /\ Follows(t, z) /\ OnlyLinkState(t.now, z.now, l)
                 /\ z.now.link_states[l] = None
                 /\ None = t.now.link_states[l] \/ (OpenGraph(t) /\ FreeLinkState(t, l))
           /\ /\ ~t.enforce /\ (None # None => t.now.links[l] # None)
              /\ Unshared(t.now, l, None)
              => z # None
    BY <2>1, SetLinkPresentationIs
  <2> QED
    BY <2>1, <2>2 DEF y
<1> HIDE DEF x, y
<1>3. t.now \in Docs
  BY NowIs
<1>4. ASSUME y # None
      PROVE  /\ y \in Transactions /\ y.now \in Docs /\ Permitted(t, t.now, y.now)
             /\ y.now.links = t.now.links
  <2>1. y.now \in Docs /\ Permitted(t, t.now, y.now)
    BY <1>2, <1>3, <1>4, LinkStatePermitted
  <2> QED
    BY <1>2, <1>4, <2>1 DEF Follows, OnlyLinkState, OnlyLinkStates
<1>5. ASSUME x # None
      PROVE  /\ Follows(t, x) /\ LinksAside(t.now, x.now)
             /\ t.now.links[l] # None
             /\ x.now.links[l] = None /\ x.now.link_states[l] = None
             /\ \A m \in Links \ {l} : /\ x.now.links[m] = t.now.links[m]
                                       /\ x.now.link_states[m] = t.now.link_states[m]
             /\ Permitted(t, t.now, x.now)
  <2>1. y # None /\ x = RemoveLink(y, l)
    BY <1>1, <1>5
  <2>2. /\ Follows(y, x) /\ OnlyLink(y.now, x.now, l)
        /\ y.now.links[l] # None /\ x.now.links[l] = None
        /\ Permitted(y, y.now, x.now)
    BY <1>4, <1>5, <2>1, RemoveLinkIs
  <2>3. Follows(t, x)
    BY <1>2, <2>1, <2>2, FollowsOn
  <2>4. Permitted(t, t.now, x.now)
    <3>1. Permitted(t, y.now, x.now)
      BY <1>2, <2>1, <2>2, PermittedIs
    <3> QED
      BY <1>4, <2>1, <3>1, PermittedOn
  <2> QED
    BY <1>2, <1>4, <2>1, <2>2, <2>3, <2>4 DEF LinksAside, OnlyLink, OnlyStructure, OnlyLinkState, OnlyLinkStates
<1>6. ASSUME ~t.enforce, t.now.links[l] # None PROVE x # None
  <2>1. y # None /\ ~y.enforce /\ y.now.links[l] # None
    BY <1>2, <1>4, <1>6 DEF Follows
  <2>2. RemoveLink(y, l) # None
    BY <1>4, <2>1, RemoveLinkIs
  <2> QED
    BY <1>1, <2>1, <2>2
<1> QED
  BY <1>5, <1>6 DEF x

\* Several links go, each with what is shown of it.
Unlinked(t, x, s) ==
    x # None =>
       /\ Follows(t, x) /\ LinksAside(t.now, x.now)
       /\ \A l \in Links : x.now.links[l] = IF l \in s THEN None ELSE t.now.links[l]
       /\ \A l \in Links : x.now.link_states[l] = IF l \in s THEN None ELSE t.now.link_states[l]
       /\ Permitted(t, t.now, x.now)

LEMMA UnlinkAllIs ==
    ASSUME NEW t \in Transactions, NEW S \in SUBSET Links
    PROVE  Unlinked(t, UnlinkAll(t, S), S)
<1> DEFINE Step(x, n) == Then(x, LAMBDA y : Unlink(y, n))
           Loop(f) == f = [s \in SUBSET (S) |->
                              IF s = {} THEN t
                              ELSE LET n == CHOOSE n \in s : TRUE IN Step(f[s \ {n}], n)]
           step == [p \in Staged \X (S) |-> Step(p[1], p[2])]
           h == CHOOSE f : Loop(f)
           D == {s \in SUBSET (S) : Unlinked(t, h[s], s)}
<1>1. IsFiniteSet(S) /\ t \in Staged /\ t # None
  BY FS_Subset, ElementDocumentAssumption, NowIs
<1>2. ASSUME NEW x \in Staged, NEW n \in S PROVE Step(x, n) \in Staged
  <2>1. CASE x = None
    BY <2>1 DEF Then, Staged
  <2>2. CASE x # None
    <3>1. x \in Transactions /\ n \in Links
      BY <2>2 DEF Staged
    <3>2. Unlink(x, n) # None => Follows(x, Unlink(x, n))
      BY <3>1, UnlinkIs
    <3> QED
      BY <2>2, <3>2 DEF Then, Staged, Follows
  <2> QED
    BY <2>1, <2>2
<1>3. Unlinked(t, t, {})
  <2>1. LinksAside(t.now, t.now) /\ Follows(t, t)
    BY NowIs DEF LinksAside
  <2>2. Permitted(t, t.now, t.now)
    BY <2>1, PermittedIs
  <2> QED
    BY <2>1, <2>2 DEF Unlinked
<1>4. ASSUME NEW x, NEW s \in SUBSET (S), NEW n \in (S) \ s, Unlinked(t, x, s)
      PROVE  Unlinked(t, Step(x, n), s \cup {n})
  <2>1. CASE x = None
    BY <1>4, <2>1 DEF Then, Unlinked
  <2>2. CASE x # None
    <3> DEFINE y == Unlink(x, n)
    <3>1. /\ Follows(t, x) /\ LinksAside(t.now, x.now)
          /\ \A m \in Links : x.now.links[m] = IF m \in s THEN None ELSE t.now.links[m]
          /\ \A m \in Links : x.now.link_states[m] = IF m \in s THEN None ELSE t.now.link_states[m]
          /\ Permitted(t, t.now, x.now)
      BY <1>4, <2>2 DEF Unlinked
    <3>2. x \in Transactions /\ n \in Links
      BY <3>1 DEF Follows
    <3>3. y # None =>
             /\ Follows(x, y) /\ LinksAside(x.now, y.now)
             /\ y.now.links[n] = None /\ y.now.link_states[n] = None
             /\ \A m \in Links \ {n} : /\ y.now.links[m] = x.now.links[m]
                                       /\ y.now.link_states[m] = x.now.link_states[m]
             /\ Permitted(x, x.now, y.now)
      BY <3>2, UnlinkIs
    <3>4. Step(x, n) = y
      BY <2>2 DEF Then
    <3> HIDE DEF y, Step
    <3>5. ASSUME y # None PROVE Unlinked(t, y, s \cup {n})
      <4>1. Follows(t, y)
        BY <3>1, <3>3, <3>5, FollowsOn
      <4>2. LinksAside(t.now, y.now)
        BY <3>1, <3>3, <3>5 DEF LinksAside
      <4>3. Permitted(t, t.now, y.now)
        <5>1. Permitted(t, x.now, y.now)
          BY <3>1, <3>3, <3>5, PermittedIs
        <5> QED
          BY <3>1, <5>1, PermittedOn
      <4> QED
        BY <3>1, <3>3, <3>5, <4>1, <4>2, <4>3 DEF Unlinked
    <3> QED
      BY <3>4, <3>5 DEF Unlinked
  <2> QED
    BY <2>1, <2>2
<1> HIDE DEF Step
<1>5. step \in [Staged \X (S) -> Staged]
  <2> SUFFICES ASSUME NEW p \in Staged \X (S) PROVE Step(p[1], p[2]) \in Staged
    OBVIOUS
  <2> QED
    BY <1>2
<1>6. Folds(S, t, step) # {}
  <2> HIDE DEF step
  <2> QED
    BY <1>1, <1>5, FoldsExist
<1>7. PICK g : g \in Folds(S, t, step)
  BY <1>6
<1>8. Loop(g)
  <2> HIDE DEF Staged
  <2>1. g \in [SUBSET (S) -> Staged] /\ g[{}] = t
    BY <1>7 DEF Folds
  <2>2. ASSUME NEW s \in SUBSET (S), s # {}
        PROVE  g[s] = LET n == CHOOSE n \in s : TRUE IN Step(g[s \ {n}], n)
    <3> DEFINE n == CHOOSE n \in s : TRUE
    <3>1. n \in s /\ g[s \ {n}] \in Staged /\ Rest(s) = s \ {n}
      BY <2>1, <2>2 DEF Rest
    <3>2. g[s] = step[<<g[Rest(s)], n>>]
      BY <1>7, <2>2 DEF Folds
    <3> HIDE DEF n
    <3>3. step[<<g[s \ {n}], n>>] = Step(g[s \ {n}], n)
      BY <3>1
    <3> HIDE DEF step
    <3>4. g[s] = Step(g[s \ {n}], n)
      BY <3>1, <3>2, <3>3
    <3> QED
      BY <3>4 DEF n
  <2> HIDE DEF step
  <2>3. g = [s \in SUBSET (S) |-> g[s]]
    BY <2>1
  <2> QED
    BY <2>1, <2>2, <2>3
<1> HIDE DEF step
<1>9. UnlinkAll(t, S) = h[S]
  BY DEF UnlinkAll, ForEach, FoldSet, MapThenFoldSet, Then, Step
<1>10. Loop(h)
  <2> HIDE DEF Loop
  <2> QED
    BY <1>8
<1> HIDE DEF h
<1>11. {} \in D
  BY <1>3, <1>10
<1>12. ASSUME NEW s \in SUBSET (S), s # {}, s \ {CHOOSE n \in s : TRUE} \in D PROVE s \in D
  <2> DEFINE n == CHOOSE n \in s : TRUE
  <2>1. n \in s /\ Unlinked(t, h[s \ {n}], s \ {n})
    BY <1>12
  <2>2. h[s] = Step(h[s \ {n}], n)
    BY <1>10, <1>12
  <2> HIDE DEF n, D, Loop
  <2>3. (s \ {n}) \cup {n} = s /\ n \in (S) \ (s \ {n}) /\ s \ {n} \in SUBSET (S)
    BY <2>1
  <2>4. Unlinked(t, h[s], s)
    BY <1>4, <2>1, <2>2, <2>3
  <2> QED
    BY <2>4 DEF D
<1> HIDE DEF D, Loop
<1>13. S \in D
  BY <1>1, <1>11, <1>12, SubsetInduct
<1> QED
  BY <1>9, <1>13 DEF D

LEMMA SetNodePropertyIs ==
    ASSUME NEW t \in Transactions, NEW n \in Nodes, NEW schema \in SchemaNames,
           t.now.nodes[n] # None
    PROVE  LET x == SetNodeProperty(t, n, schema) IN
           /\ x # None =>
                 /\ Follows(t, x) /\ OnlyNode(t.now, x.now, n)
                 /\ x.now.nodes[n] = [t.now.nodes[n] EXCEPT !.schema = schema]
                 /\ Permitted(t, t.now, x.now)
           /\ ~t.enforce => x # None
<1> DEFINE d == t.now
           x == SetNodeProperty(t, n, schema)
           v == [d.nodes[n] EXCEPT !.schema = schema]
<1>0. d \in Docs /\ t # None /\ Follows(t, t) /\ OnlyNode(d, d, n) /\ Permitted(t, d, d)
  BY NowIs, OnlyOneIs, PermittedIs
<1>2. d.nodes[n] # None
  OBVIOUS
<1> QED
  <2>1. d.nodes[n] \in NodeValues /\ v \in NodeValues
    BY <1>0, <1>2, PartsAre DEF NodeValues
  <2>2. CASE d.nodes[n].schema = schema
    <3>1. x = t /\ v = d.nodes[n]
      BY <1>2, <2>1, <2>2 DEF SetNodeProperty, NodeValues
    <3> QED
      BY <1>0, <1>2, <3>1
  <2>3. CASE d.nodes[n].schema # schema
    <3>1. x = IF ~GraphReadOnly(t) /\ ~NodeReadOnly(t, n)
              THEN Stage(t, [d EXCEPT !.nodes[n] = v]) ELSE None
      BY <1>2, <2>3 DEF SetNodeProperty, WriteProperty, When
    <3>2. /\ ~GraphReadOnly(t) => OpenGraph(t)
          /\ ~NodeReadOnly(t, n) => FreeNode(t, n)
          /\ ~t.enforce => ~GraphReadOnly(t) /\ ~NodeReadOnly(t, n)
      BY ProtectionIs, FreeIs
    <3> HIDE DEF x, v
    <3>3. /\ x # None => /\ Follows(t, x) /\ OnlyNode(t.now, x.now, n) /\ x.now.nodes[n] = v
                         /\ Permitted(t, t.now, x.now)
          /\ ~t.enforce => x # None
      BY <2>1, <3>1, <3>2, NodeStaged
    <3> QED
      BY <1>2, <3>3 DEF x, v
  <2> QED
    BY <2>2, <2>3
=============================================================================
