---------------------------- MODULE UiAppProofs ----------------------------
(***************************************************************************)
(* The lifecycle of UiApp under re-entrancy, for any number of elements    *)
(* and any depth of nested calls.                                          *)
(***************************************************************************)
EXTENDS UiApp, SequenceTheorems, FunctionTheorems, FiniteSetTheorems, TLAPS

Points == TickPoints \cup UserPoints \cup {"commit"}
FramePoints == {"update", "updating", "render"}
UpdatePoints == {"update", "updating"}
ClosingPoints == {"destroying", "clearing"}
CallFrames == [at : Points, index : Nat, doomed : Seq(Elements), action : Actions]

-----------------------------------------------------------------------------
(* The call stack                                                          *)

\* Calls of s are at one of the points; at most one is; only the last one is;
\* those at the points of P were made from those at the points of Q.
In(s, P) == \E i \in DOMAIN s : s[i].at \in P
Once(s, P) == \A i, j \in DOMAIN s : s[i].at \in P /\ s[j].at \in P => i = j
OnTop(s, P) == \A i \in DOMAIN s : s[i].at \in P => i = Len(s)
Under(s, Q, P) == \A i, j \in DOMAIN s : s[i].at \in P /\ s[j].at \in Q => j < i

\* The elements of a sequence, each there once.
Serials(entries) == {entries[i].serial : i \in DOMAIN entries}
Ids(entries) == {entries[i].id : i \in DOMAIN entries}
OncePerSerial(entries) ==
    \A i, j \in DOMAIN entries : entries[i].serial = entries[j].serial => i = j
OncePerId(entries) ==
    \A i, j \in DOMAIN entries : entries[i].id = entries[j].id => i = j

\* The sequence t is the sequence s with the element e at its end.
AddsEntry(t, s, e) ==
    /\ t \in Seq(Elements) /\ t # <<>>
    /\ Serials(t) = Serials(s) \cup {e.serial} /\ Ids(t) = Ids(s) \cup {e.id}
    /\ OncePerSerial(s) /\ e.serial \notin Serials(s) => OncePerSerial(t)
    /\ OncePerId(s) /\ e.id \notin Ids(s) => OncePerId(t)
    /\ (\E i \in DOMAIN t : t[i].remove_requested) <=>
           e.remove_requested \/ \E i \in DOMAIN s : s[i].remove_requested

\* The elements whose destructors the calls of s have still to run: only the
\* loops of Commit and Clear have any, and no two the same one.
Doomed(s) == UNION {Serials(s[i].doomed) : i \in DOMAIN s}
KeepsDoomed(f) ==
    /\ OncePerSerial(f.doomed)
    /\ f.at \notin ClosingPoints => f.doomed = <<>>
Apart(e, f) == Serials(e.doomed) \cap Serials(f.doomed) = {}
DoomedOnce(s) ==
    /\ \A i \in DOMAIN s : KeepsDoomed(s[i])
    /\ \A i, j \in DOMAIN s : i # j => Apart(s[i], s[j])

\* The stack t is the stack s with the call f on top of it.
AddsCall(t, s, f) ==
    /\ t \in Seq(CallFrames)
    /\ t # <<>> /\ t[Len(t)] = f
    /\ \A P : In(t, P) <=> In(s, P) \/ f.at \in P
    /\ \A P : Once(t, P) <=> Once(s, P) /\ ~(f.at \in P /\ In(s, P))
    /\ \A P : OnTop(t, P) <=> ~In(s, P)
    /\ \A P, Q : Under(t, Q, P) <=>
           /\ Under(s, Q, P)
           /\ ~(f.at \in Q /\ (f.at \in P \/ In(s, P)))
    /\ Doomed(t) = Doomed(s) \cup Serials(f.doomed)
    /\ DoomedOnce(t) <=>
           /\ DoomedOnce(s)
           /\ KeepsDoomed(f)
           /\ Doomed(s) \cap Serials(f.doomed) = {}

-----------------------------------------------------------------------------
(* The inductive invariant                                                 *)

Shape ==
    /\ lifecycle \in Lifecycles
    /\ frame_active \in BOOLEAN
    /\ imgui_frame_active \in BOOLEAN
    /\ event_dispatch_active \in BOOLEAN
    /\ dispatcher \in {"none", "open", "closed"}
    /\ exit_requested \in BOOLEAN
    /\ m_elements \in Seq(Elements)
    /\ m_pending_elements \in Seq(Elements)
    /\ m_updating \in BOOLEAN
    /\ stack \in Seq(CallFrames)
    /\ made \in 0..MaxElements
    /\ m_next_id \in 1..made + 1
    /\ destroyed \in [1..MaxElements -> 0..1]
    /\ interrupted \in BOOLEAN

\* FlagsMatchStack without counting.
Flags ==
    /\ Once(stack, TickPoints) /\ (frame_active <=> In(stack, TickPoints))
    /\ Once(stack, DispatchPoints) /\ (event_dispatch_active <=> In(stack, DispatchPoints))
    /\ imgui_frame_active <=> In(stack, FramePoints)
    /\ Under(stack, DispatchPoints, TickPoints)
    /\ dispatcher = "open" <=> lifecycle = "Ready"

\* Nothing is torn down under a Tick or a DispatchEvent; once it is torn down,
\* or while it is, the registry is empty.  While the destructors of Clear run
\* the application cannot call anything.
Teardown ==
    /\ In(stack, TickPoints) \/ In(stack, DispatchPoints) =>
           lifecycle \notin {"Empty", "ShuttingDown"} /\ dispatcher # "none"
    /\ OnTop(stack, {"clearing"})
    /\ In(stack, {"clearing"}) => lifecycle = "ShuttingDown"
    /\ lifecycle \in {"Empty", "ShuttingDown"} =>
           m_elements = <<>> /\ m_pending_elements = <<>>

\* Update is never interrupted by another call that lasts: while it iterates,
\* m_updating is set, and no call that needs it cleared can begin.
Iteration ==
    /\ OnTop(stack, UpdatePoints)
    /\ In(stack, UpdatePoints) => m_updating

\* Whatever waits for a Commit is waited for.
Promised ==
    /\ m_updating => In(stack, UpdatePoints) \/ In(stack, ClosingPoints)
    /\ m_pending_elements # <<>> \/ HasRemovals =>
           \/ interrupted
           \/ In(stack, UpdatePoints) \/ In(stack, ClosingPoints) \/ In(stack, {"commit"})

Dead == {serial \in 1..MaxElements : destroyed[serial] = 1}
Live == Serials(m_elements) \cup Serials(m_pending_elements)

\* Every element ever made is in one place, and there once.
Ownership ==
    /\ OncePerSerial(m_elements) /\ OncePerSerial(m_pending_elements)
    /\ Serials(m_elements) \cap Serials(m_pending_elements) = {}
    /\ DoomedOnce(stack)
    /\ Live \cap Dead = {}
    /\ Live \cap Doomed(stack) = {}
    /\ Dead \cap Doomed(stack) = {}
    /\ Live \cup Dead \cup Doomed(stack) = 1..made

\* Identifiers of live elements differ and were given out by m_next_id.
Identifiers ==
    /\ OncePerId(m_elements) /\ OncePerId(m_pending_elements)
    /\ Ids(m_elements) \cap Ids(m_pending_elements) = {}
    /\ \A id \in Ids(m_elements) \cup Ids(m_pending_elements) : id < m_next_id

Inv == Shape /\ Flags /\ Teardown /\ Iteration /\ Promised /\ Ownership /\ Identifiers

-----------------------------------------------------------------------------
(* Lemmas about the stack and the sequences of elements                    *)

\* A call begins.
LEMMA Pushed ==
    ASSUME NEW s \in Seq(CallFrames), NEW f \in CallFrames
    PROVE  AddsCall(Append(s, f), s, f)
<1> DEFINE n == Len(s)
           t == Append(s, f)
<1>1. n \in Nat /\ DOMAIN s = 1..n /\ DOMAIN t = 1..n + 1 /\ Len(t) = n + 1
      /\ t \in Seq(CallFrames) /\ t[n + 1] = f /\ \A i \in 1..n : t[i] = s[i]
  BY AppendProperties, LenProperties
<1> HIDE DEF n, t
<1>2. t # <<>> /\ t[Len(t)] = f
  BY <1>1, EmptySeq
<1>3. 1..n + 1 = 1..n \cup {n + 1} /\ n + 1 \notin 1..n /\ \A i \in 1..n : i < n + 1 /\ i # n + 1
  BY <1>1
<1>4. ASSUME NEW P PROVE In(t, P) <=> In(s, P) \/ f.at \in P
  BY <1>1, <1>3 DEF In
<1>5. ASSUME NEW P PROVE Once(t, P) <=> Once(s, P) /\ ~(f.at \in P /\ In(s, P))
  BY <1>1, <1>3 DEF In, Once
<1>6. ASSUME NEW P PROVE OnTop(t, P) <=> ~In(s, P)
  BY <1>1, <1>3 DEF In, OnTop
<1>7. ASSUME NEW P, NEW Q
      PROVE  Under(t, Q, P) <=> /\ Under(s, Q, P)
                                /\ ~(f.at \in Q /\ (f.at \in P \/ In(s, P)))
  BY <1>1, <1>3 DEF In, Under
<1>8. Doomed(t) = Doomed(s) \cup Serials(f.doomed)
  BY <1>1, <1>3 DEF Doomed
<1>9. DoomedOnce(t) <=> DoomedOnce(s) /\ KeepsDoomed(f) /\ Doomed(s) \cap Serials(f.doomed) = {}
  <2>1. Doomed(s) \cap Serials(f.doomed) = {} <=> \A i \in 1..n : Apart(s[i], f)
    BY <1>1 DEF Doomed, Apart
  <2>2. \A i \in 1..n : Apart(s[i], f) <=> Apart(f, s[i])
    BY DEF Apart
  <2>3. (\A i \in DOMAIN t : KeepsDoomed(t[i])) <=>
            (\A i \in DOMAIN s : KeepsDoomed(s[i])) /\ KeepsDoomed(f)
    BY <1>1, <1>3
  <2>4. (\A i, j \in DOMAIN t : i # j => Apart(t[i], t[j])) <=>
            /\ \A i, j \in DOMAIN s : i # j => Apart(s[i], s[j])
            /\ \A i \in DOMAIN s : Apart(s[i], f)
    BY <1>1, <1>3, <2>2
  <2> QED
    BY <1>1, <2>1, <2>3, <2>4 DEF DoomedOnce
<1> QED
  BY <1>1, <1>2, <1>4, <1>5, <1>6, <1>7, <1>8, <1>9 DEF t, AddsCall

\* A call ends: what it leaves is what it was made from.
LEMMA Popped ==
    ASSUME NEW s \in Seq(CallFrames), s # <<>>
    PROVE  LET t == SubSeq(s, 1, Len(s) - 1)
           IN  /\ t \in Seq(CallFrames)
               /\ s[Len(s)] \in CallFrames
               /\ s = Append(t, s[Len(s)])
<1> DEFINE n == Len(s)
           t == SubSeq(s, 1, n - 1)
<1>1. n \in Nat \ {0} /\ \A i \in 1..n : s[i] \in CallFrames
  BY EmptySeq, LenProperties, ElementOfSeq
<1>2. /\ t \in Seq(CallFrames) /\ Len(t) = n - 1
      /\ \A i \in 1..n - 1 : t[i] = s[i]
  <2>1. PICK a \in Int, b \in Int : a = 1 /\ b = n - 1
    BY <1>1
  <2>2. \A i \in a..b : s[i] \in CallFrames
    BY <1>1, <2>1
  <2>3. /\ SubSeq(s, a, b) \in Seq(CallFrames)
        /\ Len(SubSeq(s, a, b)) = IF a <= b THEN b - a + 1 ELSE 0
        /\ \A i \in 1..b - a + 1 : SubSeq(s, a, b)[i] = s[a + i - 1]
    BY <2>2, SubSeqProperties
  <2> QED
    BY <1>1, <2>1, <2>3
<1>3. s[n] \in CallFrames
  BY <1>1
<1> HIDE DEF n, t
<1>4. /\ Append(t, s[n]) \in Seq(CallFrames) /\ Len(Append(t, s[n])) = n
      /\ Append(t, s[n])[n] = s[n]
      /\ \A i \in 1..n - 1 : Append(t, s[n])[i] = s[i]
  BY <1>1, <1>2, <1>3, AppendProperties
<1>5. \A i \in 1..n : Append(t, s[n])[i] = s[i]
  BY <1>1, <1>4
<1>6. Append(t, s[n]) = s
  BY <1>4, <1>5, SeqEqual DEF n
<1> QED
  BY <1>2, <1>3, <1>6 DEF n, t

\* Adding an element.
LEMMA Added ==
    ASSUME NEW s \in Seq(Elements), NEW e \in Elements
    PROVE  AddsEntry(Append(s, e), s, e)
<1> DEFINE n == Len(s)
           t == Append(s, e)
<1>1. n \in Nat /\ DOMAIN s = 1..n /\ DOMAIN t = 1..n + 1 /\ Len(t) = n + 1
      /\ t \in Seq(Elements) /\ t[n + 1] = e /\ \A i \in 1..n : t[i] = s[i]
  BY AppendProperties, LenProperties
<1> HIDE DEF n, t
<1>2. 1..n + 1 = 1..n \cup {n + 1} /\ n + 1 \notin 1..n
  BY <1>1
<1>3. t # <<>>
  BY <1>1, EmptySeq
<1>4. Serials(t) = Serials(s) \cup {e.serial} /\ Ids(t) = Ids(s) \cup {e.id}
  BY <1>1, <1>2 DEF Serials, Ids
<1>5. OncePerSerial(s) /\ e.serial \notin Serials(s) => OncePerSerial(t)
  BY <1>1, <1>2 DEF Serials, OncePerSerial
<1>6. OncePerId(s) /\ e.id \notin Ids(s) => OncePerId(t)
  BY <1>1, <1>2 DEF Ids, OncePerId
<1>7. (\E i \in DOMAIN t : t[i].remove_requested) <=>
          e.remove_requested \/ \E i \in DOMAIN s : s[i].remove_requested
  BY <1>1, <1>2
<1> QED
  BY <1>1, <1>3, <1>4, <1>5, <1>6, <1>7 DEF t, AddsEntry

\* Two vectors in one, as Clear and Commit move them out.
LEMMA Joined ==
    ASSUME NEW s \in Seq(Elements), NEW t \in Seq(Elements)
    PROVE  /\ s \o t \in Seq(Elements)
           /\ s \o t = <<>> <=> s = <<>> /\ t = <<>>
           /\ Serials(s \o t) = Serials(s) \cup Serials(t)
           /\ Ids(s \o t) = Ids(s) \cup Ids(t)
           /\ OncePerSerial(s) /\ OncePerSerial(t) /\ Serials(s) \cap Serials(t) = {}
                  => OncePerSerial(s \o t)
           /\ OncePerId(s) /\ OncePerId(t) /\ Ids(s) \cap Ids(t) = {} => OncePerId(s \o t)
<1> DEFINE n == Len(s)
           m == Len(t)
           u == s \o t
<1>1. n \in Nat /\ m \in Nat /\ DOMAIN s = 1..n /\ DOMAIN t = 1..m /\ DOMAIN u = 1..n + m
      /\ u \in Seq(Elements)
      /\ \A i \in 1..n + m : u[i] = IF i <= n THEN s[i] ELSE t[i - n]
  BY ConcatProperties, LenProperties
<1>2. u = <<>> <=> s = <<>> /\ t = <<>>
  BY ConcatEqualIffEmpty
<1> HIDE DEF n, m, u
<1>3. /\ \A i \in DOMAIN s : i \in DOMAIN u /\ u[i] = s[i]
      /\ \A i \in DOMAIN t : i + n \in DOMAIN u /\ u[i + n] = t[i]
  <2>1. \A i \in 1..m : i + n \in 1..n + m /\ ~(i + n <= n) /\ i + n - n = i
    BY <1>1
  <2>2. \A i \in 1..n : i \in 1..n + m /\ i <= n
    BY <1>1
  <2>3. ASSUME NEW i \in 1..m PROVE u[i + n] = t[i]
    BY <1>1, <2>1
  <2>4. ASSUME NEW i \in 1..n PROVE u[i] = s[i]
    BY <1>1, <2>2
  <2> QED
    BY <1>1, <2>1, <2>2, <2>3, <2>4
<1>4. \A i \in DOMAIN u : \/ i \in DOMAIN s /\ u[i] = s[i]
                          \/ \E j \in DOMAIN t : i = j + n /\ u[i] = t[j]
  <2>1. ASSUME NEW i \in 1..n + m, ~(i <= n)
        PROVE  i - n \in 1..m /\ i = (i - n) + n /\ u[i] = t[i - n]
    BY <1>1, <2>1
  <2>2. ASSUME NEW i \in 1..n + m, i <= n PROVE i \in 1..n /\ u[i] = s[i]
    BY <1>1, <2>2
  <2> QED
    BY <1>1, <2>1, <2>2
<1>5. Serials(u) = Serials(s) \cup Serials(t) /\ Ids(u) = Ids(s) \cup Ids(t)
  BY <1>3, <1>4 DEF Serials, Ids
<1>6. ASSUME OncePerSerial(s), OncePerSerial(t), Serials(s) \cap Serials(t) = {}
      PROVE  OncePerSerial(u)
  <2>1. \A i \in DOMAIN s, j \in DOMAIN t : s[i].serial # t[j].serial
    BY <1>6 DEF Serials
  <2> QED
    BY <1>4, <1>6, <2>1 DEF OncePerSerial
<1>7. ASSUME OncePerId(s), OncePerId(t), Ids(s) \cap Ids(t) = {}
      PROVE  OncePerId(u)
  <2>1. \A i \in DOMAIN s, j \in DOMAIN t : s[i].id # t[j].id
    BY <1>7 DEF Ids
  <2> QED
    BY <1>4, <1>7, <2>1 DEF OncePerId
<1> QED
  BY <1>1, <1>2, <1>5, <1>6, <1>7 DEF u

\* The next destructor.
LEMMA Taken ==
    ASSUME NEW s \in Seq(Elements), s # <<>>, OncePerSerial(s)
    PROVE  /\ Tail(s) \in Seq(Elements) /\ Head(s) \in Elements
           /\ OncePerSerial(Tail(s))
           /\ Head(s).serial \notin Serials(Tail(s))
           /\ Serials(s) = Serials(Tail(s)) \cup {Head(s).serial}
<1> DEFINE n == Len(s)
           t == Tail(s)
<1>1. n \in Nat \ {0} /\ DOMAIN s = 1..n /\ Head(s) = s[1]
  BY EmptySeq, LenProperties
<1>2. /\ t \in Seq(Elements) /\ Head(s) \in Elements /\ Len(t) = n - 1
      /\ \A i \in 1..n - 1 : t[i] = s[i + 1]
  BY HeadTailProperties
<1>3. DOMAIN t = 1..n - 1
  BY <1>2, LenProperties
<1> HIDE DEF n, t
<1>4. \A j \in DOMAIN t : j + 1 \in DOMAIN s /\ j + 1 # 1 /\ s[j + 1] = t[j]
  <2>1. \A j \in 1..n - 1 : j + 1 \in 1..n /\ j + 1 # 1
    BY <1>1
  <2> QED
    BY <1>1, <1>2, <1>3, <2>1
<1>5. \A i \in DOMAIN s : i = 1 \/ \E j \in DOMAIN t : i = j + 1 /\ s[i] = t[j]
  <2>1. \A i \in 1..n : i = 1 \/ (i - 1 \in 1..n - 1 /\ i = (i - 1) + 1)
    BY <1>1
  <2>2. ASSUME NEW i \in 1..n, i # 1
        PROVE  i - 1 \in DOMAIN t /\ i = (i - 1) + 1 /\ s[i] = t[i - 1]
    <3>1. i - 1 \in 1..n - 1 /\ i = (i - 1) + 1
      BY <2>1, <2>2, Zenon
    <3>2. t[i - 1] = s[(i - 1) + 1]
      BY <1>2, <3>1, Zenon
    <3> QED
      BY <1>3, <3>1, <3>2, Zenon
  <2> QED
    BY <1>1, <2>2, Zenon
<1>6. 1 \in DOMAIN s
  BY <1>1
<1>7. OncePerSerial(t)
  <2> SUFFICES ASSUME NEW i \in DOMAIN t, NEW j \in DOMAIN t, t[i].serial = t[j].serial
               PROVE  i = j
    BY DEF OncePerSerial
  <2>1. i + 1 = j + 1
    BY <1>4 DEF OncePerSerial
  <2> QED
    BY <1>1, <1>3, <2>1
<1>8. Head(s).serial \notin Serials(t)
  <2> SUFFICES ASSUME NEW j \in DOMAIN t, t[j].serial = s[1].serial PROVE FALSE
    BY <1>1 DEF Serials
  <2> QED
    BY <1>4, <1>6 DEF OncePerSerial
<1>9. Serials(s) = Serials(t) \cup {Head(s).serial}
  BY <1>1, <1>4, <1>5, <1>6 DEF Serials
<1> QED
  BY <1>2, <1>7, <1>8, <1>9 DEF t

\* Marks for removal change nothing else.
LEMMA Unchanged ==
    ASSUME NEW s, NEW t, DOMAIN s = DOMAIN t,
           \A i \in DOMAIN s : s[i].serial = t[i].serial /\ s[i].id = t[i].id
    PROVE  /\ Serials(s) = Serials(t) /\ Ids(s) = Ids(t)
           /\ OncePerSerial(s) <=> OncePerSerial(t)
           /\ OncePerId(s) <=> OncePerId(t)
  BY DEF Serials, Ids, OncePerSerial, OncePerId

LEMMA MarkedIs ==
    ASSUME NEW s \in Seq(Elements), NEW id
    PROVE  /\ Marked(s, id) \in Seq(Elements)
           /\ DOMAIN Marked(s, id) = DOMAIN s
           /\ \A i \in DOMAIN s : /\ Marked(s, id)[i].serial = s[i].serial
                                  /\ Marked(s, id)[i].id = s[i].id
<1> DEFINE n == Len(s)
           t == Marked(s, id)
<1>1. n \in Nat /\ DOMAIN s = 1..n /\ \A i \in 1..n : s[i] \in Elements
  BY LenProperties, ElementOfSeq
<1>2. /\ DOMAIN t = DOMAIN s
      /\ \A i \in DOMAIN s : /\ t[i] \in Elements
                             /\ t[i].serial = s[i].serial /\ t[i].id = s[i].id
  BY <1>1 DEF Marked, Elements
<1>3. t = [i \in 1..n |-> t[i]]
  BY <1>1 DEF Marked
<1>4. t \in Seq(Elements)
  <2> HIDE DEF t, n
  <2> QED
    BY <1>1, <1>2, <1>3
<1> QED
  BY <1>2, <1>4

LEMMA RequestedIs ==
    ASSUME NEW s \in Seq(Elements), NEW k
    PROVE  LET t == [s EXCEPT ![k].remove_requested = TRUE]
           IN  /\ t \in Seq(Elements)
               /\ DOMAIN t = DOMAIN s
               /\ \A i \in DOMAIN s : t[i].serial = s[i].serial /\ t[i].id = s[i].id
<1> DEFINE n == Len(s)
           t == [s EXCEPT ![k].remove_requested = TRUE]
<1>1. n \in Nat /\ DOMAIN s = 1..n /\ \A i \in 1..n : s[i] \in Elements
  BY LenProperties, ElementOfSeq
<1>2. /\ DOMAIN t = DOMAIN s
      /\ \A i \in DOMAIN s : /\ t[i] \in Elements
                             /\ t[i].serial = s[i].serial /\ t[i].id = s[i].id
  BY <1>1 DEF Elements
<1>3. t = [i \in 1..n |-> t[i]]
  BY <1>1
<1>4. t \in Seq(Elements)
  <2> HIDE DEF t, n
  <2> QED
    BY <1>1, <1>2, <1>3
<1> QED
  BY <1>2, <1>4

\* A set of positions can be listed in order.
LEMMA Listed ==
    ASSUME NEW n \in Nat, NEW S \in SUBSET (1..n)
    PROVE  /\ Cardinality(S) \in Nat
           /\ \E f \in [1..Cardinality(S) -> S] :
                  \A i, j \in DOMAIN f : i < j => f[i] < f[j]
<1> DEFINE c == Cardinality(S)
           upto(i) == {j \in S : j <= i}
           r == [i \in S |-> Cardinality(upto(i))]
<1>1. IsFiniteSet(S) /\ c \in Nat /\ S \in SUBSET Nat
  <2>1. \A k \in 1..n : k \in Nat
    OBVIOUS
  <2>2. IsFiniteSet(1..n)
    <3>1. 1 \in Int /\ n \in Int
      OBVIOUS
    <3> QED
      BY <3>1, FS_Interval, Zenon
  <2> QED
    BY <2>1, <2>2, FS_Subset, FS_CardinalityType, Zenon
<1>2. \A i \in S : IsFiniteSet(upto(i)) /\ Cardinality(upto(i)) \in 1..c
  <2> SUFFICES ASSUME NEW i \in S
               PROVE  IsFiniteSet(upto(i)) /\ Cardinality(upto(i)) \in 1..c
    OBVIOUS
  <2>1. upto(i) \in SUBSET S /\ i \in upto(i)
    BY <1>1
  <2> HIDE DEF upto
  <2>2. IsFiniteSet(upto(i)) /\ Cardinality(upto(i)) <= c /\ Cardinality(upto(i)) \in Nat
    BY <1>1, <2>1, FS_Subset, FS_CardinalityType
  <2>3. Cardinality(upto(i)) # 0
    BY <2>1, <2>2, FS_EmptySet
  <2> QED
    BY <1>1, <2>2, <2>3
<1>3. \A i, k \in S : i < k => Cardinality(upto(i)) < Cardinality(upto(k))
  <2> SUFFICES ASSUME NEW i \in S, NEW k \in S, i < k
               PROVE  Cardinality(upto(i)) < Cardinality(upto(k))
    OBVIOUS
  <2>1. upto(i) \in SUBSET upto(k) /\ k \in upto(k) /\ k \notin upto(i)
    <3>1. i \in Nat /\ k \in Nat /\ k <= k /\ ~(k <= i)
      BY <1>1
    <3>2. \A j \in S : j <= i => j <= k
      BY <1>1, <3>1
    <3> QED
      BY <3>1, <3>2, Zenon
  <2> HIDE DEF upto
  <2>2. /\ Cardinality(upto(i)) <= Cardinality(upto(k))
        /\ Cardinality(upto(i)) # Cardinality(upto(k))
    BY <1>2, <2>1, FS_Subset
  <2> QED
    BY <1>2, <2>2
<1> HIDE DEF upto
<1>4. r \in Injection(S, 1..c)
  <2>1. r \in [S -> 1..c]
    BY <1>2
  <2>2. ASSUME NEW i \in S, NEW k \in S, r[i] = r[k] PROVE i = k
    <3>1. i \in Int /\ k \in Int /\ ~(i < k) /\ ~(k < i)
      BY <1>1, <1>2, <1>3, <2>2
    <3> QED
      BY <3>1
  <2> QED
    BY <2>1, <2>2, Fun_IsInj
<1>5. r \in Surjection(S, 1..c)
  <2>1. IsFiniteSet(1..c) /\ Cardinality(1..c) = c
    <3>1. PICK a \in Int, b \in Int : a = 1 /\ b = c
      BY <1>1
    <3>2. IsFiniteSet(a..b) /\ Cardinality(a..b) = IF a > b THEN 0 ELSE b - a + 1
      BY FS_Interval
    <3> HIDE DEF c
    <3> QED
      BY <1>1, <3>1, <3>2
  <2> HIDE DEF r
  <2> QED
    BY <1>4, <2>1, FS_Injection
<1> DEFINE f == [k \in 1..c |-> CHOOSE i \in S : r[i] = k]
<1>6. \A k \in 1..c : f[k] \in S /\ r[f[k]] = k
  <2> HIDE DEF r
  <2>1. \A k \in 1..c : \E i \in S : r[i] = k
    BY <1>5, Fun_SurjectionProperties
  <2> QED
    BY <2>1
<1>7. ASSUME NEW i \in 1..c, NEW j \in 1..c, i < j PROVE f[i] < f[j]
  <2>1. \A a, b \in S : r[a] < r[b] => a < b
    <3> SUFFICES ASSUME NEW a \in S, NEW b \in S, r[a] < r[b] PROVE a < b
      OBVIOUS
    <3>1. r[a] \in Int /\ r[b] \in Int /\ (b < a => r[b] < r[a])
      BY <1>2, <1>3
    <3>2. a # b /\ ~(b < a)
      BY <3>1
    <3> QED
      BY <1>1, <3>2
  <2> HIDE DEF r, f
  <2> QED
    BY <1>6, <1>7, <2>1
<1>8. f \in [1..c -> S] /\ DOMAIN f = 1..c
  BY <1>6
<1> QED
  <2> HIDE DEF f
  <2> QED
    BY <1>1, <1>7, <1>8

\* What Commit sorts out.
LEMMA Selected ==
    ASSUME NEW s \in Seq(Elements), NEW S \in SUBSET DOMAIN s
    PROVE  LET t == Subsequence(s, S)
           IN  /\ t \in Seq(Elements)
               /\ \A k \in DOMAIN t : \E i \in S : t[k] = s[i]
               /\ S = {} => t = <<>>
               /\ Serials(t) = {s[i].serial : i \in S}
               /\ Ids(t) = {s[i].id : i \in S}
               /\ OncePerSerial(s) => OncePerSerial(t)
               /\ OncePerId(s) => OncePerId(t)
<1> DEFINE n == Len(s)
           c == Cardinality(S)
           t == Subsequence(s, S)
           f == CHOOSE f \in [1..c -> S] : \A i, j \in DOMAIN f : i < j => f[i] < f[j]
<1>1. n \in Nat /\ DOMAIN s = 1..n /\ S \in SUBSET (1..n) /\ \A i \in 1..n : s[i] \in Elements
  BY LenProperties, ElementOfSeq
<1>2. c \in Nat /\ f \in [1..c -> S] /\ \A i, j \in DOMAIN f : i < j => f[i] < f[j]
  BY <1>1, Listed
<1>3. t = [k \in 1..c |-> s[f[k]]]
  BY <1>2 DEF Subsequence
<1> HIDE DEF f, t, c, n
<1>4. \A i, j \in 1..c : f[i] = f[j] => i = j
  <2> SUFFICES ASSUME NEW i \in 1..c, NEW j \in 1..c, f[i] = f[j] PROVE i = j
    OBVIOUS
  <2>1. f[i] \in Int /\ i \in Int /\ j \in Int
    BY <1>1, <1>2
  <2>2. ~(i < j) /\ ~(j < i)
    BY <1>2, <2>1
  <2> QED
    BY <2>1, <2>2
<1>5. \A i \in S : \E k \in 1..c : f[k] = i
  <2>1. IsFiniteSet(S)
    BY <1>1, FS_Interval, FS_Subset
  <2>2. IsFiniteSet(1..c) /\ Cardinality(1..c) = c
    <3>1. PICK a \in Int, b \in Int : a = 1 /\ b = c
      BY <1>2
    <3>2. IsFiniteSet(a..b) /\ Cardinality(a..b) = IF a > b THEN 0 ELSE b - a + 1
      BY FS_Interval
    <3> QED
      BY <1>2, <3>1, <3>2
  <2>3. f \in Injection(1..c, S)
    BY <1>2, <1>4, Fun_IsInj
  <2>4. f \in Surjection(1..c, S)
    BY <2>1, <2>2, <2>3, FS_Injection DEF c
  <2> QED
    BY <2>4 DEF Surjection
<1>6. \A k \in 1..c : f[k] \in S /\ t[k] = s[f[k]] /\ t[k] \in Elements
  BY <1>1, <1>2, <1>3
<1>7. DOMAIN t = 1..c /\ t \in Seq(Elements)
  <2>1. DOMAIN t = 1..c /\ t \in [1..c -> Elements]
    BY <1>3, <1>6
  <2> QED
    BY <1>2, <2>1, IsASeq
<1>8. S = {} => t = <<>>
  <2> SUFFICES ASSUME S = {} PROVE t = <<>>
    OBVIOUS
  <2>1. c = 0
    BY FS_EmptySet DEF c
  <2>2. Len(t) = 0
    BY <1>7, <2>1, LenProperties
  <2> QED
    BY <1>7, <2>2, EmptySeq
<1>9. Serials(t) = {s[i].serial : i \in S} /\ Ids(t) = {s[i].id : i \in S}
  <2>1. \A k \in DOMAIN t : \E i \in S : t[k] = s[i]
    BY <1>6, <1>7
  <2>2. \A i \in S : \E k \in DOMAIN t : t[k] = s[i]
    BY <1>5, <1>6, <1>7
  <2> QED
    BY <2>1, <2>2 DEF Serials, Ids
<1>10. OncePerSerial(s) => OncePerSerial(t)
  BY <1>1, <1>4, <1>6, <1>7 DEF OncePerSerial
<1>11. OncePerId(s) => OncePerId(t)
  BY <1>1, <1>4, <1>6, <1>7 DEF OncePerId
<1> QED
  BY <1>6, <1>7, <1>8, <1>9, <1>10, <1>11 DEF t

-----------------------------------------------------------------------------
(* Every step preserves the invariant                                      *)

LEMMA PointKinds ==
    /\ UpdatePoints \subseteq FramePoints /\ FramePoints \subseteq TickPoints
    /\ TickPoints \subseteq Points /\ UserPoints \subseteq Points /\ "commit" \in Points
    /\ TickPoints \cap DispatchPoints = {} /\ TickPoints \cap ClosingPoints = {}
    /\ DispatchPoints \cap ClosingPoints = {}
    /\ "commit" \notin TickPoints \cup DispatchPoints \cup ClosingPoints
    /\ "tick" \in TickPoints \ FramePoints /\ "command" \in TickPoints \ FramePoints
    /\ "render" \in FramePoints \ UpdatePoints
    /\ "update" \in UpdatePoints /\ "updating" \in UpdatePoints
    /\ "before" \in DispatchPoints /\ "after" \in DispatchPoints
    /\ "destroying" \in ClosingPoints /\ "clearing" \in ClosingPoints
    /\ DispatchPoints \subseteq UserPoints /\ ClosingPoints \subseteq UserPoints
  BY DEF Points, TickPoints, DispatchPoints, FramePoints, UpdatePoints,
         ClosingPoints, UserPoints

LEMMA Within ==
    ASSUME NEW s, NEW P, NEW Q, P \subseteq Q, In(s, P)
    PROVE  In(s, Q)
  BY DEF In

\* What At, Goes, Calls and Returns do to the stack.
LEMMA TopIs ==
    ASSUME Shape, NEW point, At(point)
    PROVE  /\ AddsCall(stack, Below, Top)
           /\ Top \in CallFrames /\ Top.at = point
           /\ Below \in Seq(CallFrames)
<1>1. stack \in Seq(CallFrames) /\ stack # <<>> /\ Top.at = point
  BY DEF Shape, At
<1>2. Below \in Seq(CallFrames) /\ Top \in CallFrames /\ stack = Append(Below, Top)
  BY <1>1, Popped, Zenon DEF Top, Below
<1>3. AddsCall(Append(Below, Top), Below, Top)
  BY <1>2, Pushed
<1> QED
  BY <1>1, <1>2, <1>3, Zenon

LEMMA GoesIs ==
    ASSUME Shape, NEW point, At(point), NEW f \in CallFrames, Goes(f)
    PROVE  AddsCall(stack', Below, f)
  BY TopIs, Pushed DEF Goes

LEMMA CallsIs ==
    ASSUME Shape, NEW f \in CallFrames, Calls(f)
    PROVE  AddsCall(stack', stack, f)
  BY Pushed DEF Shape, Calls

LEMMA FrameIs ==
    ASSUME NEW point \in Points
    PROVE  /\ Frame(point) \in CallFrames
           /\ Frame(point).at = point /\ Frame(point).doomed = <<>>
  BY EmptySeq DEF Frame, CallFrames, Actions

LEMMA NoneIs ==
    /\ <<>> \in Seq(Elements)
    /\ Serials(<<>>) = {} /\ Ids(<<>>) = {}
    /\ OncePerSerial(<<>>) /\ OncePerId(<<>>)
    /\ ~In(<<>>, TickPoints)
    /\ \A i \in DOMAIN <<>> : FALSE
  <1>1. \A i \in DOMAIN <<>> : FALSE
    BY EmptySeq
  <1> QED
    BY <1>1, EmptySeq DEF Serials, Ids, OncePerSerial, OncePerId, In

LEMMA InitializeStep == Inv /\ Initialize => Inv'
<1> SUFFICES ASSUME Inv, Initialize PROVE Inv'
  OBVIOUS
<1> USE DEF Inv
<1>1. /\ lifecycle = "Empty" /\ m_elements = <<>> /\ m_pending_elements = <<>>
      /\ ~In(stack, TickPoints) /\ ~In(stack, DispatchPoints) /\ ~In(stack, {"clearing"})
      /\ ~In(stack, FramePoints)
  BY Within, PointKinds DEF Initialize, Teardown
<1>2. Shape'
  <2>1. m_next_id' \in 1..made + 1
    BY DEF Initialize, Shape
  <2>2. made' = made /\ destroyed' = destroyed /\ interrupted' = interrupted
    BY DEF Initialize, history
  <2> QED
    BY <2>1, <2>2 DEF Initialize, Shape, Lifecycles
<1>3. Flags'
  BY <1>1 DEF Initialize, Flags
<1>4. Teardown'
  BY <1>1 DEF Initialize, Teardown
<1>5. Iteration'
  BY DEF Initialize, Iteration
<1>6. Promised'
  BY DEF Initialize, Promised, HasRemovals, history
<1>7. Ownership'
  BY DEF Initialize, Ownership, history, Dead, Live
<1>8. Identifiers'
  BY <1>1, NoneIs DEF Initialize, Identifiers, Shape
<1> QED
  BY <1>2, <1>3, <1>4, <1>5, <1>6, <1>7, <1>8

LEMMA ShutdownStep == Inv /\ Shutdown => Inv'
<1> SUFFICES ASSUME Inv, Shutdown PROVE Inv'
  OBVIOUS
<1> USE DEF Inv
<1> DEFINE all == m_elements \o m_pending_elements
           f == [Frame("clearing") EXCEPT !.doomed = all]
<1>1. /\ all \in Seq(Elements)
      /\ Serials(all) = Live
      /\ OncePerSerial(all)
  BY Joined DEF Shape, Ownership, Live
<1>2. /\ f \in CallFrames /\ f.at = "clearing" /\ f.doomed = all
  BY <1>1, PointKinds DEF Frame, CallFrames, Actions
<1> HIDE DEF f, all
<1>3. AddsCall(stack', stack, f)
  BY <1>2, CallsIs DEF Shutdown, f, all
<1>4. /\ ~In(stack, TickPoints) /\ ~In(stack, DispatchPoints) /\ ~In(stack, {"clearing"})
      /\ ~In(stack, FramePoints) /\ ~In(stack, UpdatePoints)
  BY Within, PointKinds DEF Shutdown, MayShutdown, Flags, Teardown
<1>5. Shape'
  BY <1>3, NoneIs DEF Shutdown, Shape, history, Lifecycles, CloseDispatcher, AddsCall
<1>6. Flags'
  BY <1>2, <1>3, <1>4, PointKinds DEF Shutdown, Flags, CloseDispatcher, AddsCall
<1>7. Teardown'
  BY <1>2, <1>3, <1>4, PointKinds DEF Shutdown, Teardown, AddsCall
<1>8. Iteration'
  BY <1>2, <1>3, <1>4, PointKinds DEF Shutdown, Iteration, AddsCall
<1>9. Promised'
  BY <1>2, <1>3, PointKinds DEF Shutdown, Promised, AddsCall
<1>10. Ownership'
  BY <1>1, <1>2, <1>3, PointKinds, NoneIs
  DEF Shutdown, Ownership, history, Dead, Live, AddsCall, KeepsDoomed
<1>11. Identifiers'
  BY NoneIs DEF Shutdown, Identifiers
<1> QED
  BY <1>5, <1>6, <1>7, <1>8, <1>9, <1>10, <1>11

\* A call that has no destructors to run moves on, begins or ends.
LEMMA MovesOn ==
    ASSUME Inv, NEW point, At(point), point \notin ClosingPoints,
           NEW f \in CallFrames, f.doomed = <<>>, Goes(f)
    PROVE  /\ AddsCall(stack, Below, Top) /\ Top.at = point /\ AddsCall(stack', Below, f)
           /\ Doomed(stack') = Doomed(stack) /\ DoomedOnce(stack')
<1>1. /\ AddsCall(stack, Below, Top) /\ Top.at = point
      /\ AddsCall(stack', Below, f)
  BY TopIs, GoesIs DEF Inv
<1>2. Top.doomed = <<>> /\ DoomedOnce(stack)
  BY <1>1 DEF AddsCall, KeepsDoomed, Inv, Ownership
<1>3. KeepsDoomed(f)
  BY NoneIs DEF KeepsDoomed
<1> QED
  BY <1>1, <1>2, <1>3, NoneIs DEF AddsCall

LEMMA Begins ==
    ASSUME Inv, NEW point \in Points, Calls(Frame(point))
    PROVE  /\ AddsCall(stack', stack, Frame(point)) /\ Frame(point).at = point
           /\ Doomed(stack') = Doomed(stack) /\ DoomedOnce(stack')
<1>1. AddsCall(stack', stack, Frame(point)) /\ Frame(point).doomed = <<>> /\ Frame(point).at = point
  BY FrameIs, CallsIs DEF Inv
<1>2. KeepsDoomed(Frame(point))
  BY <1>1, NoneIs DEF KeepsDoomed
<1> QED
  BY <1>1, <1>2, NoneIs DEF AddsCall, Inv, Ownership

LEMMA Ends ==
    ASSUME Inv, NEW point, At(point), point \notin ClosingPoints, Returns
    PROVE  /\ AddsCall(stack, stack', Top) /\ Top.at = point
           /\ stack' \in Seq(CallFrames)
           /\ Doomed(stack') = Doomed(stack) /\ DoomedOnce(stack')
           /\ OnTop(stack', {"clearing"}) /\ ~In(stack', {"clearing"})
           /\ OnTop(stack', UpdatePoints) /\ ~In(stack', UpdatePoints)
<1>1. AddsCall(stack, stack', Top) /\ Top.at = point /\ stack' \in Seq(CallFrames)
  BY TopIs DEF Inv, Returns
<1>2. Doomed(stack') = Doomed(stack) /\ DoomedOnce(stack')
  BY <1>1, NoneIs DEF AddsCall, KeepsDoomed, Inv, Ownership
<1>3. ~In(stack', {"clearing"}) /\ ~In(stack', UpdatePoints)
  BY <1>1 DEF AddsCall, Inv, Teardown, Iteration
<1>4. OnTop(stack', {"clearing"}) /\ OnTop(stack', UpdatePoints)
  BY <1>3 DEF In, OnTop
<1> QED
  BY <1>1, <1>2, <1>3, <1>4

LEMMA SameOwners ==
    ASSUME Inv, UNCHANGED <<m_elements, m_pending_elements, made, destroyed>>,
           Doomed(stack') = Doomed(stack), DoomedOnce(stack')
    PROVE  Ownership'
  BY DEF Inv, Ownership, Live, Dead

LEMMA SameIdentifiers ==
    ASSUME Inv, UNCHANGED <<m_elements, m_pending_elements, m_next_id>>
    PROVE  Identifiers'
  BY DEF Inv, Identifiers

LEMMA RequestExitStep == Inv /\ RequestExit => Inv'
<1> SUFFICES ASSUME Inv, RequestExit PROVE Inv'
  OBVIOUS
<1> USE DEF Inv, RequestExit, flags, registry, history
<1>1. Shape'
  BY DEF Shape
<1>2. Flags' /\ Teardown' /\ Iteration'
  BY DEF Flags, Teardown, Iteration
<1>3. Promised'
  BY DEF Promised, HasRemovals
<1>4. Ownership' /\ Identifiers'
  BY SameOwners, SameIdentifiers DEF Ownership
<1> QED
  BY <1>1, <1>2, <1>3, <1>4

LEMMA TickStep == Inv /\ Tick => Inv'
<1> SUFFICES ASSUME Inv, Tick PROVE Inv'
  OBVIOUS
<1> USE DEF Inv
<1>1. /\ AddsCall(stack', stack, Frame("tick")) /\ Frame("tick").at = "tick"
      /\ Doomed(stack') = Doomed(stack) /\ DoomedOnce(stack')
  BY Begins, PointKinds DEF Tick
<1>2. /\ ~In(stack, TickPoints) /\ ~In(stack, FramePoints) /\ ~In(stack, UpdatePoints)
      /\ ~In(stack, {"clearing"})
  BY Within, PointKinds DEF Tick, MayTick, Flags, Teardown
<1> USE DEF Tick, loop, registry, history
<1>3. Shape'
  BY <1>1 DEF Shape, AddsCall
<1>4. Flags'
  BY <1>1, <1>2, PointKinds DEF Flags, AddsCall
<1>5. Teardown'
  BY <1>1, <1>2, PointKinds DEF Teardown, AddsCall, MayTick, Flags
<1>6. Iteration' /\ Promised'
  BY <1>1, <1>2, PointKinds DEF Iteration, Promised, HasRemovals, AddsCall
<1>7. Ownership' /\ Identifiers'
  BY <1>1, SameOwners, SameIdentifiers
<1> QED
  BY <1>3, <1>4, <1>5, <1>6, <1>7

LEMMA DispatchEventStep == Inv /\ DispatchEvent => Inv'
<1> SUFFICES ASSUME Inv, DispatchEvent PROVE Inv'
  OBVIOUS
<1> USE DEF Inv
<1>1. /\ AddsCall(stack', stack, Frame("before")) /\ Frame("before").at = "before"
      /\ Doomed(stack') = Doomed(stack) /\ DoomedOnce(stack')
  BY Begins, PointKinds DEF DispatchEvent
<1>2. /\ ~In(stack, TickPoints) /\ ~In(stack, UpdatePoints)
      /\ ~In(stack, DispatchPoints) /\ ~In(stack, {"clearing"})
  BY Within, PointKinds DEF DispatchEvent, Flags, Teardown
<1> USE DEF DispatchEvent, loop, registry, history
<1>3. Shape'
  BY <1>1 DEF Shape, AddsCall
<1>4. Flags'
  BY <1>1, <1>2, PointKinds DEF Flags, AddsCall
<1>5. Teardown'
  BY <1>1, <1>2, PointKinds DEF Teardown, AddsCall, Flags
<1>6. Iteration' /\ Promised'
  BY <1>1, <1>2, PointKinds DEF Iteration, Promised, HasRemovals, AddsCall
<1>7. Ownership' /\ Identifiers'
  BY <1>1, SameOwners, SameIdentifiers
<1> QED
  BY <1>3, <1>4, <1>5, <1>6, <1>7

LEMMA RunCommandStep == Inv /\ (RunCommand \/ CommandReturns) => Inv'
<1> SUFFICES ASSUME Inv, RunCommand \/ CommandReturns PROVE Inv'
  OBVIOUS
<1> USE DEF Inv
<1>1. PICK from \in {"tick", "command"}, to \in {"tick", "command"} :
          At(from) /\ Goes([Top EXCEPT !.at = to])
  BY DEF RunCommand, CommandReturns
<1>2. from \in TickPoints \ FramePoints /\ to \in TickPoints \ FramePoints /\ to \in Points
  BY PointKinds
<1>3. /\ [Top EXCEPT !.at = to] \in CallFrames
      /\ [Top EXCEPT !.at = to].at = to
      /\ [Top EXCEPT !.at = to].doomed = <<>>
  <2>1. Top \in CallFrames /\ Top.at = from /\ AddsCall(stack, Below, Top)
    BY <1>1, TopIs
  <2>2. Top.doomed = <<>>
    BY <1>2, <2>1, PointKinds DEF AddsCall, Ownership, KeepsDoomed
  <2> QED
    BY <1>2, <2>1, <2>2 DEF CallFrames
<1>4. PICK f \in CallFrames :
          /\ f.at = to
          /\ AddsCall(stack, Below, Top) /\ Top.at = from /\ AddsCall(stack', Below, f)
          /\ Doomed(stack') = Doomed(stack) /\ DoomedOnce(stack')
  BY <1>1, <1>2, <1>3, MovesOn, PointKinds
<1>5. UNCHANGED <<flags, loop, registry, history>>
  BY DEF RunCommand, CommandReturns
<1> USE DEF flags, loop, registry, history
<1>6. Shape'
  BY <1>4, <1>5 DEF Shape, AddsCall
<1>7. Flags'
  BY <1>2, <1>4, <1>5, PointKinds DEF Flags, AddsCall
<1>8. Teardown'
  BY <1>2, <1>4, <1>5, PointKinds DEF Teardown, AddsCall
<1>9. Iteration' /\ Promised'
  BY <1>2, <1>4, <1>5, PointKinds DEF Iteration, Promised, HasRemovals, AddsCall
<1>10. Ownership' /\ Identifiers'
  BY <1>4, <1>5, SameOwners, SameIdentifiers
<1> QED
  BY <1>6, <1>7, <1>8, <1>9, <1>10

LEMMA QuietTop ==
    ASSUME Inv, NEW point, At(point), point \notin ClosingPoints
    PROVE  Top \in CallFrames /\ Top.at = point /\ Top.doomed = <<>>
  BY TopIs DEF Inv, Ownership, AddsCall, KeepsDoomed

\* Tick ends without a frame, or with the exit that was requested.
LEMMA TickEndsStep == Inv /\ (TickWithoutFrame \/ TickExits \/ Render) => Inv'
<1> SUFFICES ASSUME Inv, TickWithoutFrame \/ TickExits \/ Render PROVE Inv'
  OBVIOUS
<1> USE DEF Inv
<1>1. /\ Returns /\ frame_active' = FALSE
      /\ UNCHANGED <<event_dispatch_active, registry, history>>
  BY DEF TickWithoutFrame, TickExits, Render, LeaveTick
<1>2. PICK point \in {"tick", "render"} : At(point)
  BY DEF TickWithoutFrame, TickExits, Render
<1>3. point \in TickPoints \ UpdatePoints /\ (point = "tick" => point \notin FramePoints)
  BY PointKinds
<1>4. /\ AddsCall(stack, stack', Top) /\ Top.at = point
      /\ stack' \in Seq(CallFrames)
      /\ Doomed(stack') = Doomed(stack) /\ DoomedOnce(stack')
      /\ OnTop(stack', {"clearing"}) /\ ~In(stack', {"clearing"})
      /\ OnTop(stack', UpdatePoints) /\ ~In(stack', UpdatePoints)
  BY <1>1, <1>2, <1>3, Ends, PointKinds
<1>5. ~In(stack', TickPoints) /\ ~In(stack', FramePoints)
  BY <1>3, <1>4, Within, PointKinds DEF Flags, AddsCall
<1>6. /\ lifecycle' \in Lifecycles /\ dispatcher' \in {"none", "open", "closed"}
      /\ exit_requested' \in BOOLEAN
      /\ dispatcher' = "open" <=> lifecycle' = "Ready"
      /\ lifecycle' \in {"Empty", "ShuttingDown"} => lifecycle' = lifecycle
      /\ dispatcher' = "none" => dispatcher = "none"
  BY DEF TickWithoutFrame, TickExits, Render, FailFrame, CloseDispatcher, loop, Shape,
         Lifecycles, Flags
<1>7. imgui_frame_active' = FALSE
  <2>1. ASSUME point = "tick" PROVE imgui_frame_active = FALSE
    BY <1>3, <1>4, <1>5, <2>1 DEF Flags, Shape, AddsCall
  <2>2. ASSUME ~Render PROVE point = "tick"
    BY <1>2, <2>2 DEF TickWithoutFrame, TickExits, At
  <2> QED
    BY <2>1, <2>2 DEF TickWithoutFrame, TickExits, Render
<1> USE DEF registry, history
<1>8. Shape'
  BY <1>1, <1>4, <1>6, <1>7 DEF Shape
<1>9. Flags'
  BY <1>1, <1>3, <1>4, <1>5, <1>6, <1>7, PointKinds DEF Flags, AddsCall
<1>10. Teardown'
  BY <1>1, <1>3, <1>4, <1>5, <1>6, PointKinds DEF Teardown, AddsCall
<1>11. Iteration' /\ Promised'
  BY <1>1, <1>2, <1>3, <1>4, <1>5, PointKinds DEF Iteration, Promised, HasRemovals, AddsCall
<1>12. Ownership' /\ Identifiers'
  BY <1>1, <1>4, SameOwners, SameIdentifiers
<1> QED
  BY <1>8, <1>9, <1>10, <1>11, <1>12

LEMMA StartFrameStep == Inv /\ StartFrame => Inv'
<1> SUFFICES ASSUME Inv, StartFrame PROVE Inv'
  OBVIOUS
<1> USE DEF Inv
<1> DEFINE f == [Top EXCEPT !.at = "update", !.index = 1]
<1>1. At("tick") /\ "tick" \notin ClosingPoints /\ "tick" \in TickPoints \ FramePoints
  BY PointKinds DEF StartFrame
<1>2. f \in CallFrames /\ f.at = "update" /\ f.doomed = <<>>
  <2>1. "update" \in Points
    BY PointKinds
  <2> QED
    BY <1>1, <2>1, QuietTop DEF CallFrames
<1> HIDE DEF f
<1>3. /\ AddsCall(stack, Below, Top) /\ Top.at = "tick" /\ AddsCall(stack', Below, f)
      /\ Doomed(stack') = Doomed(stack) /\ DoomedOnce(stack')
  BY <1>1, <1>2, MovesOn DEF StartFrame, f
<1>4. ~In(Below, TickPoints) /\ ~In(Below, UpdatePoints) /\ ~In(Below, FramePoints)
  BY <1>1, <1>3, Within, PointKinds DEF Flags, AddsCall
<1> USE DEF loop, history
<1>5. Shape'
  BY <1>3 DEF StartFrame, Shape, AddsCall
<1>6. Flags'
  BY <1>1, <1>2, <1>3, <1>4, PointKinds DEF StartFrame, Flags, AddsCall
<1>7. Teardown'
  BY <1>1, <1>2, <1>3, PointKinds DEF StartFrame, Teardown, AddsCall
<1>8. Iteration' /\ Promised'
  BY <1>2, <1>3, <1>4, PointKinds DEF StartFrame, Iteration, Promised, AddsCall
<1>9. Ownership' /\ Identifiers'
  BY <1>3, SameOwners, SameIdentifiers DEF StartFrame
<1> QED
  BY <1>5, <1>6, <1>7, <1>8, <1>9

\* An Update begins, or returns to the loop.
LEMMA UpdateMoves ==
    ASSUME Inv, NEW from \in UpdatePoints, At(from),
           NEW f \in CallFrames, f.at \in UpdatePoints, f.doomed = <<>>, Goes(f),
           UNCHANGED <<flags, loop, m_next_id, m_updating, history, m_pending_elements>>,
           m_elements' \in Seq(Elements),
           Serials(m_elements') = Serials(m_elements), Ids(m_elements') = Ids(m_elements),
           OncePerSerial(m_elements'), OncePerId(m_elements'),
           m_elements = <<>> => m_elements' = <<>>
    PROVE  Inv'
<1> USE DEF Inv, flags, loop, history
<1>1. /\ AddsCall(stack, Below, Top) /\ Top.at = from /\ AddsCall(stack', Below, f)
      /\ Doomed(stack') = Doomed(stack) /\ DoomedOnce(stack')
  BY MovesOn, PointKinds
<1>2. from \in TickPoints /\ from \in FramePoints /\ f.at \in TickPoints /\ f.at \in FramePoints
  BY PointKinds
<1>3. Shape'
  BY <1>1 DEF Shape, AddsCall
<1>4. Flags'
  BY <1>1, <1>2, PointKinds DEF Flags, AddsCall
<1>5. Teardown'
  BY <1>1, <1>2, PointKinds DEF Teardown, AddsCall
<1>6. Iteration' /\ Promised'
  BY <1>1, <1>2, PointKinds DEF Iteration, Promised, AddsCall
<1>7. Ownership'
  BY <1>1 DEF Ownership, Live, Dead
<1>8. Identifiers'
  BY DEF Identifiers
<1> QED
  BY <1>3, <1>4, <1>5, <1>6, <1>7, <1>8

LEMMA UpdateNextStep == Inv /\ UpdateNext => Inv'
<1> SUFFICES ASSUME Inv, UpdateNext PROVE Inv'
  OBVIOUS
<1>1. At("update") /\ "update" \in UpdatePoints /\ "updating" \in UpdatePoints
      /\ "update" \in Points /\ "updating" \in Points /\ "update" \notin ClosingPoints
  BY PointKinds DEF UpdateNext
<1>2. Top \in CallFrames /\ Top.at = "update" /\ Top.doomed = <<>>
  BY <1>1, QuietTop
<1>3. PICK f \in CallFrames : f.at \in UpdatePoints /\ f.doomed = <<>> /\ Goes(f)
  <2>1. /\ [Top EXCEPT !.index = @ + 1] \in CallFrames
        /\ [Top EXCEPT !.index = @ + 1].at = "update"
        /\ [Top EXCEPT !.index = @ + 1].doomed = <<>>
    BY <1>1, <1>2 DEF CallFrames
  <2>2. /\ [Top EXCEPT !.at = "updating"] \in CallFrames
        /\ [Top EXCEPT !.at = "updating"].at = "updating"
        /\ [Top EXCEPT !.at = "updating"].doomed = <<>>
    BY <1>1, <1>2 DEF CallFrames
  <2> QED
    BY <1>1, <2>1, <2>2 DEF UpdateNext
<1>4. UNCHANGED <<flags, loop, registry, history>>
  BY DEF UpdateNext
<1> QED
  BY <1>1, <1>3, <1>4, UpdateMoves DEF registry, Inv, Shape, Ownership, Identifiers

LEMMA UpdateReturnsStep ==
    Inv /\ (\E keep_alive \in BOOLEAN : UpdateReturns(keep_alive)) => Inv'
<1> SUFFICES ASSUME Inv, NEW keep_alive \in BOOLEAN, UpdateReturns(keep_alive) PROVE Inv'
  OBVIOUS
<1> DEFINE f == [Top EXCEPT !.at = "update", !.index = @ + 1]
           marked == [m_elements EXCEPT ![Top.index].remove_requested = TRUE]
<1>1. At("updating") /\ "update" \in UpdatePoints /\ "updating" \in UpdatePoints
      /\ "update" \in Points /\ "updating" \notin ClosingPoints
  BY PointKinds DEF UpdateReturns
<1>2. Top \in CallFrames /\ Top.at = "updating" /\ Top.doomed = <<>>
  BY <1>1, QuietTop
<1>3. f \in CallFrames /\ f.at = "update" /\ f.doomed = <<>>
  <2>1. "update" \in Points
    BY <1>1
  <2>2. PICK k \in Nat : k = Top.index + 1
    BY <1>2 DEF CallFrames
  <2>3. [Top EXCEPT !.at = "update", !.index = k] \in CallFrames
    BY <1>2, <2>1 DEF CallFrames
  <2>4. f = [Top EXCEPT !.at = "update", !.index = k]
    BY <2>2
  <2> QED
    BY <1>2, <2>3, <2>4 DEF CallFrames
<1>4. /\ marked \in Seq(Elements)
      /\ Serials(marked) = Serials(m_elements) /\ Ids(marked) = Ids(m_elements)
      /\ OncePerSerial(marked) /\ OncePerId(marked)
      /\ m_elements = <<>> => marked = <<>>
  <2>1. m_elements \in Seq(Elements) /\ OncePerSerial(m_elements) /\ OncePerId(m_elements)
    BY DEF Inv, Shape, Ownership, Identifiers
  <2>2. /\ marked \in Seq(Elements) /\ DOMAIN marked = DOMAIN m_elements
        /\ \A i \in DOMAIN m_elements : /\ marked[i].serial = m_elements[i].serial
                                        /\ marked[i].id = m_elements[i].id
    BY <2>1, RequestedIs
  <2> HIDE DEF marked
  <2>3. m_elements = <<>> => marked = <<>>
    BY <2>1, <2>2, LenProperties, EmptySeq
  <2> QED
    BY <2>1, <2>2, <2>3, Unchanged
<1>5. m_elements' = m_elements \/ m_elements' = marked
  BY DEF UpdateReturns
<1>6. Goes(f) /\ UNCHANGED <<flags, loop, m_pending_elements, m_next_id, m_updating, history>>
  BY DEF UpdateReturns
<1> HIDE DEF f, marked
<1> QED
  BY <1>1, <1>3, <1>4, <1>5, <1>6, UpdateMoves DEF Inv, Shape, Ownership, Identifiers

LEMMA UpdateFailsStep == Inv /\ UpdateFails => Inv'
<1> SUFFICES ASSUME Inv, UpdateFails PROVE Inv'
  OBVIOUS
<1> USE DEF Inv
<1>1. /\ At("updating") /\ Returns /\ frame_active' = FALSE
      /\ "updating" \in TickPoints \cap UpdatePoints /\ "updating" \notin ClosingPoints
  BY PointKinds DEF UpdateFails, LeaveTick
<1>2. /\ AddsCall(stack, stack', Top) /\ Top.at = "updating"
      /\ stack' \in Seq(CallFrames)
      /\ Doomed(stack') = Doomed(stack) /\ DoomedOnce(stack')
      /\ OnTop(stack', {"clearing"}) /\ ~In(stack', {"clearing"})
      /\ OnTop(stack', UpdatePoints) /\ ~In(stack', UpdatePoints)
  BY <1>1, Ends
<1>3. ~In(stack', TickPoints) /\ ~In(stack', FramePoints)
  BY <1>1, <1>2, Within, PointKinds DEF Flags, AddsCall
<1> USE DEF loop
<1>4. Shape'
  BY <1>1, <1>2 DEF UpdateFails, Shape
<1>5. Flags'
  BY <1>1, <1>2, <1>3, PointKinds DEF UpdateFails, Flags, AddsCall
<1>6. Teardown'
  BY <1>1, <1>2, <1>3, PointKinds DEF UpdateFails, Teardown, AddsCall
<1>7. Iteration' /\ Promised'
  BY <1>2, <1>3 DEF UpdateFails, Iteration, Promised, AddsCall
<1>8. Ownership' /\ Identifiers'
  BY <1>2, SameOwners, SameIdentifiers DEF UpdateFails
<1> QED
  BY <1>4, <1>5, <1>6, <1>7, <1>8

\* Commit follows the last Update, inside the same frame.
LEMMA UpdateEndsStep == Inv /\ UpdateEnds => Inv'
<1> SUFFICES ASSUME Inv, UpdateEnds PROVE Inv'
  OBVIOUS
<1> USE DEF Inv
<1> DEFINE e == [Top EXCEPT !.at = "render"]
           f == Frame("commit")
           s == Append(Below, e)
<1>1. At("update") /\ "update" \notin ClosingPoints /\ "update" \in TickPoints
      /\ "update" \in FramePoints /\ "render" \in Points /\ "commit" \in Points
  BY PointKinds DEF UpdateEnds
<1>2. e \in CallFrames /\ e.at = "render" /\ e.doomed = <<>>
  BY <1>1, QuietTop DEF CallFrames
<1>3. f \in CallFrames /\ f.at = "commit" /\ f.doomed = <<>>
  BY <1>1, FrameIs
<1>4. stack' = Append(s, f)
  BY DEF UpdateEnds
<1>5. AddsCall(stack, Below, Top) /\ Top.at = "update" /\ Below \in Seq(CallFrames)
  BY <1>1, TopIs
<1> HIDE DEF e, f
<1>6. AddsCall(s, Below, e)
  BY <1>2, <1>5, Pushed
<1> HIDE DEF s
<1>7. AddsCall(stack', s, f)
  <2>1. s \in Seq(CallFrames)
    BY <1>6 DEF AddsCall
  <2> QED
    BY <1>3, <1>4, <2>1, Pushed
<1>8. Doomed(stack') = Doomed(stack) /\ DoomedOnce(stack')
  <2>1. Doomed(stack) = Doomed(Below) /\ DoomedOnce(Below)
    BY <1>1, <1>5, QuietTop, NoneIs DEF AddsCall, Ownership
  <2>2. KeepsDoomed(e) /\ KeepsDoomed(f)
    BY <1>2, <1>3, NoneIs DEF KeepsDoomed
  <2>3. Doomed(s) = Doomed(stack) /\ DoomedOnce(s)
    BY <1>2, <1>6, <2>1, <2>2, NoneIs DEF AddsCall
  <2> QED
    BY <1>3, <1>7, <2>2, <2>3, NoneIs DEF AddsCall
<1>9. ~In(Below, TickPoints) /\ ~In(Below, UpdatePoints) /\ ~In(Below, FramePoints)
  BY <1>1, <1>5, Within, PointKinds DEF Flags, AddsCall
<1>10. /\ m_updating' = FALSE
       /\ UNCHANGED <<flags, loop, m_elements, m_pending_elements, m_next_id, history>>
  BY DEF UpdateEnds
<1> USE DEF flags, loop, history
<1>11. Shape'
  BY <1>7, <1>10 DEF Shape, AddsCall
<1>12. /\ \A P : In(stack', P) <=> In(Below, P) \/ "render" \in P \/ "commit" \in P
       /\ \A P : In(stack, P) <=> In(Below, P) \/ "update" \in P
       /\ OnTop(stack', {"clearing"}) /\ OnTop(stack', UpdatePoints)
       /\ Once(stack', TickPoints) /\ Once(stack', DispatchPoints)
       /\ Under(stack', DispatchPoints, TickPoints)
  <2>1. \A P : In(stack', P) <=> In(Below, P) \/ "render" \in P \/ "commit" \in P
    BY <1>2, <1>3, <1>6, <1>7 DEF AddsCall
  <2>2. \A P : In(stack, P) <=> In(Below, P) \/ "update" \in P
    BY <1>5 DEF AddsCall
  <2>3. OnTop(stack', {"clearing"}) /\ OnTop(stack', UpdatePoints)
    <3>1. ~In(Below, {"clearing"})
      BY <1>5 DEF AddsCall, Teardown
    <3> QED
      BY <1>2, <1>6, <1>7, <1>9, <3>1, PointKinds DEF AddsCall
  <2>4. Once(stack', TickPoints) /\ Once(stack', DispatchPoints)
    BY <1>2, <1>3, <1>5, <1>6, <1>7, <1>9, PointKinds DEF AddsCall, Flags
  <2>5. Under(stack', DispatchPoints, TickPoints)
    BY <1>2, <1>3, <1>5, <1>6, <1>7, PointKinds DEF AddsCall, Flags
  <2> QED
    BY <2>1, <2>2, <2>3, <2>4, <2>5
<1>13. Flags'
  BY <1>1, <1>10, <1>12, PointKinds DEF Flags
<1>14. Teardown'
  BY <1>1, <1>10, <1>12, PointKinds DEF Teardown
<1>15. Iteration' /\ Promised'
  BY <1>9, <1>10, <1>12, PointKinds DEF Iteration, Promised
<1>16. Ownership' /\ Identifiers'
  BY <1>8, <1>10, SameOwners, SameIdentifiers
<1> QED
  BY <1>11, <1>13, <1>14, <1>15, <1>16

\* An event ends.
LEMMA EventEndsStep ==
    Inv /\ (HookFails \/ \E answer \in Actions : AfterHookReturns(answer)) => Inv'
<1> SUFFICES ASSUME Inv, HookFails \/ \E answer \in Actions : AfterHookReturns(answer)
             PROVE  Inv'
  OBVIOUS
<1> USE DEF Inv
<1>1. /\ Returns /\ event_dispatch_active' = FALSE
      /\ UNCHANGED <<frame_active, imgui_frame_active, registry, history>>
  BY DEF HookFails, AfterHookReturns
<1>2. PICK point \in DispatchPoints : At(point)
  BY PointKinds DEF HookFails, AfterHookReturns
<1>3. point \notin TickPoints /\ point \notin FramePoints /\ point \notin ClosingPoints
      /\ point \notin UpdatePoints /\ point \notin {"commit", "clearing"}
  BY PointKinds
<1>4. /\ AddsCall(stack, stack', Top) /\ Top.at = point
      /\ stack' \in Seq(CallFrames)
      /\ Doomed(stack') = Doomed(stack) /\ DoomedOnce(stack')
      /\ OnTop(stack', {"clearing"}) /\ ~In(stack', {"clearing"})
      /\ OnTop(stack', UpdatePoints) /\ ~In(stack', UpdatePoints)
  BY <1>1, <1>2, <1>3, Ends
<1>5. ~In(stack', DispatchPoints)
  BY <1>4 DEF Flags, AddsCall
<1>6. /\ lifecycle' \in Lifecycles /\ dispatcher' \in {"none", "open", "closed"}
      /\ exit_requested' \in BOOLEAN
      /\ dispatcher' = "open" <=> lifecycle' = "Ready"
      /\ lifecycle' \in {"Empty", "ShuttingDown"} => lifecycle' = lifecycle
      /\ dispatcher' = "none" => dispatcher = "none"
  <2>1. \/ lifecycle' = "ExitRequested" /\ CloseDispatcher
        \/ UNCHANGED <<lifecycle, dispatcher, exit_requested>>
    BY DEF HookFails, AfterHookReturns, loop
  <2> QED
    BY <2>1 DEF CloseDispatcher, Shape, Lifecycles, Flags
<1> USE DEF registry, history
<1>7. Shape'
  BY <1>1, <1>4, <1>6 DEF Shape
<1>8. Flags'
  BY <1>1, <1>3, <1>4, <1>5, <1>6 DEF Flags, AddsCall
<1>9. Teardown'
  BY <1>1, <1>3, <1>4, <1>5, <1>6 DEF Teardown, AddsCall
<1>10. Iteration' /\ Promised'
  BY <1>1, <1>3, <1>4 DEF Iteration, Promised, HasRemovals, AddsCall
<1>11. Ownership' /\ Identifiers'
  BY <1>1, <1>4, SameOwners, SameIdentifiers
<1> QED
  BY <1>7, <1>8, <1>9, <1>10, <1>11

LEMMA BeforeHookReturnsStep ==
    Inv /\ (\E answer \in Actions, quits \in BOOLEAN : BeforeHookReturns(answer, quits))
        => Inv'
<1> SUFFICES ASSUME Inv, NEW answer \in Actions, NEW quits \in BOOLEAN,
                    BeforeHookReturns(answer, quits)
             PROVE  Inv'
  OBVIOUS
<1> USE DEF Inv
<1> DEFINE action == IF answer = "Pass" /\ quits THEN "Exit" ELSE answer
           f == [Top EXCEPT !.at = "after", !.action = action]
<1>1. At("before") /\ "before" \in DispatchPoints /\ "after" \in DispatchPoints
      /\ "after" \in Points /\ Goes(f)
  BY PointKinds DEF BeforeHookReturns
<1>2. \A point \in {"before", "after"} :
          /\ point \notin TickPoints /\ point \notin FramePoints /\ point \notin ClosingPoints
          /\ point \notin UpdatePoints /\ point \notin {"commit", "clearing"}
  BY PointKinds
<1>3. f \in CallFrames /\ f.at = "after" /\ f.doomed = <<>>
  <2>1. action \in Actions
    BY DEF Actions
  <2> HIDE DEF action
  <2> QED
    BY <1>1, <1>2, <2>1, QuietTop DEF CallFrames
<1> HIDE DEF f
<1>4. /\ AddsCall(stack, Below, Top) /\ Top.at = "before" /\ AddsCall(stack', Below, f)
      /\ Doomed(stack') = Doomed(stack) /\ DoomedOnce(stack')
  BY <1>1, <1>2, <1>3, MovesOn
<1>5. UNCHANGED <<flags, loop, registry, history>>
  BY DEF BeforeHookReturns
<1> USE DEF flags, loop, registry, history
<1>6. Shape'
  BY <1>4, <1>5 DEF Shape, AddsCall
<1>7. Flags'
  BY <1>1, <1>2, <1>3, <1>4, <1>5 DEF Flags, AddsCall
<1>8. Teardown'
  BY <1>1, <1>2, <1>3, <1>4, <1>5 DEF Teardown, AddsCall
<1>9. Iteration' /\ Promised'
  BY <1>2, <1>3, <1>4, <1>5 DEF Iteration, Promised, HasRemovals, AddsCall
<1>10. Ownership' /\ Identifiers'
  BY <1>4, <1>5, SameOwners, SameIdentifiers
<1> QED
  BY <1>6, <1>7, <1>8, <1>9, <1>10

LEMMA AddElementStep == Inv /\ AddElement => Inv'
<1> SUFFICES ASSUME Inv, AddElement PROVE Inv'
  OBVIOUS
<1> USE DEF Inv
<1> DEFINE e == Element(made + 1, FreshId)
<1>1. /\ e \in Elements /\ e.serial = made + 1 /\ e.id = m_next_id
      /\ e.remove_requested = FALSE
      /\ made + 1 \in 1..MaxElements /\ made + 1 \in 0..MaxElements
  <2>1. made + 1 \in 1..MaxElements /\ m_next_id \in 1..MaxElements /\ made + 1 \in 0..MaxElements
    BY UiAppAssumption DEF AddElement, Shape
  <2> QED
    BY <2>1 DEF Element, Elements, FreshId
<1>2. m_elements \in Seq(Elements) /\ m_pending_elements \in Seq(Elements)
  BY DEF Shape
<1> HIDE DEF e
<1>3. /\ lifecycle = "Ready" /\ made' = made + 1 /\ m_next_id' = m_next_id + 1
      /\ \/ /\ m_updating /\ AddsEntry(m_pending_elements', m_pending_elements, e)
            /\ UNCHANGED m_elements
         \/ /\ ~m_updating /\ AddsEntry(m_elements', m_elements, e)
            /\ UNCHANGED m_pending_elements
      /\ UNCHANGED <<flags, loop, m_updating, stack, destroyed, interrupted>>
  <2>1. /\ AddsEntry(Append(m_pending_elements, e), m_pending_elements, e)
        /\ AddsEntry(Append(m_elements, e), m_elements, e)
    BY <1>1, <1>2, Added
  <2> QED
    BY <2>1 DEF AddElement, e
<1>4. /\ m_elements' \in Seq(Elements) /\ m_pending_elements' \in Seq(Elements)
      /\ Live' = Live \cup {made + 1}
      /\ (HasRemovals' <=> HasRemovals)
      /\ Ids(m_elements)' \cup Ids(m_pending_elements)'
             = Ids(m_elements) \cup Ids(m_pending_elements) \cup {m_next_id}
  BY <1>1, <1>2, <1>3 DEF AddsEntry, Live, HasRemovals
<1>5. made + 1 \notin Live /\ made + 1 \notin Dead /\ made + 1 \notin Doomed(stack)
  <2>1. made + 1 \notin 1..made
    BY DEF Shape
  <2> QED
    BY <2>1 DEF Ownership
<1>6. m_next_id \notin Ids(m_elements) /\ m_next_id \notin Ids(m_pending_elements)
  BY DEF Identifiers, Shape
<1> USE DEF flags, loop
<1>7. Shape'
  <2>1. m_next_id' \in 1..made' + 1
    BY <1>3 DEF Shape
  <2> QED
    BY <1>1, <1>3, <1>4, <2>1 DEF Shape
<1>8. Flags' /\ Iteration'
  BY <1>3 DEF Flags, Iteration
<1>9. Teardown'
  BY <1>3 DEF Teardown
<1>10. Promised'
  BY <1>3, <1>4 DEF Promised
<1>11. Ownership'
  <2>1. /\ OncePerSerial(m_elements)' /\ OncePerSerial(m_pending_elements)'
        /\ Serials(m_elements)' \cap Serials(m_pending_elements)' = {}
    BY <1>1, <1>3, <1>5 DEF AddsEntry, Ownership, Live
  <2>2. Dead' = Dead /\ Doomed(stack)' = Doomed(stack) /\ DoomedOnce(stack)'
    BY <1>3 DEF Dead, Ownership
  <2>3. 1..made' = 1..made \cup {made + 1}
    BY <1>3 DEF Shape
  <2>4. /\ Live' \cap Dead' = {} /\ Live' \cap Doomed(stack)' = {}
        /\ Dead' \cap Doomed(stack)' = {}
        /\ Live' \cup Dead' \cup Doomed(stack)' = 1..made'
    BY <1>4, <1>5, <2>2, <2>3 DEF Ownership
  <2> QED
    BY <2>1, <2>2, <2>4 DEF Ownership
<1>12. Identifiers'
  <2>1. /\ OncePerId(m_elements)' /\ OncePerId(m_pending_elements)'
        /\ Ids(m_elements)' \cap Ids(m_pending_elements)' = {}
    BY <1>1, <1>3, <1>6 DEF AddsEntry, Identifiers
  <2>2. m_next_id \in Int /\ Ids(m_elements) \cup Ids(m_pending_elements) \subseteq Int
    <3>1. ASSUME NEW s \in Seq(Elements) PROVE Ids(s) \subseteq Int
      <4>1. \A i \in DOMAIN s : s[i] \in Elements
        BY LenProperties
      <4> QED
        BY <4>1 DEF Ids, Elements
    <3> QED
      BY <1>2, <3>1 DEF Shape
  <2>3. \A id \in Ids(m_elements)' \cup Ids(m_pending_elements)' : id < m_next_id'
    BY <1>3, <1>4, <2>2 DEF Identifiers
  <2> QED
    BY <2>1, <2>3 DEF Identifiers
<1> QED
  BY <1>7, <1>8, <1>9, <1>10, <1>11, <1>12

LEMMA RemoveElementStep ==
    Inv /\ (\E id \in 1..MaxElements : RemoveElement(id)) => Inv'
<1> SUFFICES ASSUME Inv, NEW id \in 1..MaxElements, RemoveElement(id) PROVE Inv'
  OBVIOUS
<1> USE DEF Inv
<1>1. m_elements \in Seq(Elements) /\ m_pending_elements \in Seq(Elements)
  BY DEF Shape
<1>2. /\ lifecycle = "Ready"
      /\ \/ m_elements' = Marked(m_elements, id) /\ UNCHANGED m_pending_elements
         \/ m_pending_elements' = Marked(m_pending_elements, id) /\ UNCHANGED m_elements
      /\ \/ ~m_updating /\ Calls(Frame("commit"))
         \/ m_updating /\ UNCHANGED stack
      /\ UNCHANGED <<flags, loop, m_next_id, m_updating, history>>
  BY DEF RemoveElement, CommitsAtOnce
<1>3. /\ m_elements' \in Seq(Elements) /\ m_pending_elements' \in Seq(Elements)
      /\ Serials(m_elements)' = Serials(m_elements) /\ Ids(m_elements)' = Ids(m_elements)
      /\ Serials(m_pending_elements)' = Serials(m_pending_elements)
      /\ Ids(m_pending_elements)' = Ids(m_pending_elements)
      /\ OncePerSerial(m_elements)' /\ OncePerSerial(m_pending_elements)'
      /\ OncePerId(m_elements)' /\ OncePerId(m_pending_elements)'
  <2>1. \A s \in Seq(Elements) :
            /\ Marked(s, id) \in Seq(Elements)
            /\ Serials(Marked(s, id)) = Serials(s) /\ Ids(Marked(s, id)) = Ids(s)
            /\ OncePerSerial(s) => OncePerSerial(Marked(s, id))
            /\ OncePerId(s) => OncePerId(Marked(s, id))
    BY MarkedIs, Unchanged
  <2> QED
    BY <1>1, <1>2, <2>1 DEF Ownership, Identifiers
<1>4. /\ Doomed(stack') = Doomed(stack) /\ DoomedOnce(stack')
      /\ \/ ~m_updating /\ AddsCall(stack', stack, Frame("commit")) /\ Frame("commit").at = "commit"
         \/ m_updating /\ UNCHANGED stack
  BY <1>2, Begins, PointKinds DEF Ownership
<1>5. ~In(stack, {"clearing"}) /\ (~m_updating => ~In(stack, UpdatePoints))
  BY <1>2 DEF Teardown, Iteration
<1> USE DEF flags, loop, history
<1>6. Shape'
  BY <1>2, <1>3, <1>4 DEF Shape, AddsCall
<1>7. Flags'
  BY <1>2, <1>4, PointKinds DEF Flags, AddsCall
<1>8. Teardown'
  BY <1>2, <1>4, <1>5, PointKinds DEF Teardown, AddsCall
<1>9. Iteration'
  BY <1>2, <1>4, <1>5, PointKinds DEF Iteration, AddsCall
<1>10. Promised'
  BY <1>2, <1>4, PointKinds DEF Promised, AddsCall
<1>11. Ownership'
  BY <1>2, <1>3, <1>4 DEF Ownership, Live, Dead
<1>12. Identifiers'
  BY <1>2, <1>3 DEF Identifiers
<1> QED
  BY <1>6, <1>7, <1>8, <1>9, <1>10, <1>11, <1>12

\* What Commit keeps and what it removes are the registry's elements, each in
\* one of the two.
LEMMA Sorted ==
    ASSUME Inv, NEW kept, NEW removed,
           kept = Subsequence(Everything, Kept), removed = Subsequence(Everything, Removed)
    PROVE  /\ kept \in Seq(Elements) /\ removed \in Seq(Elements)
           /\ OncePerSerial(kept) /\ OncePerSerial(removed) /\ OncePerId(kept)
           /\ Serials(kept) \cup Serials(removed) = Live
           /\ Serials(kept) \cap Serials(removed) = {}
           /\ Removed = {} => Serials(kept) = Live
           /\ Ids(kept) \subseteq Ids(m_elements) \cup Ids(m_pending_elements)
           /\ \A i \in DOMAIN kept : ~kept[i].remove_requested
           /\ m_elements = <<>> /\ m_pending_elements = <<>> => kept = <<>>
<1> DEFINE all == Everything
<1>1. /\ all \in Seq(Elements)
      /\ Serials(all) = Live /\ Ids(all) = Ids(m_elements) \cup Ids(m_pending_elements)
      /\ OncePerSerial(all) /\ OncePerId(all)
      /\ m_elements = <<>> /\ m_pending_elements = <<>> => all = <<>>
  BY Joined DEF Everything, Inv, Shape, Ownership, Identifiers, Live
<1>2. /\ Kept \in SUBSET DOMAIN all /\ Removed \in SUBSET DOMAIN all
      /\ Kept \cup Removed = DOMAIN all /\ Kept \cap Removed = {}
      /\ \A i \in Kept : ~all[i].remove_requested
  BY DEF Kept, Removed
<1> HIDE DEF all
<1>3. /\ kept \in Seq(Elements)
      /\ \A k \in DOMAIN kept : \E i \in Kept : kept[k] = all[i]
      /\ Kept = {} => kept = <<>>
      /\ Serials(kept) = {all[i].serial : i \in Kept}
      /\ Ids(kept) = {all[i].id : i \in Kept}
      /\ OncePerSerial(kept) /\ OncePerId(kept)
  BY <1>1, <1>2, Selected DEF all
<1>4. /\ removed \in Seq(Elements)
      /\ Serials(removed) = {all[i].serial : i \in Removed}
      /\ OncePerSerial(removed)
  BY <1>1, <1>2, Selected DEF all
<1>5. Serials(kept) \cup Serials(removed) = Live
  BY <1>1, <1>2, <1>3, <1>4 DEF Serials
<1>6. Serials(kept) \cap Serials(removed) = {}
  <2>1. \A i \in Kept, j \in Removed : all[i].serial # all[j].serial
    BY <1>1, <1>2 DEF OncePerSerial
  <2> QED
    BY <1>3, <1>4, <2>1
<1>7. Removed = {} => Serials(kept) = Live
  BY <1>4, <1>5
<1>8. Ids(kept) \subseteq Ids(m_elements) \cup Ids(m_pending_elements)
  BY <1>1, <1>2, <1>3 DEF Ids
<1>9. \A i \in DOMAIN kept : ~kept[i].remove_requested
  BY <1>2, <1>3
<1>10. m_elements = <<>> /\ m_pending_elements = <<>> => kept = <<>>
  BY <1>1, <1>2, <1>3, NoneIs
<1> QED
  BY <1>3, <1>4, <1>5, <1>6, <1>7, <1>8, <1>9, <1>10

LEMMA CommitCallStep == Inv /\ Commit => Inv'
<1> SUFFICES ASSUME Inv, Commit PROVE Inv'
  OBVIOUS
<1> USE DEF Inv
<1>1. PICK removed : removed = Subsequence(Everything, Removed)
  OBVIOUS
<1>2. /\ m_elements' \in Seq(Elements) /\ removed \in Seq(Elements)
      /\ OncePerSerial(m_elements') /\ OncePerSerial(removed) /\ OncePerId(m_elements')
      /\ Serials(m_elements') \cup Serials(removed) = Live
      /\ Serials(m_elements') \cap Serials(removed) = {}
      /\ Removed = {} => Serials(m_elements') = Live
      /\ Ids(m_elements') \subseteq Ids(m_elements) \cup Ids(m_pending_elements)
      /\ \A i \in DOMAIN m_elements' : ~m_elements'[i].remove_requested
      /\ m_elements = <<>> /\ m_pending_elements = <<>> => m_elements' = <<>>
  <2>1. m_elements' = Subsequence(Everything, Kept)
    BY DEF Commit
  <2> QED
    BY <1>1, <2>1, Sorted
<1>3. /\ At("commit") /\ m_pending_elements' = <<>> /\ interrupted' = FALSE
      /\ UNCHANGED <<flags, loop, m_next_id, made, destroyed>>
      /\ \/ /\ m_updating' = TRUE
            /\ Goes([Frame("destroying") EXCEPT !.doomed = removed])
         \/ Removed = {} /\ Returns /\ UNCHANGED m_updating
  BY <1>1 DEF Commit
<1>4. /\ AddsCall(stack, Below, Top) /\ Top.at = "commit" /\ Top.doomed = <<>>
      /\ "commit" \notin TickPoints /\ "commit" \notin DispatchPoints
      /\ "commit" \notin FramePoints /\ "commit" \notin UpdatePoints
      /\ "commit" \notin ClosingPoints
  BY <1>3, TopIs, QuietTop, PointKinds
<1>5. /\ ~In(Below, {"clearing"}) /\ ~In(stack, UpdatePoints) /\ ~In(Below, UpdatePoints)
      /\ Doomed(Below) = Doomed(stack) /\ DoomedOnce(Below)
  BY <1>4, NoneIs DEF AddsCall, Teardown, Iteration, Ownership
<1>6. ~HasRemovals'
  BY <1>2 DEF HasRemovals
<1> USE DEF flags, loop
<1>7. CASE Removed = {} /\ Returns /\ UNCHANGED m_updating
  <2>1. /\ AddsCall(stack, stack', Top)
        /\ stack' \in Seq(CallFrames)
        /\ Doomed(stack') = Doomed(stack) /\ DoomedOnce(stack')
        /\ OnTop(stack', {"clearing"}) /\ ~In(stack', {"clearing"})
        /\ OnTop(stack', UpdatePoints) /\ ~In(stack', UpdatePoints)
    BY <1>3, <1>4, <1>7, Ends
  <2>2. Shape'
    BY <1>2, <1>3, <1>7, <2>1, NoneIs DEF Shape
  <2>3. Flags'
    BY <1>3, <1>4, <2>1 DEF Flags, AddsCall
  <2>4. Teardown'
    BY <1>2, <1>3, <1>4, <2>1 DEF Teardown, AddsCall
  <2>5. Iteration' /\ Promised'
    BY <1>3, <1>4, <1>6, <1>7, <2>1 DEF Iteration, Promised, AddsCall
  <2>6. Ownership'
    BY <1>2, <1>3, <1>7, <2>1, NoneIs DEF Ownership, Live, Dead
  <2>7. Identifiers'
    BY <1>2, <1>3, NoneIs DEF Identifiers
  <2> QED
    BY <2>2, <2>3, <2>4, <2>5, <2>6, <2>7
<1>8. CASE m_updating' = TRUE /\ Goes([Frame("destroying") EXCEPT !.doomed = removed])
  <2>1. PICK f \in CallFrames :
            f = [Frame("destroying") EXCEPT !.doomed = removed]
    BY <1>2, PointKinds DEF Frame, CallFrames, Actions
  <2>2. f.at = "destroying" /\ f.doomed = removed /\ KeepsDoomed(f)
    BY <1>2, <2>1, PointKinds DEF Frame, KeepsDoomed
  <2>3. AddsCall(stack', Below, f)
    BY <1>3, <1>8, <2>1, GoesIs
  <2>4. Shape'
    BY <1>2, <1>3, <1>8, <2>3, NoneIs DEF Shape, AddsCall
  <2>5. Flags'
    BY <1>3, <1>4, <2>2, <2>3, PointKinds DEF Flags, AddsCall
  <2>6. Teardown'
    BY <1>2, <1>3, <1>4, <1>5, <2>2, <2>3, PointKinds DEF Teardown, AddsCall
  <2>7. Iteration' /\ Promised'
    BY <1>3, <1>4, <1>5, <1>6, <1>8, <2>2, <2>3, PointKinds DEF Iteration, Promised, AddsCall
  <2>8. Ownership'
    <3>1. /\ Live' = Serials(m_elements') /\ Dead' = Dead
          /\ Doomed(stack') = Doomed(stack) \cup Serials(removed)
      BY <1>3, <1>5, <2>2, <2>3, NoneIs DEF Live, Dead, AddsCall
    <3>2. DoomedOnce(stack')
      BY <1>2, <1>5, <2>2, <2>3 DEF AddsCall, Ownership
    <3> QED
      BY <1>2, <1>3, <3>1, <3>2, NoneIs DEF Ownership
  <2>9. Identifiers'
    BY <1>2, <1>3, NoneIs DEF Identifiers
  <2> QED
    BY <2>4, <2>5, <2>6, <2>7, <2>8, <2>9
<1> QED
  BY <1>3, <1>7, <1>8

\* A destructor runs, in the loop of Commit or of Clear.
LEMMA Destroys ==
    ASSUME Inv, NEW point \in ClosingPoints, At(point), Top.doomed # <<>>,
           CountDestroyed(Head(Top.doomed).serial),
           Goes([Top EXCEPT !.doomed = Tail(@)]),
           UNCHANGED <<flags, loop, registry, made, interrupted>>
    PROVE  Inv'
<1> USE DEF Inv
<1>1. AddsCall(stack, Below, Top) /\ Top.at = point /\ Top \in CallFrames
  BY TopIs
<1>2. KeepsDoomed(Top) /\ DoomedOnce(Below) /\ Doomed(Below) \cap Serials(Top.doomed) = {}
      /\ Doomed(stack) = Doomed(Below) \cup Serials(Top.doomed)
  BY <1>1 DEF AddsCall, Ownership
<1>3. PICK rest, serial :
          /\ rest = Tail(Top.doomed) /\ serial = Head(Top.doomed).serial
          /\ rest \in Seq(Elements) /\ serial \in 1..MaxElements
          /\ OncePerSerial(rest) /\ serial \notin Serials(rest)
          /\ Serials(Top.doomed) = Serials(rest) \cup {serial}
  <2>1. Top.doomed \in Seq(Elements) /\ OncePerSerial(Top.doomed)
    BY <1>1, <1>2 DEF CallFrames, KeepsDoomed
  <2>2. /\ Tail(Top.doomed) \in Seq(Elements) /\ Head(Top.doomed) \in Elements
        /\ OncePerSerial(Tail(Top.doomed))
        /\ Head(Top.doomed).serial \notin Serials(Tail(Top.doomed))
        /\ Serials(Top.doomed) = Serials(Tail(Top.doomed)) \cup {Head(Top.doomed).serial}
    BY <2>1, Taken
  <2>3. Head(Top.doomed).serial \in 1..MaxElements
    BY <2>2 DEF Elements
  <2> QED
    BY <2>2, <2>3
<1>4. PICK f : f = [Top EXCEPT !.doomed = rest]
  OBVIOUS
<1>5. f \in CallFrames /\ f.at = point /\ f.doomed = rest
  BY <1>1, <1>3, <1>4 DEF CallFrames
<1>6. AddsCall(stack', Below, f)
  BY <1>3, <1>4, <1>5, GoesIs
<1>7. destroyed' = [destroyed EXCEPT ![serial] = @ + 1]
  BY <1>3 DEF CountDestroyed
<1>8. serial \in Doomed(stack) /\ destroyed[serial] = 0
  BY <1>2, <1>3 DEF Ownership, Dead, Shape
<1>9. destroyed' \in [1..MaxElements -> 0..1] /\ Dead' = Dead \cup {serial}
  BY <1>3, <1>7, <1>8 DEF Shape, Dead
<1> USE DEF flags, loop, registry
<1>10. Shape'
  BY <1>6, <1>9 DEF Shape, AddsCall
<1>11. Flags'
  BY <1>1, <1>5, <1>6 DEF Flags, AddsCall
<1>12. Teardown'
  BY <1>1, <1>5, <1>6 DEF Teardown, AddsCall
<1>13. Iteration' /\ Promised'
  BY <1>1, <1>5, <1>6 DEF Iteration, Promised, HasRemovals, AddsCall
<1>14. Ownership'
  <2>1. /\ Doomed(stack') = Doomed(Below) \cup Serials(rest)
        /\ DoomedOnce(stack')
    <3>1. KeepsDoomed(f)
      BY <1>3, <1>5 DEF KeepsDoomed
    <3> QED
      BY <1>2, <1>3, <1>5, <1>6, <3>1 DEF AddsCall
  <2>2. Live' = Live /\ made' = made
    BY DEF Live
  <2>3. serial \notin Doomed(stack') /\ Doomed(stack) = Doomed(stack') \cup {serial}
    BY <1>2, <1>3, <2>1
  <2> QED
    BY <1>8, <1>9, <2>1, <2>2, <2>3 DEF Ownership
<1>15. Identifiers'
  BY SameIdentifiers
<1> QED
  BY <1>10, <1>11, <1>12, <1>13, <1>14, <1>15

\* The loop of Commit ends, or commits what the destructors asked for.
LEMMA CommitStepStep == Inv /\ CommitStep => Inv'
<1> SUFFICES ASSUME Inv, CommitStep PROVE Inv'
  OBVIOUS
<1> USE DEF Inv
<1>1. At("destroying") /\ "destroying" \in ClosingPoints /\ "destroying" \notin UpdatePoints
      /\ "destroying" \notin TickPoints /\ "destroying" \notin FramePoints
      /\ "destroying" \notin DispatchPoints
  BY PointKinds DEF CommitStep
<1>2. CASE Top.doomed # <<>>
  BY <1>1, <1>2, Destroys DEF CommitStep, registry
<1>3. CASE Top.doomed = <<>>
  <2>1. /\ m_updating' = FALSE
        /\ \/ Goes(Frame("commit"))
           \/ ~MoreToCommit /\ Returns
        /\ UNCHANGED <<flags, loop, m_elements, m_pending_elements, m_next_id, history>>
    BY <1>3 DEF CommitStep, history
  <2>2. AddsCall(stack, Below, Top) /\ Top.at = "destroying" /\ Below \in Seq(CallFrames)
    BY <1>1, TopIs
  <2>3. /\ ~In(Below, {"clearing"}) /\ ~In(Below, UpdatePoints)
        /\ Doomed(Below) = Doomed(stack) /\ DoomedOnce(Below)
    BY <1>1, <1>3, <2>2, NoneIs DEF AddsCall, Teardown, Iteration, Ownership
  <2> USE DEF flags, loop, history
  <2>4. /\ stack' \in Seq(CallFrames)
        /\ Once(stack', TickPoints) /\ Once(stack', DispatchPoints)
        /\ Under(stack', DispatchPoints, TickPoints)
        /\ In(stack', TickPoints) <=> In(stack, TickPoints)
        /\ In(stack', FramePoints) <=> In(stack, FramePoints)
        /\ In(stack', DispatchPoints) <=> In(stack, DispatchPoints)
        /\ ~In(stack', {"clearing"}) /\ ~In(stack', UpdatePoints)
        /\ OnTop(stack', {"clearing"}) /\ OnTop(stack', UpdatePoints)
        /\ Doomed(stack') = Doomed(stack) /\ DoomedOnce(stack')
        /\ MoreToCommit => In(stack', {"commit"})
    <3>1. CASE Goes(Frame("commit"))
      <4>1. Frame("commit") \in CallFrames /\ Frame("commit").at = "commit"
            /\ Frame("commit").doomed = <<>>
        BY FrameIs, PointKinds
      <4>2. AddsCall(stack', Below, Frame("commit"))
        BY <1>1, <3>1, <4>1, GoesIs
      <4>3. KeepsDoomed(Frame("commit"))
        BY <4>1, NoneIs DEF KeepsDoomed
      <4> QED
        BY <1>1, <2>2, <2>3, <4>1, <4>2, <4>3, NoneIs, PointKinds DEF AddsCall, Flags
    <3>2. CASE ~MoreToCommit /\ Returns
      <4>1. stack' = Below
        BY <3>2 DEF Returns
      <4>2. OnTop(Below, {"clearing"}) /\ OnTop(Below, UpdatePoints)
        BY <2>3 DEF OnTop, In
      <4> QED
        BY <1>1, <2>2, <2>3, <3>2, <4>1, <4>2 DEF AddsCall, Flags
    <3> QED
      BY <2>1, <3>1, <3>2
  <2>5. Shape'
    BY <2>1, <2>4 DEF Shape
  <2>6. Flags'
    BY <2>1, <2>4 DEF Flags
  <2>7. Teardown'
    BY <2>1, <2>4 DEF Teardown
  <2>8. Iteration' /\ Promised'
    BY <2>1, <2>4 DEF Iteration, Promised, MoreToCommit, HasRemovals
  <2>9. Ownership' /\ Identifiers'
    BY <2>1, <2>4, SameOwners, SameIdentifiers
  <2> QED
    BY <2>5, <2>6, <2>7, <2>8, <2>9
<1> QED
  BY <1>2, <1>3

\* Clear repeats, or Cleanup reaches its final state.
LEMMA ClearStepStep == Inv /\ ClearStep => Inv'
<1> SUFFICES ASSUME Inv, ClearStep PROVE Inv'
  OBVIOUS
<1> USE DEF Inv
<1>1. At("clearing") /\ "clearing" \in ClosingPoints /\ "clearing" \in Points
  BY PointKinds DEF ClearStep
<1>2. /\ AddsCall(stack, Below, Top) /\ Top.at = "clearing" /\ Below \in Seq(CallFrames)
      /\ Top \in CallFrames
  BY <1>1, TopIs
<1>3. /\ lifecycle = "ShuttingDown"
      /\ ~In(stack, TickPoints) /\ ~In(stack, DispatchPoints) /\ ~In(stack, UpdatePoints)
      /\ ~In(Below, TickPoints) /\ ~In(Below, DispatchPoints) /\ ~In(Below, {"clearing"})
      /\ ~In(stack, FramePoints) /\ ~In(Below, FramePoints) /\ ~In(Below, UpdatePoints)
      /\ m_elements = <<>> /\ m_pending_elements = <<>>
  BY <1>2, Within, PointKinds DEF Teardown, AddsCall
<1>4. m_elements \o m_pending_elements = <<>>
  BY <1>3, Joined, NoneIs
<1>5. CASE Top.doomed # <<>>
  BY <1>1, <1>5, Destroys DEF ClearStep, registry
<1>6. CASE Top.doomed = <<>>
  <2>1. /\ stack' = Below /\ m_next_id' = 1 /\ m_updating' = FALSE /\ lifecycle' = "Empty"
        /\ dispatcher' = "none" /\ frame_active' = FALSE /\ imgui_frame_active' = FALSE
        /\ event_dispatch_active' = FALSE /\ interrupted' = FALSE
        /\ UNCHANGED <<exit_requested, m_elements, m_pending_elements, made, destroyed>>
    BY <1>4, <1>6 DEF ClearStep, Returns
  <2>2. Doomed(Below) = Doomed(stack) /\ DoomedOnce(Below)
    BY <1>2, <1>6, NoneIs DEF AddsCall, Ownership
  <2>3. /\ Once(Below, TickPoints) /\ Once(Below, DispatchPoints)
        /\ Under(Below, DispatchPoints, TickPoints)
        /\ OnTop(Below, {"clearing"}) /\ OnTop(Below, UpdatePoints)
    BY <1>3 DEF In, Once, Under, OnTop
  <2>4. Shape'
    <3>1. 1 \in 1..made + 1
      BY DEF Shape
    <3> QED
      BY <1>2, <2>1, <3>1 DEF Shape, Lifecycles
  <2>5. Flags'
    BY <1>3, <2>1, <2>3 DEF Flags
  <2>6. Teardown'
    BY <1>3, <2>1, <2>3 DEF Teardown
  <2>7. Iteration'
    BY <1>3, <2>1, <2>3 DEF Iteration
  <2>8. Promised'
    BY <1>3, <2>1, NoneIs DEF Promised, HasRemovals
  <2>9. Ownership'
    BY <2>1, <2>2, SameOwners
  <2>10. Identifiers'
    BY <1>3, <2>1, NoneIs DEF Identifiers
  <2> QED
    BY <2>4, <2>5, <2>6, <2>7, <2>8, <2>9, <2>10
<1> QED
  BY <1>5, <1>6

LEMMA InitHolds == Init => Inv
<1> SUFFICES ASSUME Init PROVE Inv
  OBVIOUS
<1>1. /\ stack = <<>> /\ stack \in Seq(CallFrames)
      /\ m_elements = <<>> /\ m_pending_elements = <<>>
      /\ \A i \in DOMAIN stack : FALSE
  BY NoneIs, EmptySeq DEF Init
<1>2. /\ \A P : ~In(stack, P) /\ Once(stack, P) /\ OnTop(stack, P)
      /\ \A P, Q : Under(stack, Q, P)
      /\ Doomed(stack) = {} /\ DoomedOnce(stack)
  BY <1>1 DEF In, Once, OnTop, Under, Doomed, DoomedOnce
<1>3. Shape
  <2>1. made \in 0..MaxElements /\ m_next_id \in 1..made + 1
    BY UiAppAssumption DEF Init
  <2>2. destroyed \in [1..MaxElements -> 0..1]
    BY DEF Init
  <2> QED
    BY <1>1, <2>1, <2>2, NoneIs DEF Init, Shape, Lifecycles
<1>4. Flags /\ Teardown /\ Iteration
  BY <1>1, <1>2 DEF Init, Flags, Teardown, Iteration
<1>5. Promised
  BY <1>1, NoneIs DEF Init, Promised, HasRemovals
<1>6. Ownership
  <2>1. Live = {} /\ Dead = {} /\ 1..made = {}
    BY <1>1, NoneIs DEF Init, Live, Dead
  <2> QED
    BY <1>1, <1>2, <2>1, NoneIs DEF Ownership
<1>7. Identifiers
  BY <1>1, NoneIs DEF Identifiers
<1> QED
  BY <1>3, <1>4, <1>5, <1>6, <1>7 DEF Inv

LEMMA StepHolds == Inv /\ [Next]_vars => Inv'
<1> SUFFICES ASSUME Inv, [Next]_vars PROVE Inv'
  OBVIOUS
<1>1. CASE UNCHANGED vars
  <2> USE <1>1 DEF vars, flags, loop, registry, history
  <2>1. Shape' /\ Flags' /\ Teardown' /\ Iteration'
    BY DEF Inv, Shape, Flags, Teardown, Iteration
  <2>2. Promised'
    BY DEF Inv, Promised, HasRemovals
  <2>3. Ownership' /\ Identifiers'
    BY SameOwners, SameIdentifiers DEF Inv, Ownership
  <2> QED
    BY <2>1, <2>2, <2>3 DEF Inv
<1>2. CASE Initialize \/ Shutdown \/ ClearStep
  BY <1>2, InitializeStep, ShutdownStep, ClearStepStep
<1>3. CASE AddElement \/ (\E id \in 1..MaxElements : RemoveElement(id)) \/ Commit \/ CommitStep
  BY <1>3, AddElementStep, RemoveElementStep, CommitCallStep, CommitStepStep
<1>4. CASE RequestExit \/ Tick \/ RunCommand \/ CommandReturns
  BY <1>4, RequestExitStep, TickStep, RunCommandStep
<1>5. CASE TickWithoutFrame \/ TickExits \/ StartFrame \/ UpdateNext
  BY <1>5, TickEndsStep, StartFrameStep, UpdateNextStep
<1>6. CASE (\E keep_alive \in BOOLEAN : UpdateReturns(keep_alive)) \/ UpdateFails \/ UpdateEnds \/ Render
  BY <1>6, UpdateReturnsStep, UpdateFailsStep, UpdateEndsStep, TickEndsStep
<1>7. CASE \/ DispatchEvent \/ HookFails
           \/ (\E answer \in Actions, quits \in BOOLEAN : BeforeHookReturns(answer, quits))
           \/ (\E answer \in Actions : AfterHookReturns(answer))
  BY <1>7, DispatchEventStep, EventEndsStep, BeforeHookReturnsStep
<1> QED
  BY <1>1, <1>2, <1>3, <1>4, <1>5, <1>6, <1>7 DEF Next

THEOREM InvHolds == Spec => []Inv
  BY InitHolds, StepHolds, PTL DEF Spec

-----------------------------------------------------------------------------
(* What the invariant says                                                 *)

LEMMA CountOf ==
    ASSUME NEW s \in Seq(CallFrames), NEW P
    PROVE  LET positions == {i \in DOMAIN s : s[i].at \in P}
           IN  /\ ~In(s, P) => Cardinality(positions) = 0
               /\ In(s, P) /\ Once(s, P) => Cardinality(positions) = 1
               /\ Cardinality(positions) \in Nat
               /\ Cardinality(positions) > 0 => In(s, P)
<1> DEFINE positions == {i \in DOMAIN s : s[i].at \in P}
<1>1. IsFiniteSet(positions) /\ Cardinality(positions) \in Nat
  <2>1. DOMAIN s = 1..Len(s) /\ Len(s) \in Int /\ 1 \in Int
    BY LenProperties
  <2>2. IsFiniteSet(DOMAIN s)
    BY <2>1, FS_Interval, Zenon
  <2>3. positions \in SUBSET DOMAIN s
    OBVIOUS
  <2> QED
    BY <2>2, <2>3, FS_Subset, FS_CardinalityType, Zenon
<1>2. ASSUME ~In(s, P) PROVE Cardinality(positions) = 0
  <2>1. positions = {}
    BY <1>2 DEF In
  <2> QED
    BY <2>1, FS_EmptySet, Zenon
<1>3. ASSUME In(s, P), Once(s, P) PROVE Cardinality(positions) = 1
  <2>1. PICK i \in DOMAIN s : s[i].at \in P
    BY <1>3 DEF In
  <2>2. positions = {i}
    BY <1>3, <2>1 DEF Once
  <2> QED
    BY <2>2, FS_Singleton, Zenon
<1> HIDE DEF positions
<1>4. Cardinality(positions) > 0 => In(s, P)
  BY <1>2
<1> QED
  BY <1>1, <1>2, <1>3, <1>4 DEF positions

\* Every variable keeps its type, no destructor runs twice, and the activity
\* flags say what the call stack says.
THEOREM TypeCorrect == Spec => []TypeOK
<1>1. Inv => TypeOK
  <2> SUFFICES ASSUME Inv PROVE TypeOK
    OBVIOUS
  <2>1. stack \in Seq(CallFrames) /\ \A i \in DOMAIN stack : stack[i] \in CallFrames
    <3>1. stack \in Seq(CallFrames)
      BY DEF Inv, Shape
    <3> QED
      BY <3>1, LenProperties
  <2>2. /\ Count(TickPoints) = IF frame_active THEN 1 ELSE 0
        /\ Count(DispatchPoints) = IF event_dispatch_active THEN 1 ELSE 0
    BY <2>1, CountOf DEF Inv, Flags, Count
  <2>3. Count(FramePoints) = IF imgui_frame_active THEN 1 ELSE 0
    <3>1. Once(stack, FramePoints)
      BY PointKinds DEF Inv, Flags, Once
    <3> QED
      BY <2>1, <3>1, CountOf DEF Inv, Flags, Count
  <2>4. FlagsMatchStack
    BY <2>2, <2>3 DEF FlagsMatchStack, FramePoints, Inv, Flags, Under
  <2>5. m_next_id \in 1..MaxElements + 1
    BY UiAppAssumption DEF Inv, Shape
  <2> QED
    BY <2>1, <2>4, <2>5 DEF TypeOK, Inv, Shape, CallFrames, Points
<1> QED
  BY <1>1, InvHolds, PTL

\* Nothing UiApp owns is torn down under a Tick or a DispatchEvent that goes on
\* to use it.
THEOREM NothingTornDownUnderneath == Spec => []NoCleanupUnderneath
<1>1. Inv => NoCleanupUnderneath
  <2> SUFFICES ASSUME Inv, Count(TickPoints \cup DispatchPoints) > 0
               PROVE  lifecycle \notin {"Empty", "ShuttingDown"} /\ dispatcher # "none"
    BY DEF NoCleanupUnderneath
  <2>1. In(stack, TickPoints \cup DispatchPoints)
    BY CountOf DEF Count, Inv, Shape
  <2>2. In(stack, TickPoints) \/ In(stack, DispatchPoints)
    BY <2>1 DEF In
  <2> QED
    BY <2>2 DEF Inv, Teardown
<1> QED
  BY <1>1, InvHolds, PTL

\* Once no call is in progress every addition and removal has been carried out,
\* unless an Update failed since.
THEOREM IdleMeansCommitted == Spec => []CommittedWhenIdle
<1>1. Inv => CommittedWhenIdle
  <2> SUFFICES ASSUME Inv, stack = <<>>, ~interrupted
               PROVE  m_pending_elements = <<>> /\ ~HasRemovals
    BY DEF CommittedWhenIdle
  <2>1. \A P : ~In(stack, P)
    BY NoneIs DEF In
  <2> QED
    BY <2>1 DEF Inv, Promised
<1> QED
  BY <1>1, InvHolds, PTL

LEMMA OccursOnce ==
    ASSUME NEW entries \in Seq(Elements), OncePerSerial(entries), NEW serial
    PROVE  /\ serial \in Serials(entries) => Occurrences(entries, serial) = 1
           /\ serial \notin Serials(entries) => Occurrences(entries, serial) = 0
<1> DEFINE positions == {i \in DOMAIN entries : entries[i].serial = serial}
<1>1. ASSUME serial \in Serials(entries) PROVE Occurrences(entries, serial) = 1
  <2>1. PICK i \in DOMAIN entries : entries[i].serial = serial
    BY <1>1 DEF Serials
  <2>2. positions = {i}
    BY <2>1 DEF OncePerSerial
  <2> QED
    BY <2>2, FS_Singleton, Zenon DEF Occurrences
<1>2. ASSUME serial \notin Serials(entries) PROVE Occurrences(entries, serial) = 0
  <2>1. positions = {}
    BY <1>2 DEF Serials
  <2> QED
    BY <2>1, FS_EmptySet, Zenon DEF Occurrences
<1> QED
  BY <1>1, <1>2

\* Every element ever added is registered, pending, waiting for its destructor
\* in one call, or destroyed, and in one of these places only.
THEOREM OwnershipHolds == Spec => []OwnedOnceOrDestroyed
<1>1. Inv => UniqueIds
  <2> SUFFICES ASSUME Inv PROVE UniqueIds
    OBVIOUS
  <2> DEFINE all == Everything
  <2>1. OncePerId(all) /\ \A id \in Ids(all) : id < m_next_id
    BY Joined DEF Everything, Inv, Shape, Identifiers
  <2> HIDE DEF all
  <2>2. \A i, j \in DOMAIN all : all[i].id < m_next_id /\ (all[i].id = all[j].id => i = j)
    BY <2>1 DEF OncePerId, Ids
  <2> QED
    BY <2>2 DEF UniqueIds, all
<1>2. ASSUME Inv, NEW serial \in 1..made
      PROVE  LET waiting == {i \in DOMAIN stack : Occurrences(stack[i].doomed, serial) > 0}
             IN  /\ \A i \in waiting : Occurrences(stack[i].doomed, serial) = 1
                 /\ Occurrences(m_elements, serial) + Occurrences(m_pending_elements, serial)
                        + Cardinality(waiting) + destroyed[serial] = 1
  <2> DEFINE waiting == {i \in DOMAIN stack : Occurrences(stack[i].doomed, serial) > 0}
  <2>1. \A i \in DOMAIN stack : stack[i].doomed \in Seq(Elements) /\ OncePerSerial(stack[i].doomed)
    <3>1. stack \in Seq(CallFrames) /\ DoomedOnce(stack)
      BY <1>2 DEF Inv, Shape, Ownership
    <3>2. \A i \in DOMAIN stack : stack[i] \in CallFrames
      BY <3>1, LenProperties
    <3> QED
      BY <3>1, <3>2 DEF DoomedOnce, KeepsDoomed, CallFrames
  <2>2. waiting = {i \in DOMAIN stack : serial \in Serials(stack[i].doomed)}
    BY <2>1, OccursOnce
  <2>3. \A i \in waiting : Occurrences(stack[i].doomed, serial) = 1
    BY <2>1, <2>2, OccursOnce
  <2>4. Cardinality(waiting) = IF serial \in Doomed(stack) THEN 1 ELSE 0
    <3>1. CASE serial \in Doomed(stack)
      <4>1. PICK i \in DOMAIN stack : serial \in Serials(stack[i].doomed)
        BY <3>1 DEF Doomed
      <4>2. waiting = {i}
        BY <1>2, <2>2, <4>1 DEF Inv, Ownership, DoomedOnce, Apart
      <4> QED
        BY <3>1, <4>2, FS_Singleton, Zenon
    <3>2. CASE serial \notin Doomed(stack)
      <4>1. waiting = {}
        BY <2>2, <3>2 DEF Doomed
      <4> QED
        BY <3>2, <4>1, FS_EmptySet, Zenon
    <3> QED
      BY <3>1, <3>2
  <2> HIDE DEF waiting
  <2>5. /\ Occurrences(m_elements, serial) = IF serial \in Serials(m_elements) THEN 1 ELSE 0
        /\ Occurrences(m_pending_elements, serial)
               = IF serial \in Serials(m_pending_elements) THEN 1 ELSE 0
    BY <1>2, OccursOnce DEF Inv, Shape, Ownership
  <2>6. serial \in 1..MaxElements /\ destroyed[serial] = IF serial \in Dead THEN 1 ELSE 0
    <3>1. serial \in 1..MaxElements
      BY <1>2, UiAppAssumption DEF Inv, Shape
    <3> QED
      BY <1>2, <3>1 DEF Inv, Shape, Dead
  <2>7. /\ serial \in Serials(m_elements) \/ serial \in Serials(m_pending_elements)
               \/ serial \in Doomed(stack) \/ serial \in Dead
        /\ ~(serial \in Serials(m_elements) /\ serial \in Serials(m_pending_elements))
        /\ ~(serial \in Serials(m_elements) /\ serial \in Doomed(stack))
        /\ ~(serial \in Serials(m_elements) /\ serial \in Dead)
        /\ ~(serial \in Serials(m_pending_elements) /\ serial \in Doomed(stack))
        /\ ~(serial \in Serials(m_pending_elements) /\ serial \in Dead)
        /\ ~(serial \in Doomed(stack) /\ serial \in Dead)
    BY <1>2 DEF Inv, Ownership, Live
  <2>8. Occurrences(m_elements, serial) + Occurrences(m_pending_elements, serial)
            + Cardinality(waiting) + destroyed[serial] = 1
    BY <2>4, <2>5, <2>6, <2>7
  <2> QED
    BY <2>3, <2>8 DEF waiting
<1>3. Inv => OwnedOnceOrDestroyed
  BY <1>1, <1>2 DEF OwnedOnceOrDestroyed
<1> QED
  BY <1>3, InvHolds, PTL

\* While Update iterates over m_elements nothing adds, moves or destroys an
\* entry of it: only Update itself runs, or the application's code under it, and
\* what that code calls goes to the pending elements or marks entries.
THEOREM StorageIsStable == Spec => IterationIsStable
<1>1. Inv /\ [Next]_vars => [ElementsStay]_vars
  <2> SUFFICES ASSUME Inv, Next, Updating PROVE ElementsStay
    BY DEF ElementsStay
  <2>1. m_elements \in Seq(Elements)
    BY DEF Inv, Shape
  <2>2. In(stack, UpdatePoints)
    BY DEF Updating, In, UpdatePoints
  <2>3. /\ m_updating /\ stack # <<>> /\ Top.at \in UpdatePoints
        /\ lifecycle # "Empty" /\ frame_active
    <3>1. stack # <<>> /\ Top.at \in UpdatePoints
      <4>1. PICK i \in DOMAIN stack : stack[i].at \in UpdatePoints /\ i = Len(stack)
        BY <2>2 DEF In, OnTop, Inv, Iteration
      <4> QED
        BY <4>1, NoneIs DEF Top
    <3>2. In(stack, TickPoints)
      BY <2>2, Within, PointKinds
    <3> QED
      BY <2>2, <3>1, <3>2 DEF Inv, Iteration, Teardown, Flags
  <2>4. /\ ~Initialize /\ ~Shutdown /\ ~ClearStep /\ ~Commit /\ ~CommitStep
    BY <2>3, PointKinds DEF Initialize, Shutdown, MayShutdown, ClearStep, Commit,
       CommitStep, At
  <2>5. destroyed' = destroyed
    BY <2>4 DEF Next, AddElement, RemoveElement, RequestExit, Tick, RunCommand, CommandReturns,
       TickWithoutFrame, TickExits, StartFrame, UpdateNext, UpdateReturns, UpdateFails,
       UpdateEnds, Render, DispatchEvent, HookFails, BeforeHookReturns, AfterHookReturns, history
  <2>6. \/ m_elements' = m_elements
        \/ \E id : m_elements' = Marked(m_elements, id)
        \/ \E k : m_elements' = [m_elements EXCEPT ![k].remove_requested = TRUE]
    BY <2>3, <2>4 DEF Next, AddElement, RemoveElement, RequestExit, Tick, RunCommand, CommandReturns,
       TickWithoutFrame, TickExits, StartFrame, UpdateNext, UpdateReturns, UpdateFails,
       UpdateEnds, Render, DispatchEvent, HookFails, BeforeHookReturns, AfterHookReturns, registry
  <2>7. /\ DOMAIN m_elements' = DOMAIN m_elements
        /\ \A i \in DOMAIN m_elements : m_elements'[i].serial = m_elements[i].serial
    <3>1. CASE \E id : m_elements' = Marked(m_elements, id)
      <4>1. \A id : /\ DOMAIN Marked(m_elements, id) = DOMAIN m_elements
                    /\ \A i \in DOMAIN m_elements :
                           Marked(m_elements, id)[i].serial = m_elements[i].serial
        BY <2>1, MarkedIs
      <4> QED
        BY <3>1, <4>1
    <3>2. CASE \E k : m_elements' = [m_elements EXCEPT ![k].remove_requested = TRUE]
      <4>1. PICK k : m_elements' = [m_elements EXCEPT ![k].remove_requested = TRUE]
        BY <3>2
      <4>2. /\ DOMAIN [m_elements EXCEPT ![k].remove_requested = TRUE] = DOMAIN m_elements
            /\ \A i \in DOMAIN m_elements :
                   [m_elements EXCEPT ![k].remove_requested = TRUE][i].serial
                       = m_elements[i].serial
        BY <2>1, RequestedIs
      <4> QED
        BY <4>1, <4>2
    <3> QED
      BY <2>6, <3>1, <3>2
  <2>8. [i \in DOMAIN m_elements |-> m_elements[i].serial]'
            = [i \in DOMAIN m_elements |-> m_elements[i].serial]
    BY <2>7
  <2> QED
    BY <2>5, <2>8 DEF ElementsStay
<1> QED
  BY <1>1, InvHolds, PTL DEF Spec, IterationIsStable
=============================================================================
