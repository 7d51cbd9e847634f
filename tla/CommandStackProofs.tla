------------------------- MODULE CommandStackProofs -------------------------
(***************************************************************************)
(* The history of a command stack, for any number of stacks, documents and *)
(* calls nested in callbacks, and any history limit; and that it implements *)
(* EditHistory.                                                            *)
(***************************************************************************)
EXTENDS CommandStack, SequenceTheorems, TLAPS

Shape ==
    /\ documents \in [Documents -> States]
    /\ undo \in [Stacks -> Seq(Entries)]
    /\ redo \in [Stacks -> Seq(Entries)]
    /\ pending \in [Stacks -> Pendings \cup {None}]
    /\ history_limit \in [Stacks -> Limits]
    /\ next_deferred_id \in [Stacks -> 0..LastDeferredId]
    /\ binding \in [Stacks -> Bindings \cup {None}]
    /\ busy \in [Stacks -> BOOLEAN]
    /\ exclusive \in [Stacks -> BOOLEAN]
    /\ active \in Seq(Frames)
    /\ issued \in [Stacks -> SUBSET (1..LastDeferredId)]

-----------------------------------------------------------------------------
(* One history                                                             *)

\* Neighbours in a history, and the two commands at the cursor, fit together.
Joins(u, r) ==
    /\ \A i \in 1..Len(u) - 1 : u[i].after = u[i + 1].before
    /\ \A i \in 1..Len(r) - 1 : r[i].before = r[i + 1].after
    /\ u # <<>> /\ r # <<>> => Last(u).after = Last(r).before

\* content is what the command at the cursor left, and the next one expects.
Fits(u, r, content) ==
    /\ u # <<>> => Last(u).after = content
    /\ r # <<>> => Last(r).before = content

\* A stack's history is joined and, as long as the document is at the revision
\* the stack is bound to, fits the document; only a bound stack has one, and a
\* stack of limit 0 has none.
HistoryOf(s) ==
    /\ Joins(undo[s], redo[s])
    /\ binding[s] = None <=> undo[s] = <<>> /\ redo[s] = <<>>
    /\ history_limit[s] = 0 => undo[s] = <<>> /\ redo[s] = <<>>
    /\ binding[s] # None =>
           LET document == documents[binding[s].document]
           IN  /\ binding[s].revision <= document.revision
               /\ binding[s].revision = document.revision =>
                      Fits(undo[s], redo[s], document.content)

\* What holds of a command from the call that starts it to the commit: it was
\* made from its baseline, the document that is still at the baseline's revision
\* still has its content, the stack is still bound to the baseline, and the
\* command is still the last of its history.
Job(s, kind, document, catalog, baseline, command) ==
    /\ baseline.revision <= documents[document].revision
    /\ baseline.revision = documents[document].revision =>
           baseline.content = documents[document].content
    /\ Source(kind, command) = baseline.content
    /\ binding[s] # None => binding[s] = [document |-> document, catalog |-> catalog,
                                          revision |-> baseline.revision]
    /\ Refers(s, kind, command)

JobOf(s, job) ==
    Job(s, job.kind, job.document, job.catalog, job.baseline, job.command)

\* A stack whose call is in progress has a pending operation exactly when the
\* call is the one that authorizes it again.
Matches(call) ==
    IF call.at = "reauthorize"
    THEN /\ pending[call.stack] # None
         /\ pending[call.stack].kind = call.kind
         /\ pending[call.stack].command = call.command
         /\ pending[call.stack].document = call.document
         /\ pending[call.stack].catalog = call.catalog
         /\ pending[call.stack].baseline = call.baseline
    ELSE pending[call.stack] = None

CallOf(call) ==
    /\ Matches(call)
    /\ JobOf(call.stack, call)
    /\ call.at = "restore" => call.kind = "undo"
    /\ call.at = "replace" => call.kind = "execute" /\ call.depth < max_replacements

Histories == \A s \in Stacks : HistoryOf(s)
Calls == \A i \in DOMAIN active : CallOf(active[i])
Waiting == \A s \in Stacks : pending[s] # None => JobOf(s, pending[s])

\* NoReentry without sets of indices.
Alone ==
    /\ \A i, j \in DOMAIN active : active[i].stack = active[j].stack => i = j
    /\ \A i \in DOMAIN active :
           busy[active[i].stack] /\ ~exclusive[active[i].stack]
    /\ \A s \in Stacks :
           busy[s] => exclusive[s] \/ \E i \in DOMAIN active : active[i].stack = s
    /\ \A s \in Stacks : exclusive[s] => busy[s]

Inv == Shape /\ Histories /\ Calls /\ Waiting /\ Alone

-----------------------------------------------------------------------------
(* Sequences                                                               *)

\* Appending and taking the last of a sequence.
LEMMA Appended ==
    ASSUME NEW S, NEW q \in Seq(S), NEW e \in S
    PROVE  /\ Append(q, e) \in Seq(S)
           /\ Append(q, e) # <<>>
           /\ Len(Append(q, e)) = Len(q) + 1
           /\ Last(Append(q, e)) = e
           /\ \A i \in 1..Len(q) : Append(q, e)[i] = q[i]
           /\ Front(Append(q, e)) = q
  BY DEF Last, Front

\* Removing the last element.
LEMMA Fronted ==
    ASSUME NEW S, NEW q \in Seq(S), q # <<>>
    PROVE  /\ Front(q) \in Seq(S)
           /\ Len(q) \in Nat \ {0}
           /\ Len(Front(q)) = Len(q) - 1
           /\ Last(q) \in S
           /\ \A i \in 1..Len(q) - 1 : Front(q)[i] = q[i]
           /\ Front(q) # <<>> => Len(q) > 1 /\ Last(Front(q)) = q[Len(q) - 1]
<1>1. Len(q) \in Nat \ {0} /\ \A i \in 1..Len(q) : q[i] \in S
  BY EmptySeq, ElementOfSeq
<1>2. /\ Front(q) \in Seq(S)
      /\ Len(Front(q)) = Len(q) - 1
      /\ \A i \in 1..Len(q) - 1 : Front(q)[i] = q[i]
  <2>1. \A i \in 1..Len(q) - 1 : q[i] \in S
    BY <1>1
  <2>2. /\ SubSeq(q, 1, Len(q) - 1) \in Seq(S)
        /\ Len(SubSeq(q, 1, Len(q) - 1)) = IF 1 <= Len(q) - 1 THEN Len(q) - 1 - 1 + 1 ELSE 0
        /\ \A i \in 1..Len(q) - 1 - 1 + 1 : SubSeq(q, 1, Len(q) - 1)[i] = q[1 + i - 1]
    BY <1>1, <2>1, SubSeqProperties
  <2>3. \A n \in Nat \ {0} :
           n - 1 - 1 + 1 = n - 1 /\ (IF 1 <= n - 1 THEN n - 1 - 1 + 1 ELSE 0) = n - 1
    OBVIOUS
  <2>4. \A i \in 1..Len(q) - 1 : 1 + i - 1 = i
    BY <1>1
  <2>5. Len(Front(q)) = Len(q) - 1
    BY <1>1, <2>2, <2>3, Zenon DEF Front
  <2>6. ASSUME NEW i \in 1..Len(q) - 1 PROVE Front(q)[i] = q[i]
    BY <1>1, <2>2, <2>3, <2>4 DEF Front
  <2> QED
    BY <2>2, <2>5, <2>6 DEF Front
<1>3. Front(q) # <<>> => Len(q) > 1
  BY <1>1, <1>2, EmptySeq
<1> QED
  BY <1>1, <1>2, <1>3 DEF Last

\* Erasing the oldest elements keeps the newest.
LEMMA Trimmed ==
    ASSUME NEW S, NEW q \in Seq(S), NEW limit \in Nat
    PROVE  /\ LastOf(q, limit) \in Seq(S)
           /\ LastOf(q, limit) = <<>> <=> q = <<>> \/ limit = 0
           /\ LastOf(q, limit) # <<>> => Last(LastOf(q, limit)) = Last(q)
           /\ \E k \in Nat :
                 /\ k + Len(LastOf(q, limit)) = Len(q)
                 /\ \A i \in 1..Len(LastOf(q, limit)) : LastOf(q, limit)[i] = q[i + k]
<1>1. Len(q) \in Nat /\ (q = <<>> <=> Len(q) = 0) /\ \A i \in 1..Len(q) : q[i] \in S
  BY EmptySeq, ElementOfSeq, LenProperties
<1>2. CASE Len(q) <= limit
  <2>1. LastOf(q, limit) = q
    BY <1>1, <1>2 DEF LastOf
  <2> QED
    BY <1>1, <1>2, <2>1
<1>3. CASE Len(q) > limit
  <2> DEFINE k == Len(q) - limit
  <2>1. k \in Nat /\ k + limit = Len(q) /\ LastOf(q, limit) = SubSeq(q, k + 1, Len(q))
    BY <1>1, <1>3 DEF LastOf
  <2>2. /\ LastOf(q, limit) \in Seq(S)
        /\ Len(LastOf(q, limit)) = limit
        /\ \A i \in 1..limit : LastOf(q, limit)[i] = q[i + k]
    <3> HIDE DEF k
    <3>1. \A i \in k + 1..Len(q) : q[i] \in S
      BY <1>1, <2>1
    <3>2. /\ SubSeq(q, k + 1, Len(q)) \in Seq(S)
          /\ Len(SubSeq(q, k + 1, Len(q))) = IF k + 1 <= Len(q) THEN Len(q) - (k + 1) + 1 ELSE 0
          /\ \A i \in 1..Len(q) - (k + 1) + 1 :
                 SubSeq(q, k + 1, Len(q))[i] = q[k + 1 + i - 1]
      BY <1>1, <2>1, <3>1, SubSeqProperties
    <3>3. Len(q) - (k + 1) + 1 = limit /\ (k + 1 <= Len(q) <=> limit # 0)
      BY <1>1, <2>1
    <3>4. \A i \in 1..limit : k + 1 + i - 1 = i + k
      BY <2>1
    <3>5. Len(LastOf(q, limit)) = limit
      BY <2>1, <3>2, <3>3
    <3>6. ASSUME NEW i \in 1..limit PROVE LastOf(q, limit)[i] = q[i + k]
      BY <2>1, <3>2, <3>3, <3>4
    <3> QED
      BY <2>1, <3>2, <3>5, <3>6
  <2>3. LastOf(q, limit) = <<>> <=> limit = 0
    BY <2>2, EmptySeq
  <2>4. limit # 0 => LastOf(q, limit)[limit] = q[Len(q)]
    BY <1>1, <2>1, <2>2
  <2>5. q # <<>> /\ Len(LastOf(q, limit)) = limit
    BY <1>1, <1>3, <2>2
  <2> HIDE DEF k
  <2> QED
    BY <2>1, <2>2, <2>3, <2>4, <2>5 DEF Last
<1> QED
  BY <1>1, <1>2, <1>3

\* A command made from what the last left may follow it; redo is discarded.
LEMMA JoinsAppend ==
    ASSUME NEW u \in Seq(Entries), NEW r \in Seq(Entries), Joins(u, r), NEW c \in Entries,
           u # <<>> => Last(u).after = c.before
    PROVE  Joins(Append(u, c), <<>>)
<1>1. ASSUME NEW i \in 1..Len(Append(u, c)) - 1
      PROVE  Append(u, c)[i].after = Append(u, c)[i + 1].before
  <2>1. /\ Len(u) \in Nat /\ Len(Append(u, c)) = Len(u) + 1 /\ Last(Append(u, c)) = c
        /\ \A j \in 1..Len(u) : Append(u, c)[j] = u[j]
    BY Appended, LenProperties
  <2>2. CASE i < Len(u)
    BY <2>1, <2>2 DEF Joins
  <2>3. CASE i = Len(u)
    BY <2>1, <2>3, EmptySeq DEF Last
  <2> QED
    BY <2>1, <2>2, <2>3
<1>2. \A i \in 1..Len(<<>>) - 1 : <<>>[i].before = <<>>[i + 1].after
  OBVIOUS
<1> QED
  BY <1>1, <1>2 DEF Joins

\* Trimmed, for the entries of a stack: the elements kept are the last ones, in place.
LEMMA Kept ==
    ASSUME NEW q \in Seq(Entries), NEW limit \in Nat
    PROVE  \E k \in Nat :
              /\ k + Len(LastOf(q, limit)) = Len(q)
              /\ \A i \in 1..Len(LastOf(q, limit)) : LastOf(q, limit)[i] = q[i + k]
<1>1. PICK S : S = Entries
  OBVIOUS
<1>2. q \in Seq(S)
  BY <1>1
<1> QED
  BY <1>2, Trimmed, ZenonT(60)

\* Forgetting the oldest commands on both sides.
LEMMA JoinsTrim ==
    ASSUME NEW u \in Seq(Entries), NEW r \in Seq(Entries), Joins(u, r), NEW limit \in Nat
    PROVE  Joins(LastOf(u, limit), LastOf(r, limit))
<1>1. ASSUME NEW i \in 1..Len(LastOf(u, limit)) - 1
      PROVE  LastOf(u, limit)[i].after = LastOf(u, limit)[i + 1].before
  <2>1. Len(LastOf(u, limit)) \in Nat /\ Len(u) \in Nat
    BY Trimmed, LenProperties
  <2>2. PICK k \in Nat :
           /\ k + Len(LastOf(u, limit)) = Len(u)
           /\ \A j \in 1..Len(LastOf(u, limit)) : LastOf(u, limit)[j] = u[j + k]
    BY Kept, Zenon
  <2>3. /\ i \in 1..Len(LastOf(u, limit)) /\ i + 1 \in 1..Len(LastOf(u, limit))
        /\ i + k \in 1..Len(u) - 1 /\ i + 1 + k = i + k + 1
    BY <2>1, <2>2
  <2> QED
    BY <2>2, <2>3 DEF Joins
<1>2. ASSUME NEW i \in 1..Len(LastOf(r, limit)) - 1
      PROVE  LastOf(r, limit)[i].before = LastOf(r, limit)[i + 1].after
  <2>1. Len(LastOf(r, limit)) \in Nat /\ Len(r) \in Nat
    BY Trimmed, LenProperties
  <2>2. PICK k \in Nat :
           /\ k + Len(LastOf(r, limit)) = Len(r)
           /\ \A j \in 1..Len(LastOf(r, limit)) : LastOf(r, limit)[j] = r[j + k]
    BY Kept, Zenon
  <2>3. /\ i \in 1..Len(LastOf(r, limit)) /\ i + 1 \in 1..Len(LastOf(r, limit))
        /\ i + k \in 1..Len(r) - 1 /\ i + 1 + k = i + k + 1
    BY <2>1, <2>2
  <2> QED
    BY <2>2, <2>3 DEF Joins
<1>3. LastOf(u, limit) # <<>> /\ LastOf(r, limit) # <<>> =>
          Last(LastOf(u, limit)).after = Last(LastOf(r, limit)).before
  BY Trimmed DEF Joins
<1> QED
  BY <1>1, <1>2, <1>3 DEF Joins

\* A merged command leaves what the newer one leaves.
LEMMA JoinsAmend ==
    ASSUME NEW u \in Seq(Entries), NEW r \in Seq(Entries), Joins(u, r), u # <<>>,
           NEW c \in Entries
    PROVE  /\ Amended(u, c) \in Seq(Entries)
           /\ Amended(u, c) # <<>>
           /\ Last(Amended(u, c)).after = c.after
           /\ Joins(Amended(u, c), <<>>)
           /\ c.after = Last(u).after => Amended(u, c) = u
<1>1. Len(u) \in Nat \ {0} /\ \A i \in 1..Len(u) : u[i] \in Entries
  BY EmptySeq, ElementOfSeq
<1> DEFINE e == [u[Len(u)] EXCEPT !.after = c.after]
<1>2. /\ e \in Entries /\ e.after = c.after /\ e.before = u[Len(u)].before
      /\ c.after = u[Len(u)].after => e = u[Len(u)]
      /\ Amended(u, c) = [u EXCEPT ![Len(u)] = e]
  BY <1>1 DEF Amended, Entries
<1>3. /\ Amended(u, c) \in Seq(Entries)
      /\ Len(Amended(u, c)) = Len(u)
      /\ \A j \in 1..Len(u) : Amended(u, c)[j] = IF j = Len(u) THEN e ELSE u[j]
  <2> HIDE DEF e
  <2> QED
    BY <1>1, <1>2, ExceptSeq
<1>4. Amended(u, c) # <<>> /\ Last(Amended(u, c)) = e
  BY <1>1, <1>3, EmptySeq, SMTT(60) DEF Last
<1>5. ASSUME NEW i \in 1..Len(Amended(u, c)) - 1
      PROVE  Amended(u, c)[i].after = Amended(u, c)[i + 1].before
  BY <1>1, <1>2, <1>3 DEF Joins, Last
<1>6. c.after = Last(u).after => Amended(u, c) = u
  <2> SUFFICES ASSUME c.after = Last(u).after
               PROVE  \A j \in 1..Len(u) : Amended(u, c)[j] = u[j]
    BY <1>3, SeqEqual
  <2>1. e = u[Len(u)]
    BY <1>2 DEF Last
  <2> QED
    BY <1>3, <2>1
<1>7. \A i \in 1..Len(<<>>) - 1 : <<>>[i].before = <<>>[i + 1].after
  OBVIOUS
<1>8. Joins(Amended(u, c), <<>>)
  BY <1>5, <1>7 DEF Joins
<1> HIDE DEF e
<1> QED
  BY <1>2, <1>3, <1>4, <1>6, <1>8

\* Undo moves the cursor back over one command.
LEMMA JoinsUndo ==
    ASSUME NEW u \in Seq(Entries), NEW r \in Seq(Entries), Joins(u, r), u # <<>>
    PROVE  /\ Joins(Front(u), Append(r, Last(u)))
           /\ Front(u) # <<>> => Last(Front(u)).after = Last(u).before
<1>1. /\ Len(u) \in Nat \ {0} /\ Len(Front(u)) = Len(u) - 1 /\ Last(u) \in Entries
      /\ \A i \in 1..Len(u) - 1 : Front(u)[i] = u[i]
      /\ Front(u) # <<>> => Len(u) > 1 /\ Last(Front(u)) = u[Len(u) - 1]
  BY Fronted
<1>2. /\ Len(r) \in Nat /\ Len(Append(r, Last(u))) = Len(r) + 1
      /\ Last(Append(r, Last(u))) = Last(u)
      /\ \A i \in 1..Len(r) : Append(r, Last(u))[i] = r[i]
  BY <1>1, Appended, LenProperties
<1>3. ASSUME NEW i \in 1..Len(Front(u)) - 1
      PROVE  Front(u)[i].after = Front(u)[i + 1].before
  BY <1>1 DEF Joins
<1>4. ASSUME NEW i \in 1..Len(Append(r, Last(u))) - 1
      PROVE  Append(r, Last(u))[i].before = Append(r, Last(u))[i + 1].after
  <2>1. CASE i < Len(r)
    BY <1>2, <2>1 DEF Joins
  <2>2. CASE i = Len(r)
    <3>1. r # <<>> /\ Append(r, Last(u))[i] = Last(r)
      BY <1>2, <2>2, EmptySeq DEF Last
    <3> QED
      BY <1>2, <2>2, <3>1 DEF Joins, Last
  <2> QED
    BY <1>2, <2>1, <2>2
<1>5. Front(u) # <<>> => Last(Front(u)).after = Last(u).before
  BY <1>1 DEF Joins, Last
<1> QED
  BY <1>2, <1>3, <1>4, <1>5 DEF Joins

\* Redo moves it forward.
LEMMA JoinsRedo ==
    ASSUME NEW u \in Seq(Entries), NEW r \in Seq(Entries), Joins(u, r), r # <<>>
    PROVE  /\ Joins(Append(u, Last(r)), Front(r))
           /\ Front(r) # <<>> => Last(Front(r)).before = Last(r).after
<1>1. /\ Len(r) \in Nat \ {0} /\ Len(Front(r)) = Len(r) - 1 /\ Last(r) \in Entries
      /\ \A i \in 1..Len(r) - 1 : Front(r)[i] = r[i]
      /\ Front(r) # <<>> => Len(r) > 1 /\ Last(Front(r)) = r[Len(r) - 1]
  BY Fronted
<1>2. /\ Len(u) \in Nat /\ Len(Append(u, Last(r))) = Len(u) + 1
      /\ Last(Append(u, Last(r))) = Last(r)
      /\ \A i \in 1..Len(u) : Append(u, Last(r))[i] = u[i]
  BY <1>1, Appended, LenProperties
<1>3. ASSUME NEW i \in 1..Len(Front(r)) - 1
      PROVE  Front(r)[i].before = Front(r)[i + 1].after
  BY <1>1 DEF Joins
<1>4. ASSUME NEW i \in 1..Len(Append(u, Last(r))) - 1
      PROVE  Append(u, Last(r))[i].after = Append(u, Last(r))[i + 1].before
  <2>1. CASE i < Len(u)
    BY <1>2, <2>1 DEF Joins
  <2>2. CASE i = Len(u)
    <3>1. u # <<>> /\ Append(u, Last(r))[i] = Last(u)
      BY <1>2, <2>2, EmptySeq DEF Last
    <3> QED
      BY <1>2, <2>2, <3>1 DEF Joins, Last
  <2> QED
    BY <1>2, <2>1, <2>2
<1>5. Front(r) # <<>> => Last(Front(r)).before = Last(r).after
  BY <1>1 DEF Joins, Last
<1> QED
  BY <1>2, <1>3, <1>4, <1>5 DEF Joins

-----------------------------------------------------------------------------
(* One step                                                                *)

\* Revisions never go back, and a document that keeps its revision keeps its
\* content.
Advances ==
    \A d \in Documents :
        /\ documents[d].revision <= documents'[d].revision
        /\ documents[d].revision = documents'[d].revision =>
               documents[d].content = documents'[d].content

\* What no step of another stack touches stays good.
LEMMA JobStays ==
    ASSUME Shape, Shape', Advances, NEW s \in Stacks, NEW kind, NEW document \in Documents,
           NEW catalog, NEW baseline \in States, NEW command,
           Job(s, kind, document, catalog, baseline, command),
           undo'[s] = undo[s], redo'[s] = redo[s], binding'[s] = binding[s]
    PROVE  Job(s, kind, document, catalog, baseline, command)'
<1>1. /\ baseline.revision \in Nat /\ documents[document].revision \in Nat
      /\ documents'[document].revision \in Nat
  BY DEF Shape, States
<1>2. /\ baseline.revision <= documents'[document].revision
      /\ baseline.revision = documents'[document].revision =>
             baseline.content = documents'[document].content
  BY <1>1 DEF Job, Advances
<1>3. Refers(s, kind, command)'
  BY DEF Job, Refers
<1> QED
  BY <1>2, <1>3 DEF Job, Source

\* Nor a history: if the document moved on, the stack no longer claims to fit it.
LEMMA HistoryStays ==
    ASSUME Shape, Shape', Advances, NEW s \in Stacks, HistoryOf(s),
           undo'[s] = undo[s], redo'[s] = redo[s], binding'[s] = binding[s],
           history_limit'[s] = history_limit[s]
    PROVE  HistoryOf(s)'
<1>1. CASE binding[s] = None
  BY <1>1 DEF HistoryOf
<1>2. CASE binding[s] # None
  <2> DEFINE d == binding[s].document
  <2>1. /\ d \in Documents /\ binding[s].revision \in Nat /\ documents[d].revision \in Nat
        /\ documents'[d].revision \in Nat
    BY <1>2 DEF Shape, States, Bindings
  <2>2. /\ binding[s].revision <= documents'[d].revision
        /\ binding[s].revision = documents'[d].revision =>
               Fits(undo[s], redo[s], documents'[d].content)
    BY <1>2, <2>1 DEF HistoryOf, Advances
  <2> QED
    BY <1>2, <2>2 DEF HistoryOf
<1> QED
  BY <1>1, <1>2

\* What a commit does to the documents: the staged result is published over the
\* very content it was staged from.
LEMMA PublishHolds ==
    ASSUME Shape, NEW s \in Stacks, NEW kind \in Kinds, NEW document \in Documents, NEW catalog,
           NEW baseline \in States, NEW command \in Entries,
           Job(s, kind, document, catalog, baseline, command),
           CanCommit(document, baseline, Result(kind, command)),
           Publish(document, baseline, Result(kind, command))
    PROVE  /\ documents' \in [Documents -> States]
           /\ Advances
           /\ documents[document].content = Source(kind, command)
           /\ documents[document].revision = baseline.revision
           /\ documents'[document].content = Result(kind, command)
           /\ \A d \in Documents \ {document} : documents'[d] = documents[d]
           /\ Result(kind, command) = Source(kind, command) => documents' = documents
<1>1. /\ documents[document].revision = baseline.revision
      /\ documents[document].content = Source(kind, command)
      /\ baseline.content = Source(kind, command)
  BY DEF CanCommit, Job
<1>2. Result(kind, command) \in Contents
  BY DEF Result, Entries
<1>3. CASE Result(kind, command) = baseline.content
  <2>1. documents' = documents
    BY <1>3 DEF Publish
  <2> QED
    BY <1>1, <1>3, <2>1 DEF Shape, States, Advances
<1>4. CASE Result(kind, command) # baseline.content
  <2>1. /\ documents' = [documents EXCEPT ![document].content = Result(kind, command),
                                          ![document].revision = @ + 1]
        /\ documents[document].revision # LastRevision
    BY <1>4 DEF Publish, CanCommit
  <2>2. /\ documents[document] \in States
        /\ documents'[document].content = Result(kind, command)
        /\ documents'[document].revision = documents[document].revision + 1
        /\ documents'[document].epoch = documents[document].epoch
        /\ documents'[document] \in States
    <3>1. /\ documents[document] \in States
          /\ documents'[document] = [documents[document] EXCEPT
                                      !.content = Result(kind, command), !.revision = @ + 1]
      BY <2>1 DEF Shape
    <3>2. documents[document].revision + 1 \in 0..LastRevision
      BY <2>1, <3>1, CommandStackAssumption DEF States
    <3> QED
      BY <1>2, <3>1, <3>2 DEF States
  <2>3. \A d \in Documents \ {document} : documents'[d] = documents[d]
    BY <2>1 DEF Shape
  <2>4. documents' \in [Documents -> States]
    <3>1. documents' = [d \in Documents |-> documents'[d]]
      BY <2>1 DEF Shape
    <3>2. \A d \in Documents : documents'[d] \in States
      BY <2>2, <2>3 DEF Shape
    <3> QED
      BY <3>1, <3>2
  <2>5. Advances
    <3>1. \A d \in Documents : documents[d].revision \in Nat
      BY CommandStackAssumption DEF Shape, States
    <3>2. \A r \in Nat : r <= r /\ r <= r + 1 /\ r # r + 1
      OBVIOUS
    <3> QED
      BY <2>2, <2>3, <3>1, <3>2, Zenon DEF Advances
  <2> QED
    BY <1>1, <1>4, <2>2, <2>3, <2>4, <2>5
<1> QED
  BY <1>3, <1>4

\* What a commit of stack s establishes.
Committed(s) ==
    /\ documents' \in [Documents -> States]
    /\ undo' \in [Stacks -> Seq(Entries)]
    /\ redo' \in [Stacks -> Seq(Entries)]
    /\ binding' \in [Stacks -> Bindings \cup {None}]
    /\ \A t \in Stacks \ {s} : undo'[t] = undo[t] /\ redo'[t] = redo[t] /\ binding'[t] = binding[t]
    /\ HistoryOf(s)'

\* A history and a binding to the revision of the commit.
LEMMA Rebound ==
    ASSUME Shape, documents' \in [Documents -> States], NEW s \in Stacks,
           NEW document \in Documents, NEW catalog \in Catalogs, history_limit'[s] # 0,
           NEW u \in Seq(Entries), NEW r \in Seq(Entries), Joins(u, r), u # <<>> \/ r # <<>>,
           Fits(u, r, documents'[document].content),
           undo' = [undo EXCEPT ![s] = u], redo' = [redo EXCEPT ![s] = r],
           Bind(s, document, catalog, documents'[document].revision)
    PROVE  Committed(s)
<1> DEFINE b == [document |-> document, catalog |-> catalog,
                 revision |-> documents'[document].revision]
<1>1. b \in Bindings /\ b # None /\ binding' = [binding EXCEPT ![s] = b]
  BY NoneAssumption DEF Bind, Bindings, States
<1>2. undo'[s] = u /\ redo'[s] = r /\ binding'[s] = b
  BY <1>1 DEF Shape
<1>3. /\ undo' \in [Stacks -> Seq(Entries)]
      /\ redo' \in [Stacks -> Seq(Entries)]
      /\ binding' \in [Stacks -> Bindings \cup {None}]
      /\ \A t \in Stacks \ {s} :
             undo'[t] = undo[t] /\ redo'[t] = redo[t] /\ binding'[t] = binding[t]
  <2> HIDE DEF b
  <2> QED
    BY <1>1 DEF Shape
<1>4. b.document = document /\ b.revision = documents'[document].revision
  OBVIOUS
<1>5. documents'[document].revision \in Nat
  BY DEF States
<1> HIDE DEF b
<1>6. HistoryOf(s)'
  BY <1>1, <1>2, <1>4, <1>5 DEF HistoryOf
<1> QED
  BY <1>3, <1>6 DEF Committed

\* The commit of an Execute appends, merges, or leaves the history of a limit 0 empty.
LEMMA ExecuteCommits ==
    ASSUME Shape, NEW s \in Stacks, HistoryOf(s), NEW document \in Documents,
           NEW catalog \in Catalogs, NEW baseline \in States, NEW command \in Entries,
           NEW merges \in BOOLEAN, Job(s, "execute", document, catalog, baseline, command),
           CanCommit(document, baseline, Result("execute", command)),
           Publish(document, baseline, Result("execute", command)),
           RecordExecute(s, document, catalog, command, merges), UNCHANGED history_limit
    PROVE  Committed(s)
<1> DEFINE u == undo[s]
           r == redo[s]
<1>1. /\ u \in Seq(Entries) /\ r \in Seq(Entries) /\ history_limit[s] \in Nat
      /\ Joins(u, r)
  BY CommandStackAssumption DEF Shape, HistoryOf
<1>2. /\ documents' \in [Documents -> States]
      /\ Advances
      /\ documents[document].content = command.before
      /\ documents[document].revision = baseline.revision
      /\ documents'[document].content = command.after
      /\ command.after = command.before => documents' = documents
  BY PublishHolds DEF Kinds, Source, Result
<1>3. u # <<>> => Last(u).after = command.before
  <2> SUFFICES ASSUME u # <<>> PROVE Fits(u, r, documents[document].content)
    BY <1>2 DEF Fits
  <2>1. binding[s] # None /\ binding[s].document = document
        /\ binding[s].revision = baseline.revision
    BY DEF HistoryOf, Job
  <2> QED
    BY <1>2, <2>1 DEF HistoryOf
<1>4. CASE command.after = command.before
  <2>1. redo' = redo /\ binding' = binding /\ documents' = documents
    BY <1>2, <1>4 DEF RecordExecute
  <2>2. undo' = undo
    <3>1. CASE merges /\ u # <<>>
      <4>1. Amended(u, command) = u
        BY <1>1, <1>3, <1>4, <3>1, JoinsAmend
      <4> QED
        BY <1>4, <3>1, <4>1 DEF RecordExecute, Shape
    <3>2. CASE ~(merges /\ u # <<>>)
      BY <1>4, <3>2 DEF RecordExecute
    <3> QED
      BY <3>1, <3>2
  <2>3. HistoryOf(s)'
    BY <2>1, <2>2 DEF HistoryOf
  <2> QED
    BY <1>2, <2>1, <2>2, <2>3 DEF Committed, Shape
<1>5. CASE command.after # command.before /\ history_limit[s] = 0
  <2>1. /\ undo' = undo /\ redo' = [redo EXCEPT ![s] = <<>>]
        /\ binding' = [binding EXCEPT ![s] = None]
    BY <1>5 DEF RecordExecute
  <2>2. undo[s] = <<>> /\ redo[s] = <<>>
    BY <1>5 DEF HistoryOf
  <2>3. /\ undo'[s] = <<>> /\ redo'[s] = <<>> /\ binding'[s] = None
        /\ <<>> \in Seq(Entries)
    BY <2>1, <2>2 DEF Shape
  <2>4. HistoryOf(s)'
    BY <1>1, <2>2, <2>3 DEF HistoryOf
  <2> QED
    BY <1>2, <2>1, <2>3, <2>4 DEF Committed, Shape
<1>6. CASE command.after # command.before /\ history_limit[s] # 0
  <2>1. /\ redo' = [redo EXCEPT ![s] = <<>>]
        /\ Bind(s, document, catalog, documents'[document].revision)
        /\ undo' = [undo EXCEPT ![s] = IF merges /\ u # <<>> THEN Amended(u, command)
                                       ELSE LastOf(Append(u, command), history_limit[s])]
    BY <1>6 DEF RecordExecute, Shape
  <2>2. PICK w : w = IF merges /\ u # <<>> THEN Amended(u, command)
                     ELSE LastOf(Append(u, command), history_limit[s])
    OBVIOUS
  <2>3. /\ w \in Seq(Entries) /\ w # <<>> /\ Last(w).after = command.after
        /\ Joins(w, <<>>)
    <3>1. CASE merges /\ u # <<>>
      BY <1>1, <2>2, <3>1, JoinsAmend
    <3>2. CASE ~(merges /\ u # <<>>)
      <4>1. /\ Append(u, command) \in Seq(Entries) /\ Append(u, command) # <<>>
            /\ Last(Append(u, command)) = command /\ <<>> \in Seq(Entries)
            /\ Joins(Append(u, command), <<>>)
        BY <1>1, <1>3, Appended, JoinsAppend
      <4>2. LastOf(<<>>, history_limit[s]) = <<>>
        BY <1>1, Trimmed, <4>1
      <4> DEFINE a == Append(u, command)
      <4>3. w = LastOf(a, history_limit[s])
        BY <2>2, <3>2
      <4> HIDE DEF a
      <4>4. w \in Seq(Entries) /\ w # <<>> /\ Last(w) = Last(a)
        <5>1. a \in Seq(Entries) /\ a # <<>> /\ history_limit[s] \in Nat /\ history_limit[s] # 0
          BY <1>1, <1>6, <4>1 DEF a
        <5> QED
          BY <4>3, <5>1, Trimmed
      <4>5. Joins(w, <<>>)
        BY <1>1, <4>1, <4>2, <4>3, JoinsTrim DEF a
      <4> QED
        BY <4>1, <4>4, <4>5 DEF a
    <3> QED
      BY <3>1, <3>2
  <2>4. Fits(w, <<>>, documents'[document].content) /\ <<>> \in Seq(Entries)
    BY <1>2, <2>3 DEF Fits
  <2> QED
    BY <1>2, <1>6, <2>1, <2>2, <2>3, <2>4, Rebound
<1> QED
  BY <1>4, <1>5, <1>6

\* The commit of an Undo or a Redo moves one entry across the cursor.
LEMMA MoveCommits ==
    ASSUME Shape, NEW s \in Stacks, HistoryOf(s), NEW kind \in {"undo", "redo"},
           NEW document \in Documents, NEW catalog \in Catalogs, NEW baseline \in States,
           NEW command \in Entries, Job(s, kind, document, catalog, baseline, command),
           CanCommit(document, baseline, Result(kind, command)),
           Publish(document, baseline, Result(kind, command)),
           RecordMove(s, kind, document, catalog), UNCHANGED history_limit
    PROVE  Committed(s)
<1> DEFINE u == undo[s]
           r == redo[s]
<1>1. u \in Seq(Entries) /\ r \in Seq(Entries) /\ Joins(u, r)
  BY DEF Shape, HistoryOf
<1>2. /\ documents' \in [Documents -> States]
      /\ documents'[document].content = Result(kind, command)
  BY PublishHolds DEF Kinds
<1>3. CASE kind = "undo"
  <2>1. u # <<>> /\ command = Last(u) /\ Result(kind, command) = command.before
    BY <1>3 DEF Job, Refers, Result
  <2>2. /\ undo' = [undo EXCEPT ![s] = Front(u)]
        /\ redo' = [redo EXCEPT ![s] = Append(r, command)]
        /\ Bind(s, document, catalog, documents'[document].revision)
    BY <1>3, <2>1 DEF RecordMove, Shape
  <2>3. /\ Front(u) \in Seq(Entries) /\ Append(r, command) \in Seq(Entries)
        /\ Append(r, command) # <<>> /\ Last(Append(r, command)) = command
    BY <1>1, <2>1, Fronted, Appended
  <2>4. /\ Joins(Front(u), Append(r, command))
        /\ Front(u) # <<>> => Last(Front(u)).after = command.before
    BY <1>1, <2>1, JoinsUndo
  <2>5. Fits(Front(u), Append(r, command), documents'[document].content)
    BY <1>2, <2>1, <2>3, <2>4 DEF Fits
  <2>6. history_limit'[s] # 0
    BY <2>1 DEF HistoryOf
  <2> QED
    BY <1>2, <2>2, <2>3, <2>4, <2>5, <2>6, Rebound
<1>4. CASE kind = "redo"
  <2>1. r # <<>> /\ command = Last(r) /\ Result(kind, command) = command.after
    BY <1>4 DEF Job, Refers, Result
  <2>2. /\ redo' = [redo EXCEPT ![s] = Front(r)]
        /\ undo' = [undo EXCEPT ![s] = Append(u, command)]
        /\ Bind(s, document, catalog, documents'[document].revision)
    BY <1>4, <2>1 DEF RecordMove, Shape
  <2>3. /\ Front(r) \in Seq(Entries) /\ Append(u, command) \in Seq(Entries)
        /\ Append(u, command) # <<>> /\ Last(Append(u, command)) = command
    <3>1. Front(r) \in Seq(Entries)
      BY <1>1, <2>1, Fronted
    <3> QED
      BY <1>1, <3>1, Appended
  <2>4. /\ Joins(Append(u, command), Front(r))
        /\ Front(r) # <<>> => Last(Front(r)).before = command.after
    BY <1>1, <2>1, JoinsRedo
  <2>5. Fits(Append(u, command), Front(r), documents'[document].content)
    BY <1>2, <2>1, <2>3, <2>4 DEF Fits
  <2>6. history_limit'[s] # 0
    BY <2>1 DEF HistoryOf
  <2> QED
    BY <1>2, <2>2, <2>3, <2>4, <2>5, <2>6, Rebound
<1> QED
  BY <1>3, <1>4

\* Every commit keeps one history in order and overwrites nothing unseen.
LEMMA CommitHolds ==
    ASSUME Shape, NEW s \in Stacks, HistoryOf(s), NEW kind \in Kinds,
           NEW document \in Documents, NEW catalog \in Catalogs, NEW baseline \in States,
           NEW command \in Entries, NEW merges \in BOOLEAN,
           Job(s, kind, document, catalog, baseline, command),
           Commit(s, kind, document, catalog, baseline, command, merges),
           UNCHANGED history_limit
    PROVE  /\ Committed(s)
           /\ Advances
           /\ \A d \in Documents : documents'[d].content # documents[d].content =>
                  /\ Source(kind, command) = documents[d].content
                  /\ Result(kind, command) = documents'[d].content
<1>1. /\ CanCommit(document, baseline, Result(kind, command))
      /\ Publish(document, baseline, Result(kind, command))
      /\ RecordHistory(s, kind, document, catalog, command, merges)
  BY DEF Commit
<1>2. /\ Advances
      /\ documents[document].content = Source(kind, command)
      /\ documents'[document].content = Result(kind, command)
      /\ \A d \in Documents \ {document} : documents'[d] = documents[d]
  BY <1>1, PublishHolds
<1>3. CASE kind = "execute"
  BY <1>1, <1>2, <1>3, ExecuteCommits DEF RecordHistory
<1>4. CASE kind # "execute"
  <2>1. kind \in {"undo", "redo"} /\ RecordMove(s, kind, document, catalog)
    BY <1>1, <1>4 DEF Kinds, RecordHistory
  <2> QED
    BY <1>1, <1>2, <2>1, MoveCommits
<1> QED
  BY <1>3, <1>4

-----------------------------------------------------------------------------
(* The calls in progress                                                   *)

\* JobStays for a call or a pending operation.
LEMMA JobOfStays ==
    ASSUME Shape, Shape', Advances, NEW s \in Stacks, NEW job, job.document \in Documents,
           job.baseline \in States, JobOf(s, job),
           undo'[s] = undo[s], redo'[s] = redo[s], binding'[s] = binding[s]
    PROVE  JobOf(s, job)'
  BY JobStays DEF JobOf

\* A call in progress stays good while another stack acts.
LEMMA CallStays ==
    ASSUME Shape, Shape', Advances, NEW call \in Frames, CallOf(call),
           undo'[call.stack] = undo[call.stack], redo'[call.stack] = redo[call.stack],
           binding'[call.stack] = binding[call.stack],
           pending'[call.stack] = pending[call.stack]
    PROVE  CallOf(call)'
<1>1. call.stack \in Stacks /\ call.document \in Documents /\ call.baseline \in States
  BY DEF Frames
<1>2. JobOf(call.stack, call)'
  BY <1>1, JobOfStays DEF CallOf
<1>3. Matches(call)'
  BY DEF CallOf, Matches
<1> QED
  BY <1>2, <1>3 DEF CallOf

\* The innermost call is one of the calls in progress.
LEMMA CallsAreFrames ==
    ASSUME Shape
    PROVE  /\ Len(active) \in Nat /\ DOMAIN active = 1..Len(active)
           /\ \A i \in DOMAIN active : active[i] \in Frames /\ active[i].stack \in Stacks
           /\ active # <<>> => Len(active) \in DOMAIN active /\ Top = active[Len(active)]
<1>1. active \in Seq(Frames)
  BY DEF Shape
<1>2. Len(active) \in Nat /\ DOMAIN active = 1..Len(active)
  BY <1>1, LenProperties
<1>3. \A i \in 1..Len(active) : active[i] \in Frames
  BY <1>1, ElementOfSeq
<1>4. active # <<>> => Len(active) \in 1..Len(active)
  BY <1>1, EmptySeq
<1> QED
  BY <1>2, <1>3, <1>4 DEF Frames, Top, Last

\* What the calls and histories outside T keep when a step touches only T.
LEMMA OthersStay ==
    ASSUME Inv, Shape', Advances, NEW T \in SUBSET Stacks,
           \A t \in Stacks \ T :
              /\ undo'[t] = undo[t] /\ redo'[t] = redo[t] /\ binding'[t] = binding[t]
              /\ pending'[t] = pending[t] /\ history_limit'[t] = history_limit[t],
           \A i \in DOMAIN active' : active'[i].stack \notin T =>
              \E j \in DOMAIN active : active[j] = active'[i],
           \A t \in T : HistoryOf(t)',
           \A t \in T : (pending[t] # None => JobOf(t, pending[t]))',
           (\A i \in DOMAIN active : active[i].stack \in T => CallOf(active[i]))'
    PROVE  Histories' /\ Calls' /\ Waiting'
<1>1. ASSUME NEW t \in Stacks PROVE HistoryOf(t)'
  <2>1. CASE t \notin T
    BY <2>1, HistoryStays DEF Inv, Histories
  <2> QED
    BY <2>1
<1>2. ASSUME NEW t \in Stacks, pending'[t] # None PROVE JobOf(t, pending[t])'
  <2>1. CASE t \notin T
    <3>1. PICK job : job = pending[t]
      OBVIOUS
    <3>2. pending'[t] = job /\ job \in Pendings /\ JobOf(t, job)
      BY <1>2, <2>1, <3>1 DEF Inv, Shape, Waiting
    <3>3. JobOf(t, job)'
      BY <2>1, <3>2, JobOfStays DEF Inv, Pendings
    <3> QED
      BY <3>2, <3>3
  <2> QED
    BY <1>2, <2>1
<1>3. ASSUME NEW i \in DOMAIN active' PROVE CallOf(active[i])'
  <2>1. CASE active'[i].stack \notin T
    <3>1. PICK j \in DOMAIN active : active[j] = active'[i]
      BY <2>1
    <3>2. PICK call : call = active[j]
      OBVIOUS
    <3>3. call \in Frames /\ CallOf(call) /\ call.stack \in Stacks \ T /\ active'[i] = call
      BY <2>1, <3>1, <3>2, CallsAreFrames DEF Inv, Calls
    <3>4. CallOf(call)'
      BY <3>3, CallStays DEF Inv
    <3> QED
      BY <3>3, <3>4
  <2> QED
    BY <2>1
<1> QED
  BY <1>1, <1>2, <1>3 DEF Histories, Waiting, Calls

\* A call of a stack that is not busy begins.
LEMMA Entered ==
    ASSUME Inv, NEW s \in Stacks, NEW frame \in Frames, frame.stack = s, ~busy[s],
           Enter(s, frame), CallOf(frame)
    PROVE  Inv'
<1> DEFINE n == Len(active)
<1>1. /\ n \in Nat /\ DOMAIN active = 1..n /\ active \in Seq(Frames)
      /\ \A i \in DOMAIN active : active[i] \in Frames /\ active[i].stack \in Stacks
  BY CallsAreFrames DEF Inv, Shape
<1>2. /\ busy' = [busy EXCEPT ![s] = TRUE] /\ active' = Append(active, frame)
      /\ UNCHANGED <<documents, undo, redo, pending, history_limit, next_deferred_id,
                     binding, exclusive, issued>>
  BY DEF Enter
<1>3. /\ active' \in Seq(Frames) /\ DOMAIN active' = 1..n + 1 /\ active'[n + 1] = frame
      /\ \A i \in DOMAIN active : active'[i] = active[i]
  BY <1>1, <1>2, AppendProperties, LenProperties
<1>4. \A i \in DOMAIN active' : i = n + 1 \/ i \in DOMAIN active
  BY <1>1, <1>3
<1>5. \A i \in DOMAIN active : active[i].stack # s
  BY DEF Inv, Alone
<1>6. Shape'
  BY <1>2, <1>3 DEF Inv, Shape
<1>7. Advances
  BY <1>2, CommandStackAssumption DEF Advances, Inv, Shape, States
<1>8. (\A i \in DOMAIN active : active[i].stack \in {} => CallOf(active[i]))'
  OBVIOUS
<1>9. Histories' /\ Waiting'
  BY <1>2 DEF Inv, Histories, Waiting, HistoryOf, JobOf, Job, Refers
<1>10. Calls'
  <2> SUFFICES ASSUME NEW i \in DOMAIN active'
               PROVE  CallOf(active[i])'
    BY DEF Calls
  <2>1. PICK call : call = active'[i]
    OBVIOUS
  <2>2. CallOf(call)
    BY <1>3, <1>4, <2>1 DEF Inv, Calls
  <2>3. CallOf(call)'
    BY <1>2, <2>2 DEF CallOf, Matches, JobOf, Job, Refers
  <2> QED
    BY <2>1, <2>3
<1>11. Alone'
  <2>1. \A i, j \in DOMAIN active' : active'[i].stack = active'[j].stack => i = j
    BY <1>3, <1>4, <1>5 DEF Inv, Alone
  <2>2. \A i \in DOMAIN active' : busy'[active'[i].stack] /\ ~exclusive'[active'[i].stack]
    BY <1>1, <1>2, <1>3, <1>4, <1>5 DEF Inv, Alone, Shape
  <2>3. ASSUME NEW t \in Stacks, busy'[t]
        PROVE  exclusive'[t] \/ \E i \in DOMAIN active' : active'[i].stack = t
    <3>1. CASE t = s
      BY <1>1, <1>3, <3>1
    <3>2. CASE t # s
      BY <1>1, <1>2, <1>3, <2>3, <3>2 DEF Inv, Alone, Shape
    <3> QED
      BY <3>1, <3>2
  <2>4. \A t \in Stacks : exclusive'[t] => busy'[t]
    BY <1>2 DEF Inv, Alone, Shape
  <2> QED
    BY <2>1, <2>2, <2>3, <2>4 DEF Alone
<1> QED
  BY <1>6, <1>9, <1>10, <1>11 DEF Inv

\* The innermost call ends.
LEMMA Left ==
    ASSUME Inv, active # <<>>, Leave, UNCHANGED exclusive
    PROVE  /\ Alone'
           /\ active' \in Seq(Frames) /\ busy' \in [Stacks -> BOOLEAN]
           /\ \A i \in DOMAIN active' :
                 active'[i].stack # Top.stack /\ \E j \in DOMAIN active : active[j] = active'[i]
<1> DEFINE n == Len(active)
<1>1. /\ n \in DOMAIN active /\ n \in Nat /\ DOMAIN active = 1..n /\ active \in Seq(Frames)
      /\ Top = active[n] /\ Top.stack \in Stacks
      /\ \A i \in DOMAIN active : active[i].stack \in Stacks
  BY CallsAreFrames DEF Inv, Shape
<1>2. /\ busy' = [busy EXCEPT ![Top.stack] = FALSE] /\ active' = Front(active)
      /\ exclusive' = exclusive
  BY DEF Leave
<1>3. /\ active' \in Seq(Frames) /\ DOMAIN active' = 1..n - 1
      /\ \A i \in 1..n - 1 : active'[i] = active[i]
  BY <1>1, <1>2, Fronted, LenProperties
<1>4. \A i \in DOMAIN active' : i \in DOMAIN active /\ i # n /\ active'[i] = active[i]
  BY <1>1, <1>3
<1>5. \A i \in DOMAIN active' : active'[i].stack # Top.stack
  BY <1>1, <1>4 DEF Inv, Alone
<1>6. Alone'
  <2>1. \A i, j \in DOMAIN active' : active'[i].stack = active'[j].stack => i = j
    BY <1>4 DEF Inv, Alone
  <2>2. \A i \in DOMAIN active' : busy'[active'[i].stack] /\ ~exclusive'[active'[i].stack]
    BY <1>1, <1>2, <1>4, <1>5 DEF Inv, Alone, Shape
  <2>3. ASSUME NEW t \in Stacks, busy'[t]
        PROVE  exclusive'[t] \/ \E i \in DOMAIN active' : active'[i].stack = t
    <3>1. t # Top.stack /\ busy[t]
      BY <1>1, <1>2, <2>3 DEF Inv, Shape
    <3>2. CASE exclusive[t]
      BY <1>2, <3>2
    <3>3. CASE ~exclusive[t]
      <4>1. PICK i \in DOMAIN active : active[i].stack = t
        BY <3>1, <3>3 DEF Inv, Alone
      <4>2. i \in 1..n - 1
        BY <1>1, <3>1, <4>1
      <4> QED
        BY <1>3, <4>1, <4>2
    <3> QED
      BY <3>2, <3>3
  <2>4. ASSUME NEW t \in Stacks, exclusive'[t] PROVE busy'[t]
    <3>1. ~exclusive[Top.stack] /\ exclusive[t] /\ busy[t]
      BY <1>1, <1>2, <2>4 DEF Inv, Alone
    <3> QED
      BY <1>1, <1>2, <3>1 DEF Inv, Shape
  <2> QED
    BY <2>1, <2>2, <2>3, <2>4 DEF Alone
<1> QED
  BY <1>2, <1>3, <1>4, <1>5, <1>6 DEF Inv, Shape

\* The innermost call goes on to another callback.
LEMMA Moved ==
    ASSUME Inv, active # <<>>, NEW frame \in Frames, frame.stack = Top.stack, Goes(frame),
           UNCHANGED <<documents, undo, redo, pending, history_limit, next_deferred_id,
                       binding, busy, exclusive, issued>>,
           CallOf(frame)
    PROVE  Inv'
<1> DEFINE n == Len(active)
<1>1. /\ n \in DOMAIN active /\ n \in Nat /\ DOMAIN active = 1..n /\ active \in Seq(Frames)
      /\ Top = active[n] /\ \A i \in DOMAIN active : active[i] \in Frames
  BY CallsAreFrames DEF Inv, Shape
<1>2. Front(active) \in Seq(Frames) /\ Len(Front(active)) = n - 1
      /\ \A i \in 1..n - 1 : Front(active)[i] = active[i]
  BY <1>1, Fronted
<1>3. /\ active' \in Seq(Frames) /\ DOMAIN active' = 1..n /\ active'[n] = frame
      /\ \A i \in 1..n : i # n => active'[i] = active[i]
  <2>1. PICK f : f = Front(active)
    OBVIOUS
  <2>2. /\ active' \in Seq(Frames) /\ Len(active') = Len(f) + 1 /\ active'[Len(f) + 1] = frame
        /\ \A i \in 1..Len(f) : active'[i] = f[i]
    BY <1>2, <2>1, AppendProperties DEF Goes
  <2> HIDE DEF n
  <2>3. DOMAIN active' = 1..Len(active') /\ Len(f) = n - 1
    BY <1>2, <2>1, <2>2, LenProperties
  <2>4. n - 1 + 1 = n /\ \A i \in 1..n : i # n => i \in 1..n - 1
    BY <1>1
  <2> QED
    BY <1>2, <2>1, <2>2, <2>3, <2>4
<1>4. Shape'
  BY <1>3 DEF Inv, Shape
<1>5. Histories' /\ Waiting'
  BY DEF Inv, Histories, Waiting, HistoryOf, JobOf, Job, Refers
<1>6. Calls'
  <2> SUFFICES ASSUME NEW i \in DOMAIN active'
               PROVE  CallOf(active[i])'
    BY DEF Calls
  <2>1. PICK call : call = active'[i]
    OBVIOUS
  <2>2. CallOf(call)
    BY <1>1, <1>3, <2>1 DEF Inv, Calls
  <2>3. CallOf(call)'
    BY <2>2 DEF CallOf, Matches, JobOf, Job, Refers
  <2> QED
    BY <2>1, <2>3
<1>7. Alone'
  <2>1. \A i \in DOMAIN active' : i \in DOMAIN active /\ active'[i].stack = active[i].stack
    BY <1>1, <1>3
  <2>2. DOMAIN active' = DOMAIN active
    BY <1>1, <1>3
  <2>3. /\ \A i, j \in DOMAIN active' : active'[i].stack = active'[j].stack => i = j
        /\ \A i \in DOMAIN active' :
               busy'[active'[i].stack] /\ ~exclusive'[active'[i].stack]
    BY <2>1 DEF Inv, Alone
  <2>4. ASSUME NEW t \in Stacks, busy'[t]
        PROVE  exclusive'[t] \/ \E i \in DOMAIN active' : active'[i].stack = t
    BY <2>1, <2>2, <2>4 DEF Inv, Alone
  <2>5. \A t \in Stacks : exclusive'[t] => busy'[t]
    BY DEF Inv, Alone
  <2> QED
    BY <2>3, <2>4, <2>5 DEF Alone
<1> QED
  BY <1>4, <1>5, <1>6, <1>7 DEF Inv

\* A commit of a stack that has no call and no pending operation afterwards.
LEMMA AfterCommit ==
    ASSUME Inv, NEW s \in Stacks, NEW kind \in Kinds, NEW document \in Documents,
           NEW catalog \in Catalogs, NEW baseline \in States, NEW command \in Entries,
           NEW merges \in BOOLEAN, Job(s, kind, document, catalog, baseline, command),
           Commit(s, kind, document, catalog, baseline, command, merges),
           UNCHANGED <<history_limit, next_deferred_id, exclusive, issued>>,
           pending' \in [Stacks -> Pendings \cup {None}], pending'[s] = None,
           \A t \in Stacks \ {s} : pending'[t] = pending[t],
           active' \in Seq(Frames), busy' \in [Stacks -> BOOLEAN], Alone',
           \A i \in DOMAIN active' :
              active'[i].stack # s /\ \E j \in DOMAIN active : active[j] = active'[i]
    PROVE  Inv'
<1>1. Committed(s) /\ Advances
  BY CommitHolds DEF Inv, Histories
<1>2. Shape'
  BY <1>1 DEF Inv, Shape, Committed
<1>3. \A t \in Stacks \ {s} :
         /\ undo'[t] = undo[t] /\ redo'[t] = redo[t] /\ binding'[t] = binding[t]
         /\ pending'[t] = pending[t] /\ history_limit'[t] = history_limit[t]
  BY <1>1 DEF Committed
<1>4. \A t \in {s} : HistoryOf(t)'
  BY <1>1 DEF Committed
<1>5. Histories' /\ Calls' /\ Waiting'
  <2>1. PICK T \in SUBSET Stacks : T = {s}
    OBVIOUS
  <2>2. \A t \in Stacks \ T :
           /\ undo'[t] = undo[t] /\ redo'[t] = redo[t] /\ binding'[t] = binding[t]
           /\ pending'[t] = pending[t] /\ history_limit'[t] = history_limit[t]
    BY <1>3, <2>1
  <2>3. \A i \in DOMAIN active' : active'[i].stack \notin T =>
           \E j \in DOMAIN active : active[j] = active'[i]
    OBVIOUS
  <2>4. /\ \A t \in T : HistoryOf(t)'
        /\ \A t \in T : (pending[t] # None => JobOf(t, pending[t]))'
        /\ (\A i \in DOMAIN active : active[i].stack \in T => CallOf(active[i]))'
    BY <1>4, <2>1
  <2> QED
    BY <1>1, <1>2, <2>2, <2>3, <2>4, OthersStay
<1> QED
  BY <1>2, <1>5 DEF Inv

\* The innermost call commits and ends.
LEMMA CallCommits ==
    ASSUME Inv, active # <<>>, NEW call \in Frames, call = Top, NEW merges \in BOOLEAN,
           Commit(call.stack, call.kind, call.document, call.catalog, call.baseline,
                  call.command, merges),
           Leave, UNCHANGED <<history_limit, next_deferred_id, exclusive, issued>>,
           pending' = [pending EXCEPT ![call.stack] = None]
    PROVE  Inv'
<1>1. /\ call.stack \in Stacks /\ call.kind \in Kinds /\ call.document \in Documents
      /\ call.catalog \in Catalogs /\ call.baseline \in States /\ call.command \in Entries
  BY DEF Frames
<1>2. Job(call.stack, call.kind, call.document, call.catalog, call.baseline, call.command)
  <2>1. CallOf(call)
    BY CallsAreFrames DEF Inv, Calls
  <2> QED
    BY <2>1 DEF CallOf, JobOf
<1>3. /\ Alone' /\ active' \in Seq(Frames) /\ busy' \in [Stacks -> BOOLEAN]
      /\ \A i \in DOMAIN active' :
            active'[i].stack # call.stack /\ \E j \in DOMAIN active : active[j] = active'[i]
  BY Left
<1>4. /\ pending' \in [Stacks -> Pendings \cup {None}] /\ pending'[call.stack] = None
      /\ \A t \in Stacks \ {call.stack} : pending'[t] = pending[t]
  BY <1>1 DEF Inv, Shape
<1> QED
  BY <1>1, <1>2, <1>3, <1>4, AfterCommit

\* A pending operation commits outside every call of its stack.
LEMMA PendingCommits ==
    ASSUME Inv, NEW s \in Stacks, ~busy[s], NEW job \in Pendings, JobOf(s, job),
           NEW merges \in BOOLEAN,
           Commit(s, job.kind, job.document, job.catalog, job.baseline, job.command, merges),
           UNCHANGED <<history_limit, next_deferred_id, exclusive, issued>>,
           UNCHANGED <<busy, active>>,
           pending' = [pending EXCEPT ![s] = None]
    PROVE  Inv'
<1>1. /\ job.kind \in Kinds /\ job.document \in Documents
      /\ job.catalog \in Catalogs /\ job.baseline \in States /\ job.command \in Entries
  BY DEF Pendings
<1>2. Job(s, job.kind, job.document, job.catalog, job.baseline, job.command)
  BY DEF JobOf
<1>3. \A i \in DOMAIN active' :
         active'[i].stack # s /\ \E j \in DOMAIN active : active[j] = active'[i]
  BY DEF Inv, Alone
<1>4. /\ pending' \in [Stacks -> Pendings \cup {None}] /\ pending'[s] = None
      /\ \A t \in Stacks \ {s} : pending'[t] = pending[t]
  BY DEF Inv, Shape
<1>5. active' \in Seq(Frames) /\ busy' \in [Stacks -> BOOLEAN] /\ Alone'
  BY DEF Inv, Shape, Alone
<1> QED
  BY <1>1, <1>2, <1>3, <1>4, <1>5, AfterCommit, ZenonT(60)

-----------------------------------------------------------------------------
(* Every action                                                            *)

\* A binding that passes ValidateBinding names the baseline of a new call.
LEMMA BoundToBaseline ==
    ASSUME Shape, NEW s \in Stacks, NEW document \in Documents, NEW catalog \in Catalogs,
           BoundTo(s, document, catalog), binding[s] # None
    PROVE  binding[s] = [document |-> document, catalog |-> catalog,
                         revision |-> documents[document].revision]
<1>1. /\ binding[s] \in Bindings
      /\ binding[s].revision = documents[document].revision
      /\ binding[s].document = document /\ binding[s].catalog = catalog
  BY DEF Shape, BoundTo, BoundToRevision, BoundToDocument
<1> QED
  BY <1>1 DEF Bindings

\* Execute, Undo and Redo begin.
LEMMA Started ==
    ASSUME Inv, NEW s \in Stacks, ~busy[s], pending[s] = None, NEW kind \in Kinds,
           NEW document \in Documents, NEW catalog \in Catalogs,
           NEW at \in {"apply", "restore"}, at = "restore" => kind = "undo",
           NEW command \in Entries, Source(kind, command) = documents[document].content,
           Refers(s, kind, command), BoundTo(s, document, catalog),
           Enter(s, Frame(s, kind, document, catalog, at, command))
    PROVE  Inv'
<1>1. PICK frame : frame = Frame(s, kind, document, catalog, at, command)
  OBVIOUS
<1>2. /\ documents[document] \in States /\ documents[document].revision \in Nat
  BY CommandStackAssumption DEF Inv, Shape, States
<1>3. /\ frame.stack = s /\ frame.kind = kind /\ frame.document = document
      /\ frame.catalog = catalog /\ frame.baseline = documents[document]
      /\ frame.command = command /\ frame.at = at /\ frame.depth = 0
      /\ frame \in Frames
  BY <1>1, <1>2, CommandStackAssumption DEF Frame, Frames
<1>4. Matches(frame)
  BY <1>3 DEF Matches
<1>5. JobOf(s, frame)
  BY <1>2, <1>3, BoundToBaseline DEF JobOf, Job, Inv
<1>6. CallOf(frame)
  BY <1>3, <1>4, <1>5 DEF CallOf
<1> QED
  BY <1>1, <1>3, <1>6, Entered

\* Execute starts from the live document.
LEMMA ExecuteHolds ==
    ASSUME Inv, NEW s \in Stacks, NEW document \in Documents, NEW catalog \in Catalogs,
           Execute(s, document, catalog)
    PROVE  Inv'
<1>1. PICK content : content = documents[document].content
  OBVIOUS
<1>2. PICK command : command = [before |-> content, after |-> content]
  OBVIOUS
<1>3. content \in Contents
  BY <1>1 DEF Inv, Shape, States
<1>4. /\ command \in Entries /\ Source("execute", command) = documents[document].content
      /\ Refers(s, "execute", command)
  BY <1>1, <1>2, <1>3 DEF Entries, Source, Refers
<1>5. /\ ~busy[s] /\ pending[s] = None /\ BoundTo(s, document, catalog)
      /\ Enter(s, Frame(s, "execute", document, catalog, "apply", command))
  BY <1>1, <1>2 DEF Execute, MayStart
<1> QED
  BY <1>4, <1>5, Started DEF Kinds

\* Undo takes the last entry, which left the document as it is.
LEMMA UndoHolds ==
    ASSUME Inv, NEW s \in Stacks, NEW document \in Documents, NEW catalog \in Catalogs,
           NEW at \in {"restore", "apply"}, Undo(s, document, catalog, at)
    PROVE  Inv'
<1>1. PICK command : command = Last(undo[s])
  OBVIOUS
<1>2. /\ ~busy[s] /\ pending[s] = None /\ undo[s] # <<>> /\ BoundTo(s, document, catalog)
      /\ Enter(s, Frame(s, "undo", document, catalog, at, command))
  BY <1>1 DEF Undo, MayStart
<1>3. command \in Entries
  BY <1>1, <1>2, Fronted DEF Inv, Shape
<1>4. /\ binding[s] # None
      /\ binding[s].document = document
      /\ binding[s].revision = documents[document].revision
  BY <1>2 DEF Inv, Histories, HistoryOf, BoundTo, BoundToRevision, BoundToDocument
<1>5. Source("undo", command) = documents[document].content
  BY <1>1, <1>2, <1>4 DEF Inv, Histories, HistoryOf, Fits, Source
<1>6. Refers(s, "undo", command)
  BY <1>1, <1>2 DEF Refers
<1> QED
  BY <1>2, <1>3, <1>5, <1>6, Started DEF Kinds

\* Redo takes the last undone entry, which was applied to the present content.
LEMMA RedoHolds ==
    ASSUME Inv, NEW s \in Stacks, NEW document \in Documents, NEW catalog \in Catalogs,
           Redo(s, document, catalog)
    PROVE  Inv'
<1>1. PICK command : command = Last(redo[s])
  OBVIOUS
<1>2. /\ ~busy[s] /\ pending[s] = None /\ redo[s] # <<>> /\ BoundTo(s, document, catalog)
      /\ Enter(s, Frame(s, "redo", document, catalog, "apply", command))
  BY <1>1 DEF Redo, MayStart
<1>3. command \in Entries
  BY <1>1, <1>2, Fronted DEF Inv, Shape
<1>4. /\ binding[s] # None
      /\ binding[s].document = document
      /\ binding[s].revision = documents[document].revision
  BY <1>2 DEF Inv, Histories, HistoryOf, BoundTo, BoundToRevision, BoundToDocument
<1>5. Source("redo", command) = documents[document].content
  BY <1>1, <1>2, <1>4 DEF Inv, Histories, HistoryOf, Fits, Source
<1>6. Refers(s, "redo", command)
  BY <1>1, <1>2 DEF Refers
<1> QED
  BY <1>2, <1>3, <1>5, <1>6, Started DEF Kinds

\* Reauthorize takes up the pending operation with its own baseline.
LEMMA ReauthorizeHolds ==
    ASSUME Inv, NEW s \in Stacks, NEW id, NEW document \in Documents,
           Reauthorize(s, id, document)
    PROVE  Inv'
<1>1. PICK job : job = pending[s]
  OBVIOUS
<1>2. PICK frame : frame = [Frame(s, job.kind, document, job.catalog, "reauthorize", job.command)
                               EXCEPT !.baseline = job.baseline]
  OBVIOUS
<1>3. /\ ~busy[s] /\ job # None /\ job.document = document /\ Enter(s, frame)
  BY <1>1, <1>2 DEF Reauthorize, MayResume, MayResumeWhileBusy
<1>4. /\ job \in Pendings /\ JobOf(s, job)
  BY <1>1, <1>3 DEF Inv, Shape, Waiting
<1>5. /\ frame.stack = s /\ frame.kind = job.kind /\ frame.document = job.document
      /\ frame.catalog = job.catalog /\ frame.baseline = job.baseline
      /\ frame.command = job.command /\ frame.at = "reauthorize"
      /\ frame \in Frames
  <2>1. 0 \in 0..max_replacements
    BY CommandStackAssumption
  <2> QED
    BY <1>2, <1>3, <1>4, <2>1 DEF Frame, Frames, Pendings
<1>6. CallOf(frame)
  BY <1>1, <1>3, <1>4, <1>5 DEF CallOf, Matches, JobOf
<1> QED
  BY <1>3, <1>5, <1>6, Entered

\* The innermost call, as a value.
LEMMA TopCall ==
    ASSUME Inv, active # <<>>
    PROVE  Top \in Frames /\ CallOf(Top)
  BY CallsAreFrames DEF Inv, Calls

\* Applying a command does not change what it was made from.
LEMMA StagedHolds ==
    ASSUME Inv, NEW content \in Contents, Staged(content)
    PROVE  Inv'
<1>1. active # <<>>
  BY DEF Staged, At
<1>2. PICK call : call = Top
  OBVIOUS
<1>3. call \in Frames /\ CallOf(call) /\ call.at = "apply"
      /\ (call.kind # "execute" => content = call.command.after)
  BY <1>1, <1>2, TopCall DEF Staged, At
<1>4. PICK frame : frame = [call EXCEPT !.at = "authorize", !.command.after = content]
  OBVIOUS
<1>5. /\ frame.stack = call.stack /\ frame.kind = call.kind /\ frame.document = call.document
      /\ frame.catalog = call.catalog /\ frame.baseline = call.baseline
      /\ frame.command = [call.command EXCEPT !.after = content] /\ frame.at = "authorize"
      /\ frame \in Frames
  BY <1>3, <1>4 DEF Frames, Entries
<1>6. /\ frame.command.before = call.command.before
      /\ call.kind # "execute" => frame.command = call.command
  BY <1>3, <1>5 DEF Frames, Entries
<1>7. Source(frame.kind, frame.command) = frame.baseline.content
  BY <1>3, <1>5, <1>6 DEF CallOf, JobOf, Job, Source
<1>8. Refers(frame.stack, frame.kind, frame.command)
  BY <1>3, <1>5, <1>6 DEF CallOf, JobOf, Job, Refers
<1>9. CallOf(frame)
  BY <1>3, <1>5, <1>7, <1>8 DEF CallOf, Matches, JobOf, Job
<1>10. /\ Goes(frame)
       /\ UNCHANGED <<documents, undo, redo, pending, history_limit, next_deferred_id,
                      binding, busy, exclusive, issued>>
  BY <1>2, <1>4 DEF Staged
<1> QED
  BY <1>1, <1>2, <1>5, <1>9, <1>10, Moved

\* A replacement is only asked for within the limit, and only by Execute.
LEMMA ReplacedHolds ==
    ASSUME Inv, Replaced
    PROVE  Inv'
<1>1. active # <<>>
  BY DEF Replaced, At
<1>2. PICK call : call = Top
  OBVIOUS
<1>3. /\ call \in Frames /\ CallOf(call) /\ call.at = "authorize" /\ call.kind = "execute"
      /\ call.depth < max_replacements
  BY <1>1, <1>2, TopCall DEF Replaced, At
<1>4. PICK frame : frame = [call EXCEPT !.at = "replace"]
  OBVIOUS
<1>5. /\ frame.stack = call.stack /\ frame.kind = call.kind /\ frame.document = call.document
      /\ frame.catalog = call.catalog /\ frame.baseline = call.baseline
      /\ frame.command = call.command /\ frame.at = "replace" /\ frame.depth = call.depth
      /\ frame \in Frames
  BY <1>3, <1>4 DEF Frames
<1>6. CallOf(frame)
  BY <1>3, <1>5 DEF CallOf, Matches, JobOf
<1>7. /\ Goes(frame)
      /\ UNCHANGED <<documents, undo, redo, pending, history_limit, next_deferred_id,
                     binding, busy, exclusive, issued>>
  BY <1>2, <1>4 DEF Replaced
<1> QED
  BY <1>1, <1>2, <1>5, <1>6, <1>7, Moved

\* The replacement starts again from the live document.
LEMMA MakeCommandHolds ==
    ASSUME Inv, MakeCommand
    PROVE  Inv'
<1>1. active # <<>>
  BY DEF MakeCommand, At
<1>2. PICK call : call = Top
  OBVIOUS
<1>3. PICK content, baseline :
         content = documents[call.document].content /\ baseline = documents[call.document]
  OBVIOUS
<1>4. /\ call \in Frames /\ CallOf(call) /\ call.at = "replace"
      /\ baseline.revision = call.baseline.revision
  BY <1>1, <1>2, <1>3, TopCall DEF MakeCommand, At, RebindOwners
<1>5. /\ call.document \in Documents /\ baseline \in States /\ content \in Contents
      /\ content = baseline.content /\ baseline.revision \in Nat
  BY <1>3, <1>4, CommandStackAssumption DEF Frames, Inv, Shape, States
<1>6. PICK frame : frame = [call EXCEPT !.at = "apply", !.depth = @ + 1,
                                !.baseline = baseline,
                                !.command = [before |-> content, after |-> content]]
  OBVIOUS
<1>7. /\ frame.stack = call.stack /\ frame.kind = call.kind /\ frame.document = call.document
      /\ frame.catalog = call.catalog /\ frame.baseline = baseline
      /\ frame.command = [before |-> content, after |-> content] /\ frame.at = "apply"
      /\ frame \in Frames
  <2>1. call.depth + 1 \in 0..max_replacements
    BY <1>4, CommandStackAssumption DEF CallOf, Frames
  <2>2. [before |-> content, after |-> content] \in Entries
    BY <1>5 DEF Entries
  <2> QED
    BY <1>4, <1>5, <1>6, <2>1, <2>2 DEF Frames
<1>8. frame.kind = "execute"
  BY <1>4, <1>7 DEF CallOf
<1>9. JobOf(frame.stack, frame)
  <2>1. Source(frame.kind, frame.command) = frame.baseline.content
    BY <1>5, <1>7, <1>8 DEF Source
  <2>2. Refers(frame.stack, frame.kind, frame.command)
    BY <1>8 DEF Refers
  <2>3. binding[call.stack] # None =>
           binding[call.stack] = [document |-> call.document, catalog |-> call.catalog,
                                  revision |-> baseline.revision]
    BY <1>4 DEF CallOf, JobOf, Job
  <2> QED
    BY <1>3, <1>5, <1>7, <2>1, <2>2, <2>3 DEF JobOf, Job
<1>10. CallOf(frame)
  BY <1>4, <1>7, <1>9 DEF CallOf, Matches
<1>11. /\ Goes(frame)
       /\ UNCHANGED <<documents, undo, redo, pending, history_limit, next_deferred_id,
                      binding, busy, exclusive, issued>>
  BY <1>2, <1>3, <1>6 DEF MakeCommand
<1> QED
  BY <1>1, <1>2, <1>7, <1>10, <1>11, Moved

\* A call that fails leaves nothing behind but a pending operation it was to resume.
LEMMA FailHolds ==
    ASSUME Inv, Fail
    PROVE  Inv'
<1>1. /\ active # <<>> /\ Leave
      /\ UNCHANGED <<documents, undo, redo, pending, history_limit, next_deferred_id,
                     binding, exclusive, issued>>
  BY DEF Fail
<1>2. /\ Alone' /\ active' \in Seq(Frames) /\ busy' \in [Stacks -> BOOLEAN]
      /\ \A i \in DOMAIN active' : \E j \in DOMAIN active : active[j] = active'[i]
  BY <1>1, Left
<1>3. Shape'
  BY <1>1, <1>2 DEF Inv, Shape
<1>4. Histories' /\ Waiting'
  BY <1>1 DEF Inv, Histories, Waiting, HistoryOf, JobOf, Job, Refers
<1>5. ASSUME NEW i \in DOMAIN active' PROVE CallOf(active[i])'
  <2>1. PICK call : call = active'[i]
    OBVIOUS
  <2>2. CallOf(call)
    BY <1>2, <2>1 DEF Inv, Calls
  <2>3. CallOf(call)'
    BY <1>1, <2>2 DEF CallOf, Matches, JobOf, Job, Refers
  <2> QED
    BY <2>1, <2>3
<1> QED
  BY <1>2, <1>3, <1>4, <1>5 DEF Inv, Calls

\* A deferral hands the job of the call to the pending operation; if storing fails, to
\* nobody.
LEMMA DeferredHolds ==
    ASSUME Inv, NEW stored \in BOOLEAN, Deferred(stored)
    PROVE  Inv'
<1>1. /\ active # <<>> /\ Leave
      /\ UNCHANGED <<documents, undo, redo, history_limit, binding, exclusive>>
  BY DEF Deferred, At
<1>2. PICK call, id : call = Top /\ id = next_deferred_id[call.stack]
  OBVIOUS
<1>3. /\ call \in Frames /\ CallOf(call) /\ call.at = "authorize"
  BY <1>1, <1>2, TopCall DEF Deferred, At
<1>4. PICK job : job = [kind |-> call.kind, id |-> id, command |-> call.command,
                        document |-> call.document, catalog |-> call.catalog,
                        baseline |-> call.baseline, current |-> TRUE]
  OBVIOUS
<1>5. /\ id # 0
      /\ next_deferred_id' = [next_deferred_id EXCEPT ![call.stack] = AfterId(id)]
      /\ issued' = [issued EXCEPT ![call.stack] = @ \cup {id}]
      /\ pending' = IF ~stored THEN pending ELSE [pending EXCEPT ![call.stack] = job]
  BY <1>2, <1>4 DEF Deferred
<1>6. call.stack \in Stacks /\ id \in 1..LastDeferredId /\ AfterId(id) \in 0..LastDeferredId
  <2>1. call.stack \in Stacks /\ id \in 0..LastDeferredId
    BY <1>2, <1>3 DEF Frames, Inv, Shape
  <2>2. id \in 1..LastDeferredId
    BY <1>5, <2>1, CommandStackAssumption
  <2>3. \A n \in Nat : (n + 1) % (LastDeferredId + 1) \in 0..LastDeferredId
    BY CommandStackAssumption
  <2> QED
    BY <2>1, <2>2, <2>3 DEF AfterId
<1>7. /\ job \in Pendings /\ job.kind = call.kind /\ job.document = call.document
      /\ job.catalog = call.catalog /\ job.baseline = call.baseline
      /\ job.command = call.command
  BY <1>3, <1>4, <1>6 DEF Frames, Pendings
<1>8. /\ pending' \in [Stacks -> Pendings \cup {None}]
      /\ pending'[call.stack] = job \/ pending'[call.stack] = None
      /\ \A t \in Stacks \ {call.stack} : pending'[t] = pending[t]
  <2>1. pending[call.stack] = None
    BY <1>3 DEF CallOf, Matches
  <2>2. CASE stored
    <3>1. pending' = [pending EXCEPT ![call.stack] = job]
      BY <1>5, <2>2
    <3> QED
      BY <1>6, <1>7, <3>1 DEF Inv, Shape
  <2>3. CASE ~stored
    BY <1>5, <1>6, <2>1, <2>3 DEF Inv, Shape
  <2> QED
    BY <2>2, <2>3
<1>9. /\ Alone' /\ active' \in Seq(Frames) /\ busy' \in [Stacks -> BOOLEAN]
      /\ \A i \in DOMAIN active' :
            active'[i].stack # call.stack /\ \E j \in DOMAIN active : active[j] = active'[i]
  BY <1>1, <1>2, Left
<1>10. Shape'
  <2>1. /\ next_deferred_id' \in [Stacks -> 0..LastDeferredId]
        /\ issued' \in [Stacks -> SUBSET (1..LastDeferredId)]
    BY <1>5, <1>6 DEF Inv, Shape
  <2> QED
    BY <1>1, <1>8, <1>9, <2>1 DEF Inv, Shape
<1>11. Advances
  BY <1>1, CommandStackAssumption DEF Advances, Inv, Shape, States
<1>12. HistoryOf(call.stack)'
  BY <1>1, <1>6 DEF Inv, Histories, HistoryOf
<1>13. JobOf(call.stack, job)'
  BY <1>1, <1>3, <1>7 DEF CallOf, JobOf, Job, Refers
<1>14. (pending[call.stack] # None => JobOf(call.stack, pending[call.stack]))'
  <2> SUFFICES ASSUME pending'[call.stack] # None
               PROVE  JobOf(call.stack, pending[call.stack])'
    OBVIOUS
  <2>1. pending'[call.stack] = job
    BY <1>8
  <2> QED
    BY <1>13, <2>1
<1>15. Histories' /\ Calls' /\ Waiting'
  <2>1. PICK T \in SUBSET Stacks : T = {call.stack}
    BY <1>6
  <2>2. \A t \in Stacks \ T :
           /\ undo'[t] = undo[t] /\ redo'[t] = redo[t] /\ binding'[t] = binding[t]
           /\ pending'[t] = pending[t] /\ history_limit'[t] = history_limit[t]
    BY <1>1, <1>8, <2>1
  <2>3. \A i \in DOMAIN active' : active'[i].stack \notin T =>
           \E j \in DOMAIN active : active[j] = active'[i]
    BY <1>9
  <2>4. /\ \A t \in T : HistoryOf(t)'
        /\ \A t \in T : (pending[t] # None => JobOf(t, pending[t]))'
        /\ (\A i \in DOMAIN active : active[i].stack \in T => CallOf(active[i]))'
    BY <1>9, <1>12, <1>14, <2>1
  <2> QED
    BY <1>10, <1>11, <2>2, <2>3, <2>4, OthersStay
<1> QED
  BY <1>9, <1>10, <1>15 DEF Inv

\* RestoreHistory commits after Revert.
LEMMA RestoredHolds ==
    ASSUME Inv, Restored
    PROVE  Inv'
<1>1. active # <<>> /\ Leave
  BY DEF Restored, At
<1>2. PICK call : call = Top
  OBVIOUS
<1>3. call \in Frames /\ call.kind = "undo" /\ pending[call.stack] = None
  BY <1>1, <1>2, TopCall DEF Restored, At, CallOf, Matches
<1>4. /\ Commit(call.stack, call.kind, call.document, call.catalog, call.baseline,
                call.command, FALSE)
      /\ UNCHANGED <<history_limit, next_deferred_id, exclusive, issued>>
  BY <1>2, <1>3 DEF Restored
<1>5. pending' = [pending EXCEPT ![call.stack] = None]
  BY <1>3 DEF Restored, Inv, Shape
<1> QED
  BY <1>1, <1>2, <1>3, <1>4, <1>5, CallCommits

\* An allowed call commits.
LEMMA AllowedHolds ==
    ASSUME Inv, NEW merges \in BOOLEAN, Allowed(merges)
    PROVE  Inv'
<1>1. active # <<>> /\ Leave
  BY DEF Allowed, At
<1>2. PICK call : call = Top
  OBVIOUS
<1>3. call \in Frames /\ pending[call.stack] = None
  BY <1>1, <1>2, TopCall DEF Allowed, At, CallOf, Matches
<1>4. /\ Commit(call.stack, call.kind, call.document, call.catalog, call.baseline,
                call.command, merges)
      /\ UNCHANGED <<history_limit, next_deferred_id, exclusive, issued>>
  BY <1>2 DEF Allowed
<1>5. pending' = [pending EXCEPT ![call.stack] = None]
  BY <1>3 DEF Allowed, Inv, Shape
<1> QED
  BY <1>1, <1>2, <1>3, <1>4, <1>5, CallCommits

\* A pending operation that is allowed now commits inside its call.
LEMMA ReauthorizedHolds ==
    ASSUME Inv, NEW merges \in BOOLEAN, Reauthorized(merges)
    PROVE  Inv'
<1>1. active # <<>> /\ Leave
  BY DEF Reauthorized, At
<1>2. PICK call : call = Top
  OBVIOUS
<1>3. /\ call \in Frames
      /\ pending[call.stack].kind = call.kind
      /\ pending[call.stack].command = call.command
      /\ pending[call.stack].document = call.document
      /\ pending[call.stack].catalog = call.catalog
      /\ pending[call.stack].baseline = call.baseline
  BY <1>1, <1>2, TopCall DEF Reauthorized, At, CallOf, Matches
<1>4. /\ Commit(call.stack, call.kind, call.document, call.catalog, call.baseline,
                call.command, merges)
      /\ UNCHANGED <<history_limit, next_deferred_id, exclusive, issued>>
      /\ pending' = [pending EXCEPT ![call.stack] = None]
  BY <1>2, <1>3 DEF Reauthorized, CommitPending
<1> QED
  BY <1>1, <1>2, <1>3, <1>4, CallCommits

\* CommitPrepared commits it without a call.
LEMMA ResumeHolds ==
    ASSUME Inv, NEW s \in Stacks, NEW id, NEW document \in Documents, NEW merges \in BOOLEAN,
           Resume(s, id, document, merges)
    PROVE  Inv'
<1>1. PICK job : job = pending[s]
  OBVIOUS
<1>2. ~busy[s] /\ job # None
  BY <1>1 DEF Resume, MayResume, MayResumeWhileBusy
<1>3. job \in Pendings /\ JobOf(s, job)
  BY <1>1, <1>2 DEF Inv, Shape, Waiting
<1>4. /\ Commit(s, job.kind, job.document, job.catalog, job.baseline, job.command, merges)
      /\ UNCHANGED <<history_limit, next_deferred_id, exclusive, issued>>
      /\ UNCHANGED <<busy, active>>
      /\ pending' = [pending EXCEPT ![s] = None]
  BY <1>1 DEF Resume, CommitPending
<1> QED
  BY <1>2, <1>3, <1>4, PendingCommits

\* Cancel drops a job.
LEMMA CancelHolds ==
    ASSUME Inv, NEW s \in Stacks, NEW id, Cancel(s, id)
    PROVE  Inv'
<1>1. /\ ~busy[s] /\ pending' = [pending EXCEPT ![s] = None]
      /\ UNCHANGED <<documents, undo, redo, history_limit, next_deferred_id, binding, busy,
                     exclusive, active, issued>>
  BY DEF Cancel
<1>2. Shape' /\ Alone' /\ Histories'
  BY <1>1 DEF Inv, Shape, Alone, Histories, HistoryOf
<1>3. /\ pending'[s] = None
      /\ \A t \in Stacks \ {s} : pending'[t] = pending[t]
  BY <1>1 DEF Inv, Shape
<1>4. Waiting'
  BY <1>1, <1>3 DEF Inv, Waiting, JobOf, Job, Refers
<1>5. ASSUME NEW i \in DOMAIN active' PROVE CallOf(active[i])'
  <2>1. PICK call : call = active[i]
    OBVIOUS
  <2>2. CallOf(call) /\ call.stack \in Stacks \ {s} /\ active'[i] = call
    BY <1>1, <2>1, CallsAreFrames DEF Inv, Calls, Alone
  <2>3. CallOf(call)'
    BY <1>1, <1>3, <2>2 DEF CallOf, Matches, JobOf, Job, Refers
  <2> QED
    BY <2>2, <2>3
<1> QED
  BY <1>2, <1>4, <1>5 DEF Inv, Calls

\* The history of one idle stack becomes u and r.
LEMMA Rewritten ==
    ASSUME Inv, NEW s \in Stacks, MayChange(s), NEW limit \in Limits,
           NEW u \in Seq(Entries), NEW r \in Seq(Entries), NEW b \in Bindings \cup {None},
           undo' = [undo EXCEPT ![s] = u], redo' = [redo EXCEPT ![s] = r],
           binding' = [binding EXCEPT ![s] = b],
           history_limit' = [history_limit EXCEPT ![s] = limit],
           UNCHANGED <<documents, pending, next_deferred_id, busy, exclusive, active, issued>>,
           Joins(u, r), b = None <=> u = <<>> /\ r = <<>>,
           limit = 0 => u = <<>> /\ r = <<>>,
           b # None => /\ b = binding[s]
                       /\ u # <<>> => undo[s] # <<>> /\ Last(u) = Last(undo[s])
                       /\ r # <<>> => redo[s] # <<>> /\ Last(r) = Last(redo[s])
    PROVE  Inv'
<1>1. /\ undo'[s] = u /\ redo'[s] = r /\ binding'[s] = b /\ history_limit'[s] = limit
      /\ \A t \in Stacks \ {s} :
            /\ undo'[t] = undo[t] /\ redo'[t] = redo[t] /\ binding'[t] = binding[t]
            /\ pending'[t] = pending[t] /\ history_limit'[t] = history_limit[t]
  BY DEF Inv, Shape
<1>2. Shape' /\ Alone'
  BY DEF Inv, Shape, Alone
<1>3. HistoryOf(s)'
  <2>1. CASE b = None
    BY <1>1, <2>1 DEF HistoryOf
  <2>2. CASE b # None
    <3>1. HistoryOf(s)
      BY DEF Inv, Histories
    <3>2. LET document == documents[b.document]
          IN  /\ b.revision <= document.revision
              /\ b.revision = document.revision =>
                     Fits(undo[s], redo[s], document.content)
      BY <2>2, <3>1 DEF HistoryOf
    <3>3. b.revision = documents[b.document].revision =>
              Fits(u, r, documents[b.document].content)
      BY <2>2, <3>2 DEF Fits
    <3> QED
      BY <1>1, <2>2, <3>2, <3>3 DEF HistoryOf
  <2> QED
    BY <2>1, <2>2
<1>4. Advances
  BY CommandStackAssumption DEF Advances, Inv, Shape, States
<1>5. /\ pending'[s] = None
      /\ \A i \in DOMAIN active : active[i].stack # s
  BY DEF MayChange, Inv, Alone
<1>6. Histories' /\ Calls' /\ Waiting'
  <2>1. PICK T \in SUBSET Stacks : T = {s}
    OBVIOUS
  <2>2. \A t \in Stacks \ T :
           /\ undo'[t] = undo[t] /\ redo'[t] = redo[t] /\ binding'[t] = binding[t]
           /\ pending'[t] = pending[t] /\ history_limit'[t] = history_limit[t]
    BY <1>1, <2>1
  <2>3. \A i \in DOMAIN active' : active'[i].stack \notin T =>
           \E j \in DOMAIN active : active[j] = active'[i]
    OBVIOUS
  <2>4. /\ \A t \in T : HistoryOf(t)'
        /\ \A t \in T : (pending[t] # None => JobOf(t, pending[t]))'
        /\ (\A i \in DOMAIN active : active[i].stack \in T => CallOf(active[i]))'
    BY <1>3, <1>5, <2>1
  <2> QED
    BY <1>2, <1>4, <2>2, <2>3, <2>4, OthersStay
<1> QED
  BY <1>2, <1>6 DEF Inv

\* Clear leaves an unbound stack without history.
LEMMA ClearHolds ==
    ASSUME Inv, NEW s \in Stacks, Clear(s)
    PROVE  Inv'
<1>1. /\ <<>> \in Seq(Entries)
      /\ Joins(<<>>, <<>>)
      /\ history_limit[s] \in Limits
      /\ history_limit = [history_limit EXCEPT ![s] = history_limit[s]]
  BY DEF Joins, Inv, Shape
<1>2. PICK limit \in Limits : limit = history_limit[s]
  BY <1>1
<1>3. /\ MayChange(s)
      /\ undo' = [undo EXCEPT ![s] = <<>>] /\ redo' = [redo EXCEPT ![s] = <<>>]
      /\ binding' = [binding EXCEPT ![s] = None]
      /\ history_limit' = [history_limit EXCEPT ![s] = limit]
      /\ UNCHANGED <<documents, pending, next_deferred_id, busy, exclusive, active, issued>>
  BY <1>1, <1>2 DEF Clear, Unbound
<1> QED
  BY <1>1, <1>3, Rewritten

\* A lower limit cuts the far ends, and unbinds a stack it leaves without history.
LEMMA SetHistoryLimitHolds ==
    ASSUME Inv, NEW s \in Stacks, NEW limit \in Limits, SetHistoryLimit(s, limit)
    PROVE  Inv'
<1>1. PICK u, r : u = LastOf(undo[s], limit) /\ r = LastOf(redo[s], limit)
  OBVIOUS
<1>2. PICK b : b = IF u = <<>> /\ r = <<>> THEN None ELSE binding[s]
  OBVIOUS
<1>3. /\ undo[s] \in Seq(Entries) /\ redo[s] \in Seq(Entries) /\ limit \in Nat
      /\ binding[s] \in Bindings \cup {None} /\ HistoryOf(s)
  BY CommandStackAssumption DEF Inv, Shape, Histories
<1>4. /\ u \in Seq(Entries)
      /\ u = <<>> <=> undo[s] = <<>> \/ limit = 0
      /\ u # <<>> => Last(u) = Last(undo[s])
  BY <1>1, <1>3, Trimmed
<1>5. /\ r \in Seq(Entries)
      /\ r = <<>> <=> redo[s] = <<>> \/ limit = 0
      /\ r # <<>> => Last(r) = Last(redo[s])
  BY <1>1, <1>3, Trimmed
<1>6. Joins(u, r)
  BY <1>1, <1>3, JoinsTrim DEF HistoryOf
<1>7. /\ MayChange(s)
      /\ undo' = [undo EXCEPT ![s] = u] /\ redo' = [redo EXCEPT ![s] = r]
      /\ history_limit' = [history_limit EXCEPT ![s] = limit]
      /\ UNCHANGED <<documents, pending, next_deferred_id, busy, exclusive, active, issued>>
  BY <1>1 DEF SetHistoryLimit
<1>8. binding' = [binding EXCEPT ![s] = b]
  <2>1. undo'[s] = u /\ redo'[s] = r
    BY <1>7 DEF Inv, Shape
  <2>2. binding' = IF u = <<>> /\ r = <<>> THEN [binding EXCEPT ![s] = None] ELSE binding
    BY <2>1 DEF SetHistoryLimit, Unbound
  <2> QED
    BY <1>2, <2>2 DEF Inv, Shape
<1>9. /\ b \in Bindings \cup {None}
      /\ b = None <=> u = <<>> /\ r = <<>>
      /\ b # None => b = binding[s]
  BY <1>2, <1>3, <1>4, <1>5 DEF HistoryOf
<1>10. b # None => /\ u # <<>> => undo[s] # <<>> /\ Last(u) = Last(undo[s])
                   /\ r # <<>> => redo[s] # <<>> /\ Last(r) = Last(redo[s])
  BY <1>4, <1>5
<1>11. limit = 0 => u = <<>> /\ r = <<>>
  BY <1>4, <1>5
<1> QED
  BY <1>4, <1>5, <1>6, <1>7, <1>8, <1>9, <1>10, <1>11, Rewritten

\* An exclusive operation takes the place of a call.
LEMMA ExclusiveHolds ==
    ASSUME Inv, NEW s \in Stacks, BeginExclusiveOperation(s) \/ EndExclusiveOperation(s)
    PROVE  Inv'
<1>1. UNCHANGED <<documents, undo, redo, pending, history_limit, next_deferred_id, binding,
                  active, issued>>
  BY DEF BeginExclusiveOperation, EndExclusiveOperation
<1>2. \A i \in DOMAIN active : active[i].stack # s
  BY DEF BeginExclusiveOperation, EndExclusiveOperation, MayStart, Inv, Alone
<1>3. PICK on \in BOOLEAN : busy' = [busy EXCEPT ![s] = on] /\ exclusive' = [exclusive EXCEPT ![s] = on]
  BY DEF BeginExclusiveOperation, EndExclusiveOperation
<1>4. Shape'
  BY <1>1, <1>3 DEF Inv, Shape
<1>5. Alone'
  <2>1. \A t \in Stacks :
           /\ busy'[t] = IF t = s THEN on ELSE busy[t]
           /\ exclusive'[t] = IF t = s THEN on ELSE exclusive[t]
    BY <1>3 DEF Inv, Shape
  <2> QED
    BY <1>1, <1>2, <2>1, CallsAreFrames DEF Inv, Alone
<1>6. Histories' /\ Waiting'
  BY <1>1 DEF Inv, Histories, Waiting, HistoryOf, JobOf, Job, Refers
<1>7. Calls'
  BY <1>1 DEF Inv, Calls, CallOf, Matches, JobOf, Job, Refers
<1> QED
  BY <1>4, <1>5, <1>6, <1>7 DEF Inv

\* Reserving an identifier changes neither content nor revision.
LEMMA AllocateIdHolds ==
    ASSUME Inv, NEW document \in Documents, AllocateId(document)
    PROVE  Inv'
<1>1. /\ documents' = [documents EXCEPT ![document].epoch = @ + 1]
      /\ documents[document].epoch < LastEpoch
      /\ UNCHANGED <<undo, redo, pending, history_limit, next_deferred_id, binding, busy,
                     exclusive, active, issued>>
  BY DEF AllocateId
<1>2. \A d \in Documents :
         /\ documents'[d].content = documents[d].content
         /\ documents'[d].revision = documents[d].revision
         /\ documents'[d].epoch = IF d = document THEN documents[d].epoch + 1
                                  ELSE documents[d].epoch
         /\ documents'[d] \in States
  <2> SUFFICES ASSUME NEW d \in Documents
               PROVE  /\ documents'[d].content = documents[d].content
                      /\ documents'[d].revision = documents[d].revision
                      /\ documents'[d].epoch = IF d = document THEN documents[d].epoch + 1
                                               ELSE documents[d].epoch
                      /\ documents'[d] \in States
    OBVIOUS
  <2>1. documents[d] \in States
    BY DEF Inv, Shape
  <2>2. CASE d # document
    BY <1>1, <2>1, <2>2 DEF Inv, Shape
  <2>3. CASE d = document
    <3>1. documents'[d] = [documents[d] EXCEPT !.epoch = @ + 1]
      BY <1>1, <2>3 DEF Inv, Shape
    <3>2. documents[d].epoch + 1 \in 0..LastEpoch
      BY <1>1, <2>1, <2>3, CommandStackAssumption DEF States
    <3> QED
      BY <2>1, <2>3, <3>1, <3>2 DEF States
  <2> QED
    BY <2>2, <2>3
<1>3. documents' \in [Documents -> States]
  <2>1. documents' = [d \in Documents |-> documents'[d]]
    BY <1>1 DEF Inv, Shape
  <2> QED
    BY <1>2, <2>1
<1>4. Shape' /\ Alone'
  BY <1>1, <1>3 DEF Inv, Shape, Alone
<1>5. Advances
  BY <1>2, CommandStackAssumption DEF Advances, Inv, Shape, States
<1>6. Histories' /\ Calls' /\ Waiting'
  <2>1. PICK T \in SUBSET Stacks : T = {}
    OBVIOUS
  <2>2. \A t \in Stacks \ T :
           /\ undo'[t] = undo[t] /\ redo'[t] = redo[t] /\ binding'[t] = binding[t]
           /\ pending'[t] = pending[t] /\ history_limit'[t] = history_limit[t]
    BY <1>1
  <2>3. \A i \in DOMAIN active' : active'[i].stack \notin T =>
           \E j \in DOMAIN active : active[j] = active'[i]
    BY <1>1
  <2>4. /\ \A t \in T : HistoryOf(t)'
        /\ \A t \in T : (pending[t] # None => JobOf(t, pending[t]))'
        /\ (\A i \in DOMAIN active : active[i].stack \in T => CallOf(active[i]))'
    BY <2>1
  <2> QED
    BY <1>4, <1>5, <2>2, <2>3, <2>4, OthersStay
<1> QED
  BY <1>4, <1>6 DEF Inv

\* A registry update only marks pending operations.
LEMMA UpdateRegistryHolds ==
    ASSUME Inv, NEW catalog \in Catalogs, UpdateRegistry(catalog)
    PROVE  Inv'
<1>1. PICK s \in Stacks :
         /\ pending[s] # None
         /\ pending' = [pending EXCEPT ![s].current = FALSE]
  BY DEF UpdateRegistry
<1>2. UNCHANGED <<documents, undo, redo, history_limit, next_deferred_id, binding, busy,
                  exclusive, active, issued>>
  BY DEF UpdateRegistry
<1>3. pending[s] \in Pendings
  BY <1>1 DEF Inv, Shape
<1>4. /\ pending'[s] = [pending[s] EXCEPT !.current = FALSE]
      /\ \A t \in Stacks \ {s} : pending'[t] = pending[t]
      /\ pending' = [t \in Stacks |-> pending'[t]]
  BY <1>1 DEF Inv, Shape
<1>5. /\ pending'[s] \in Pendings /\ pending'[s] # None
      /\ pending'[s].kind = pending[s].kind /\ pending'[s].command = pending[s].command
      /\ pending'[s].document = pending[s].document
      /\ pending'[s].catalog = pending[s].catalog
      /\ pending'[s].baseline = pending[s].baseline
  <2>1. pending'[s] \in Pendings
    BY <1>3, <1>4 DEF Pendings
  <2> QED
    BY <1>3, <1>4, <2>1, NoneAssumption DEF Pendings
<1>6. Shape' /\ Alone' /\ Histories'
  <2>1. pending' \in [Stacks -> Pendings \cup {None}]
    BY <1>4, <1>5 DEF Inv, Shape
  <2> QED
    BY <1>2, <2>1 DEF Inv, Shape, Alone, Histories, HistoryOf
<1>7. Waiting'
  BY <1>1, <1>2, <1>4, <1>5 DEF Inv, Waiting, JobOf, Job, Refers
<1>8. ASSUME NEW i \in DOMAIN active' PROVE CallOf(active[i])'
  <2>1. PICK call : call = active[i]
    OBVIOUS
  <2>2. CallOf(call) /\ call.stack \in Stacks /\ active'[i] = call
    BY <1>2, <2>1, CallsAreFrames DEF Inv, Calls
  <2>3. Matches(call)'
    BY <1>1, <1>4, <1>5, <2>2 DEF CallOf, Matches
  <2>4. CallOf(call)'
    BY <1>2, <2>2, <2>3 DEF CallOf, JobOf, Job, Refers
  <2> QED
    BY <2>2, <2>4
<1> QED
  BY <1>6, <1>7, <1>8 DEF Inv, Calls

\* The stacks start without history, calls and operations.
LEMMA InitHolds == Init => Inv
<1> SUFFICES ASSUME Init PROVE Inv
  OBVIOUS
<1>1. Shape
  <2>1. documents \in [Documents -> States]
    BY CommandStackAssumption DEF Init, States
  <2>2. undo \in [Stacks -> Seq(Entries)] /\ redo \in [Stacks -> Seq(Entries)] /\ active \in Seq(Frames)
    BY DEF Init
  <2>3. next_deferred_id \in [Stacks -> 0..LastDeferredId]
    BY CommandStackAssumption DEF Init
  <2> QED
    BY <2>1, <2>2, <2>3 DEF Init, Shape
<1>2. ASSUME NEW s \in Stacks PROVE HistoryOf(s)
  BY DEF Init, HistoryOf, Joins
<1>3. Calls /\ Waiting /\ Alone
  BY DEF Init, Calls, Waiting, Alone
<1> QED
  BY <1>1, <1>2, <1>3 DEF Inv, Histories

\* Every action keeps every history and every call in order.
LEMMA StepHolds == Inv /\ [Next]_vars => Inv'
<1> SUFFICES ASSUME Inv, [Next]_vars PROVE Inv'
  OBVIOUS
<1>1. CASE UNCHANGED vars
  <2>1. Shape' /\ Alone'
    BY <1>1 DEF vars, Inv, Shape, Alone
  <2>2. Histories'
    BY <1>1 DEF vars, Inv, Histories, HistoryOf
  <2>3. Calls'
    BY <1>1 DEF vars, Inv, Calls, CallOf, Matches, JobOf, Job, Refers
  <2>4. Waiting'
    BY <1>1 DEF vars, Inv, Waiting, JobOf, Job, Refers
  <2> QED
    BY <2>1, <2>2, <2>3, <2>4 DEF Inv
<1>2. ASSUME NEW s \in Stacks, NEW document \in Documents, NEW catalog \in Catalogs,
             Execute(s, document, catalog)
      PROVE  Inv'
  BY <1>2, ExecuteHolds
<1>3. ASSUME NEW s \in Stacks, NEW document \in Documents, NEW catalog \in Catalogs,
             NEW at \in {"restore", "apply"}, Undo(s, document, catalog, at)
      PROVE  Inv'
  BY <1>3, UndoHolds
<1>4. ASSUME NEW s \in Stacks, NEW document \in Documents, NEW catalog \in Catalogs,
             Redo(s, document, catalog)
      PROVE  Inv'
  BY <1>4, RedoHolds
<1>5. CASE Fail
  BY <1>5, FailHolds
<1>6. ASSUME NEW content \in Contents, Staged(content) PROVE Inv'
  BY <1>6, StagedHolds
<1>7. CASE Restored
  BY <1>7, RestoredHolds
<1>8. CASE Replaced
  BY <1>8, ReplacedHolds
<1>9. CASE MakeCommand
  BY <1>9, MakeCommandHolds
<1>10. ASSUME NEW stored \in BOOLEAN, Deferred(stored) PROVE Inv'
  BY <1>10, DeferredHolds
<1>11. ASSUME NEW merges \in BOOLEAN, Allowed(merges) PROVE Inv'
  BY <1>11, AllowedHolds
<1>12. ASSUME NEW merges \in BOOLEAN, Reauthorized(merges) PROVE Inv'
  BY <1>12, ReauthorizedHolds
<1>13. ASSUME NEW s \in Stacks, NEW id \in 1..LastDeferredId, NEW document \in Documents,
              NEW merges \in BOOLEAN, Resume(s, id, document, merges)
       PROVE  Inv'
  BY <1>13, ResumeHolds
<1>14. ASSUME NEW s \in Stacks, NEW id \in 1..LastDeferredId, NEW document \in Documents,
              Reauthorize(s, id, document)
       PROVE  Inv'
  BY <1>14, ReauthorizeHolds
<1>15. ASSUME NEW s \in Stacks, NEW id \in 1..LastDeferredId, Cancel(s, id) PROVE Inv'
  BY <1>15, CancelHolds
<1>16. ASSUME NEW s \in Stacks, Clear(s) PROVE Inv'
  BY <1>16, ClearHolds
<1>17. ASSUME NEW s \in Stacks, NEW limit \in Limits, SetHistoryLimit(s, limit) PROVE Inv'
  BY <1>17, SetHistoryLimitHolds
<1>18. ASSUME NEW s \in Stacks, BeginExclusiveOperation(s) \/ EndExclusiveOperation(s)
       PROVE  Inv'
  BY <1>18, ExclusiveHolds
<1>19. ASSUME NEW document \in Documents, AllocateId(document) PROVE Inv'
  BY <1>19, AllocateIdHolds
<1>20. ASSUME NEW catalog \in Catalogs, UpdateRegistry(catalog) PROVE Inv'
  BY <1>20, UpdateRegistryHolds
<1> QED
  BY <1>1, <1>2, <1>3, <1>4, <1>5, <1>6, <1>7, <1>8, <1>9, <1>10, <1>11, <1>12, <1>13,
     <1>14, <1>15, <1>16, <1>17, <1>18, <1>19, <1>20 DEF Next

\* The invariant that the properties below follow from.
THEOREM StacksStayInOrder == Spec => []Inv
  BY InitHolds, StepHolds, PTL DEF Spec

-----------------------------------------------------------------------------
(* The properties                                                          *)

\* Alone is NoReentry.
LEMMA InvAlone == Inv => NoReentry
<1> SUFFICES ASSUME Inv, NEW s \in Stacks
             PROVE  LET calls == {i \in DOMAIN active : active[i].stack = s}
                    IN  /\ \A i, j \in calls : i = j
                        /\ busy[s] = (calls # {} \/ exclusive[s])
                        /\ exclusive[s] => calls = {}
  BY DEF NoReentry
<1> DEFINE calls == {i \in DOMAIN active : active[i].stack = s}
<1>1. \A i, j \in calls : i = j
  BY DEF Inv, Alone
<1>2. busy[s] => calls # {} \/ exclusive[s]
  BY DEF Inv, Alone
<1>3. calls # {} => busy[s] /\ ~exclusive[s]
  BY DEF Inv, Alone
<1>4. busy[s] \in BOOLEAN /\ exclusive[s] \in BOOLEAN /\ (exclusive[s] => busy[s])
  BY DEF Inv, Shape, Alone
<1> QED
  BY <1>1, <1>2, <1>3, <1>4

\* Variables keep their types, and no stack runs two calls at once: busy says
\* exactly when it runs one, however deep the callbacks are nested.
THEOREM TypesAndBusyFlags == Spec => []TypeOK
<1>1. Inv => TypeOK
  BY InvAlone, CallsAreFrames DEF Inv, Shape, TypeOK
<1> QED
  BY <1>1, StacksStayInOrder, PTL

\* The command that Undo, Redo or Resume holds on to across callbacks is still
\* the last of its history.
THEOREM CommandNeverDangles == Spec => []CommandStaysLast
<1>1. Inv => CommandStaysLast
  BY DEF Inv, Calls, CallOf, Waiting, JobOf, Job, CommandStaysLast
<1> QED
  BY <1>1, StacksStayInOrder, PTL

\* Path without the stack.
PathOf(u, r) ==
    [i \in 1..Len(u) + Len(r) |->
        IF i <= Len(u) THEN u[i] ELSE r[Len(u) + Len(r) - i + 1]]

\* A joined history is a path.
LEMMA PathIsJoined ==
    ASSUME NEW u \in Seq(Entries), NEW r \in Seq(Entries), Joins(u, r),
           NEW i \in DOMAIN PathOf(u, r), i > 1
    PROVE  PathOf(u, r)[i].before = PathOf(u, r)[i - 1].after
<1> DEFINE n == Len(u)
           m == Len(r)
<1>1. n \in Nat /\ m \in Nat
  BY LenProperties
<1>2. /\ i \in 1..n + m /\ i - 1 \in 1..n + m
      /\ PathOf(u, r)[i] = IF i <= n THEN u[i] ELSE r[n + m - i + 1]
      /\ PathOf(u, r)[i - 1] = IF i - 1 <= n THEN u[i - 1] ELSE r[n + m - (i - 1) + 1]
  BY <1>1, SMTT(60) DEF PathOf
<1>3. CASE i <= n
  <2>1. i - 1 \in 1..n - 1 /\ i - 1 + 1 = i /\ i - 1 <= n
    BY <1>1, <1>2, <1>3
  <2>2. u[i - 1].after = u[i - 1 + 1].before
    BY <2>1 DEF Joins
  <2> QED
    BY <1>2, <1>3, <2>1, <2>2
<1>4. CASE i = n + 1
  <2>1. /\ n \in 1..n /\ m \in 1..m /\ n + m - i + 1 = m /\ i - 1 = n
        /\ ~(i <= n) /\ i - 1 <= n
    BY <1>1, <1>2, <1>4
  <2>2. u # <<>> /\ r # <<>>
    BY <2>1, EmptySeq
  <2>3. u[n].after = r[m].before
    BY <2>2 DEF Joins, Last
  <2> QED
    BY <1>2, <2>1, <2>3
<1>5. CASE i > n + 1
  <2> DEFINE k == n + m - i + 1
  <2>1. k \in 1..m - 1 /\ n + m - (i - 1) + 1 = k + 1 /\ ~(i <= n) /\ ~(i - 1 <= n)
    BY <1>1, <1>2, <1>5
  <2>2. r[k].before = r[k + 1].after
    BY <2>1 DEF Joins
  <2> QED
    BY <1>2, <2>1, <2>2
<1> QED
  BY <1>1, <1>2, <1>3, <1>4, <1>5

\* A stack that passes ValidateBinding is at the revision of its document.
LEMMA InvFits == Inv => HistoryFitsDocument
<1> SUFFICES ASSUME Inv PROVE HistoryFitsDocument
  OBVIOUS
<1>1. HistoryIsAPath
  <2> SUFFICES ASSUME NEW s \in Stacks, NEW i \in DOMAIN Path(s), i > 1
               PROVE  Path(s)[i].before = Path(s)[i - 1].after
    BY DEF HistoryIsAPath
  <2>1. PICK u, r : u = undo[s] /\ r = redo[s]
    OBVIOUS
  <2>2. u \in Seq(Entries) /\ r \in Seq(Entries) /\ Joins(u, r) /\ Path(s) = PathOf(u, r)
    BY <2>1 DEF Inv, Shape, Histories, HistoryOf, Path, PathOf
  <2> QED
    BY <2>2, PathIsJoined
<1>2. BoundExactlyWithHistory
  <2> SUFFICES ASSUME NEW s \in Stacks
               PROVE  binding[s] # None <=> undo[s] \o redo[s] # <<>>
    BY DEF BoundExactlyWithHistory
  <2>1. undo[s] \o redo[s] = <<>> <=> undo[s] = <<>> /\ redo[s] = <<>>
    BY ConcatEqualIffEmpty DEF Inv, Shape
  <2> QED
    BY <2>1 DEF Inv, Histories, HistoryOf
<1>3. ASSUME NEW s \in Stacks, binding[s] # None,
             BoundTo(s, binding[s].document, binding[s].catalog)
      PROVE  LET content == documents[binding[s].document].content
             IN  /\ undo[s] # <<>> => Last(undo[s]).after = content
                 /\ redo[s] # <<>> => Last(redo[s]).before = content
  BY <1>3 DEF BoundTo, BoundToRevision, Inv, Histories, HistoryOf, Fits
<1> QED
  BY <1>1, <1>2, <1>3 DEF HistoryFitsDocument

\* The history is a path of states, and fits the document whenever the stack
\* would accept an Undo or a Redo.
THEOREM HistoryReplaysWhatWasSeen == Spec => []HistoryFitsDocument
  BY InvFits, StacksStayInOrder, PTL

\* Commits are the only steps that change content, and they change it from what
\* the command was staged from.
LEMMA StepLosesNothing == Inv /\ [Next]_vars => [UpdateIsNotLost]_vars
<1> SUFFICES ASSUME Inv, Next PROVE UpdateIsNotLost
  OBVIOUS
<1>1. ASSUME NEW call \in Frames, active # <<>>, call = Top, active' = Front(active),
             NEW merges \in BOOLEAN, UNCHANGED history_limit,
             Commit(call.stack, call.kind, call.document, call.catalog, call.baseline,
                    call.command, merges)
      PROVE  UpdateIsNotLost
  <2>1. /\ call.stack \in Stacks /\ call.kind \in Kinds /\ call.document \in Documents
        /\ call.catalog \in Catalogs /\ call.baseline \in States /\ call.command \in Entries
    BY DEF Frames
  <2>2. Job(call.stack, call.kind, call.document, call.catalog, call.baseline, call.command)
    BY <1>1, TopCall DEF CallOf, JobOf
  <2>3. Shape /\ HistoryOf(call.stack)
    BY <2>1 DEF Inv, Histories
  <2>4. \A d \in Documents : documents'[d].content # documents[d].content =>
           /\ Source(call.kind, call.command) = documents[d].content
           /\ Result(call.kind, call.command) = documents'[d].content
    BY <1>1, <2>1, <2>2, <2>3, CommitHolds
  <2> QED
    BY <1>1, <2>4 DEF UpdateIsNotLost, Turns
<1>2. ASSUME NEW s \in Stacks, NEW job \in Pendings, job = pending[s], job # None,
             pending'[s] = None, NEW merges \in BOOLEAN, UNCHANGED history_limit,
             Commit(s, job.kind, job.document, job.catalog, job.baseline, job.command, merges)
      PROVE  UpdateIsNotLost
  <2>1. /\ job.kind \in Kinds /\ job.document \in Documents /\ job.catalog \in Catalogs
        /\ job.baseline \in States /\ job.command \in Entries
    BY DEF Pendings
  <2>2. Job(s, job.kind, job.document, job.catalog, job.baseline, job.command)
    BY <1>2 DEF Inv, Waiting, JobOf
  <2>3. Shape /\ HistoryOf(s)
    BY DEF Inv, Histories
  <2>4. \A d \in Documents : documents'[d].content # documents[d].content =>
           /\ Source(job.kind, job.command) = documents[d].content
           /\ Result(job.kind, job.command) = documents'[d].content
    BY <1>2, <2>1, <2>2, <2>3, CommitHolds
  <2> QED
    BY <1>2, <2>4 DEF UpdateIsNotLost, Turns
<1>3. CASE Restored
  <2>1. active # <<>> /\ active' = Front(active)
    BY <1>3 DEF Restored, At, Leave
  <2>2. PICK call : call = Top
    OBVIOUS
  <2>3. call \in Frames /\ call.kind = "undo"
    BY <1>3, <2>1, <2>2, TopCall DEF Restored, At, CallOf
  <2>4. /\ Commit(call.stack, call.kind, call.document, call.catalog, call.baseline,
                  call.command, FALSE)
        /\ UNCHANGED history_limit
    BY <1>3, <2>2, <2>3 DEF Restored
  <2> QED
    BY <1>1, <2>1, <2>2, <2>3, <2>4
<1>4. ASSUME NEW merges \in BOOLEAN, Allowed(merges) PROVE UpdateIsNotLost
  <2>1. active # <<>> /\ active' = Front(active)
    BY <1>4 DEF Allowed, At, Leave
  <2>2. PICK call : call = Top
    OBVIOUS
  <2>3. call \in Frames
    BY <2>1, <2>2, TopCall
  <2>4. /\ Commit(call.stack, call.kind, call.document, call.catalog, call.baseline,
                  call.command, merges)
        /\ UNCHANGED history_limit
    BY <1>4, <2>2 DEF Allowed
  <2> QED
    BY <1>1, <2>1, <2>2, <2>3, <2>4
<1>5. ASSUME NEW s \in Stacks, pending[s] # None, NEW merges \in BOOLEAN,
             CommitPending(s, merges), UNCHANGED history_limit
      PROVE  UpdateIsNotLost
  <2>1. PICK job : job = pending[s]
    OBVIOUS
  <2>2. job \in Pendings /\ job # None /\ pending'[s] = None
    BY <1>5, <2>1 DEF Inv, Shape, CommitPending
  <2>3. Commit(s, job.kind, job.document, job.catalog, job.baseline, job.command, merges)
    BY <1>5, <2>1 DEF CommitPending
  <2> QED
    BY <1>2, <1>5, <2>1, <2>2, <2>3
<1>6. ASSUME NEW merges \in BOOLEAN, Reauthorized(merges) PROVE UpdateIsNotLost
  <2>1. PICK s : s = Top.stack
    OBVIOUS
  <2>2. s \in Stacks /\ pending[s] # None
    BY <1>6, <2>1, TopCall DEF Reauthorized, At, CallOf, Matches, Frames
  <2>3. CommitPending(s, merges) /\ UNCHANGED history_limit
    BY <1>6, <2>1 DEF Reauthorized
  <2> QED
    BY <1>5, <2>2, <2>3
<1>7. ASSUME NEW s \in Stacks, NEW id, NEW document \in Documents, NEW merges \in BOOLEAN,
             Resume(s, id, document, merges)
      PROVE  UpdateIsNotLost
  <2>1. pending[s] # None /\ CommitPending(s, merges) /\ UNCHANGED history_limit
    BY <1>7 DEF Resume, MayResume, MayResumeWhileBusy
  <2> QED
    BY <1>5, <2>1
<1>8. ASSUME NEW document \in Documents, AllocateId(document) PROVE UpdateIsNotLost
  BY <1>8 DEF AllocateId, UpdateIsNotLost, Inv, Shape, States
<1>9. CASE UNCHANGED documents
  BY <1>9 DEF UpdateIsNotLost
<1>10. \/ Restored \/ \E merges \in BOOLEAN : Allowed(merges) \/ Reauthorized(merges)
       \/ \E s \in Stacks, id \in 1..LastDeferredId, document \in Documents,
             merges \in BOOLEAN : Resume(s, id, document, merges)
       \/ \E document \in Documents : AllocateId(document)
       \/ UNCHANGED documents
  BY ZenonT(60) DEF Next, Execute, Undo, Redo, Enter, Fail, Staged, Replaced, MakeCommand, Deferred,
         Reauthorize, Cancel, Clear, SetHistoryLimit, BeginExclusiveOperation,
         EndExclusiveOperation, UpdateRegistry
<1> QED
  BY <1>3, <1>4, <1>6, <1>7, <1>8, <1>9, <1>10

\* No edit is lost, however calls nest and however long an operation waits.
THEOREM EditsAreNotLost == Spec => NoLostUpdate
  BY StepLosesNothing, StacksStayInOrder, PTL DEF Spec, NoLostUpdate

-----------------------------------------------------------------------------
(* The identifiers of deferred operations                                  *)

\* Identifiers are given out in order; once all are, none is again.
Spent == \A s \in Stacks, id \in 1..LastDeferredId :
             id \in issued[s] => next_deferred_id[s] = 0 \/ id < next_deferred_id[s]

\* A deferral gives out the next one.
LEMMA DeferredSpends ==
    ASSUME Inv, Spent, NEW stored \in BOOLEAN, Deferred(stored)
    PROVE  Spent' /\ DeferredIdIsFresh
<1>1. PICK call, n : call = Top /\ n = next_deferred_id[call.stack]
  OBVIOUS
<1>2. /\ n # 0
      /\ next_deferred_id' = [next_deferred_id EXCEPT ![call.stack] = AfterId(n)]
      /\ issued' = [issued EXCEPT ![call.stack] = @ \cup {n}]
  BY <1>1 DEF Deferred
<1>3. call.stack \in Stacks /\ n \in 1..LastDeferredId
  <2>1. active # <<>>
    BY DEF Deferred, At
  <2>2. call.stack \in Stacks
    BY <1>1, <2>1, TopCall DEF Frames
  <2> QED
    BY <1>1, <1>2, <2>2, CommandStackAssumption DEF Inv, Shape
<1>4. AfterId(n) = 0 \/ AfterId(n) = n + 1
  <2>1. n = LastDeferredId => (n + 1) % (LastDeferredId + 1) = 0
    BY CommandStackAssumption
  <2>2. n < LastDeferredId => (n + 1) % (LastDeferredId + 1) = n + 1
    BY <1>3, CommandStackAssumption
  <2> QED
    BY <1>3, <2>1, <2>2, CommandStackAssumption DEF AfterId
<1>5. ASSUME NEW s \in Stacks, NEW id \in 1..LastDeferredId, id \in issued'[s]
      PROVE  next_deferred_id'[s] = 0 \/ id < next_deferred_id'[s]
  <2>1. CASE s = call.stack
    <3>1. next_deferred_id'[s] = AfterId(n) /\ (id \in issued[s] \/ id = n)
      BY <1>2, <1>5, <2>1 DEF Inv, Shape
    <3>2. id \in issued[s] => id < n
      BY <1>1, <1>2, <2>1 DEF Spent
    <3> QED
      BY <1>3, <1>4, <3>1, <3>2
  <2>2. CASE s # call.stack
    BY <1>2, <1>5, <2>2 DEF Inv, Shape, Spent
  <2> QED
    BY <2>1, <2>2
<1>6. ASSUME NEW s \in Stacks, pending[s] = None, pending'[s] # None
      PROVE  pending'[s].id \notin issued[s]
  <2>1. stored /\ s = call.stack /\ pending'[s].id = n
    BY <1>1, <1>3, <1>6 DEF Deferred, Inv, Shape
  <2> QED
    BY <1>1, <1>2, <1>3, <2>1 DEF Spent
<1> QED
  BY <1>5, <1>6 DEF Spent, DeferredIdIsFresh

\* Nothing else gives any out, or makes an operation pending.
LEMMA StepSpends ==
    ASSUME Inv, Spent, [Next]_vars
    PROVE  Spent' /\ [DeferredIdIsFresh]_vars
<1>1. ASSUME NEW stored \in BOOLEAN, Deferred(stored) PROVE Spent' /\ DeferredIdIsFresh
  BY <1>1, DeferredSpends
<1>2. ASSUME UNCHANGED <<next_deferred_id, issued>>,
             \A s \in Stacks : pending[s] = None => pending'[s] = None
      PROVE  Spent' /\ DeferredIdIsFresh
  BY <1>2 DEF Spent, DeferredIdIsFresh
<1>3. ASSUME NEW s \in Stacks, pending' = [pending EXCEPT ![s] = None]
      PROVE  \A t \in Stacks : pending[t] = None => pending'[t] = None
  BY <1>3 DEF Inv, Shape
<1>4. CASE UNCHANGED <<next_deferred_id, issued, pending>>
  BY <1>2, <1>4
<1>5. ASSUME NEW s \in Stacks, pending' = [pending EXCEPT ![s] = None],
             UNCHANGED <<next_deferred_id, issued>>
      PROVE  Spent' /\ DeferredIdIsFresh
  BY <1>2, <1>3, <1>5
<1>6. ASSUME NEW merges \in BOOLEAN, Reauthorized(merges) PROVE Spent' /\ DeferredIdIsFresh
  <2>1. PICK s : s = Top.stack
    OBVIOUS
  <2>2. s \in Stacks
    BY <1>6, <2>1, TopCall DEF Reauthorized, At, Frames
  <2>3. /\ pending' = [pending EXCEPT ![s] = None]
        /\ UNCHANGED <<next_deferred_id, issued>>
    BY <1>6, <2>1 DEF Reauthorized, CommitPending
  <2> QED
    BY <1>5, <2>2, <2>3
<1>7. ASSUME NEW s \in Stacks, NEW id, NEW document \in Documents, NEW merges \in BOOLEAN,
             Resume(s, id, document, merges)
      PROVE  Spent' /\ DeferredIdIsFresh
  BY <1>5, <1>7 DEF Resume, CommitPending
<1>8. ASSUME NEW s \in Stacks, NEW id, Cancel(s, id) PROVE Spent' /\ DeferredIdIsFresh
  BY <1>5, <1>8 DEF Cancel
<1>9. ASSUME NEW catalog \in Catalogs, UpdateRegistry(catalog) PROVE Spent' /\ DeferredIdIsFresh
  <2>1. \A s \in Stacks : pending[s] = None => pending'[s] = None
    BY <1>9 DEF UpdateRegistry
  <2>2. UNCHANGED <<next_deferred_id, issued>>
    BY <1>9 DEF UpdateRegistry
  <2> QED
    BY <1>2, <2>1, <2>2
<1>10. \/ \E stored \in BOOLEAN : Deferred(stored)
       \/ \E merges \in BOOLEAN : Reauthorized(merges)
       \/ \E s \in Stacks, id \in 1..LastDeferredId, document \in Documents,
             merges \in BOOLEAN : Resume(s, id, document, merges)
       \/ \E s \in Stacks, id \in 1..LastDeferredId : Cancel(s, id)
       \/ \E catalog \in Catalogs : UpdateRegistry(catalog)
       \/ UNCHANGED <<next_deferred_id, issued, pending>>
  BY ZenonT(60) DEF Next, vars, Execute, Undo, Redo, Enter, Fail, Staged, Restored, Replaced,
         MakeCommand, Allowed, Reauthorize, Clear, SetHistoryLimit, BeginExclusiveOperation,
         EndExclusiveOperation, AllocateId
<1> QED
  BY <1>1, <1>4, <1>6, <1>7, <1>8, <1>9, <1>10

\* A deferred operation never has the identifier of an earlier one, so that a late
\* Resume or Cancel cannot reach another operation than the one approved; when the
\* identifiers are used up, none is deferred any more.
THEOREM DeferredIdsNeverReturn == Spec => DeferredIdsAreFresh
<1>1. Init => Spent
  BY DEF Init, Spent
<1> QED
  BY <1>1, StepSpends, StacksStayInOrder, PTL DEF Spec, DeferredIdsAreFresh

-----------------------------------------------------------------------------
(* The refinement.  Every step of every stack is a step of its timeline or  *)
(* leaves it as it is: a history is read as a line of states, and each way  *)
(* the code rewrites it is one abstract action.                             *)

\* The states of a history: those before the commands to undo, the current one,
\* and those after the commands to redo.
Line(u, now, r) ==
    [i \in 1..Len(u) + Len(r) + 1 |->
        IF i <= Len(u) THEN u[i].before
        ELSE IF i = Len(u) + 1 THEN now
        ELSE r[Len(u) + Len(r) + 2 - i].after]

LineOf(u, r) ==
    IF PathOf(u, r) = <<>> THEN <<>>
    ELSE [i \in 1..Len(PathOf(u, r)) + 1 |->
             IF i = 1 THEN PathOf(u, r)[1].before ELSE PathOf(u, r)[i - 1].after]

\* A line has one state more than commands.
LEMMA LineIsSeq ==
    ASSUME NEW u \in Seq(Entries), NEW r \in Seq(Entries), NEW now \in Contents
    PROVE  /\ Line(u, now, r) \in Seq(Contents)
           /\ Len(Line(u, now, r)) = Len(u) + Len(r) + 1
           /\ DOMAIN Line(u, now, r) = 1..Len(u) + Len(r) + 1
<1> DEFINE n == Len(u)
           m == Len(r)
           L == n + m + 1
<1>1. n \in Nat /\ m \in Nat /\ L \in Nat
  BY LenProperties
<1>2. ASSUME NEW i \in 1..L PROVE Line(u, now, r)[i] \in Contents
  <2>1. Line(u, now, r)[i] = IF i <= n THEN u[i].before
                             ELSE IF i = n + 1 THEN now ELSE r[n + m + 2 - i].after
    BY DEF Line
  <2>2. CASE i <= n
    <3>1. u[i] \in Entries
      BY <1>1, <2>2, ElementOfSeq
    <3> QED
      BY <2>1, <2>2, <3>1 DEF Entries
  <2>3. CASE i = n + 1
    BY <1>1, <2>1, <2>3
  <2>4. CASE i > n + 1
    <3>1. n + m + 2 - i \in 1..m /\ ~(i <= n) /\ i # n + 1
      BY <1>1, <2>4
    <3>2. r[n + m + 2 - i] \in Entries
      BY <3>1, ElementOfSeq
    <3> QED
      BY <2>1, <3>1, <3>2 DEF Entries
  <2> QED
    BY <1>1, <2>2, <2>3, <2>4
<1>3. Line(u, now, r) \in [1..L -> Contents]
  <2>1. Line(u, now, r) = [i \in 1..L |-> Line(u, now, r)[i]]
    BY DEF Line
  <2> HIDE DEF L
  <2> QED
    BY <1>2, <2>1
<1>4. Line(u, now, r) \in Seq(Contents)
  <2> HIDE DEF L
  <2> QED
    BY <1>1, <1>3, SeqDef
<1> QED
  BY <1>1, <1>3, <1>4, LenProperties

\* A joined history is the line through any state that fits it.
LEMMA LineOfIsLine ==
    ASSUME NEW u \in Seq(Entries), NEW r \in Seq(Entries), Joins(u, r),
           u # <<>> \/ r # <<>>, NEW now, Fits(u, r, now)
    PROVE  LineOf(u, r) = Line(u, now, r)
<1> DEFINE n == Len(u)
           m == Len(r)
<1>1. n \in Nat /\ m \in Nat /\ n + m \in Nat \ {0}
  BY LenProperties, EmptySeq
<1>2. /\ DOMAIN PathOf(u, r) = 1..n + m
      /\ \A i \in 1..n + m : PathOf(u, r)[i] = IF i <= n THEN u[i] ELSE r[n + m - i + 1]
  BY DEF PathOf
<1>3. Len(PathOf(u, r)) = n + m /\ PathOf(u, r) # <<>>
  <2>1. PathOf(u, r) \in [1..n + m -> {PathOf(u, r)[i] : i \in 1..n + m}]
    BY DEF PathOf
  <2>2. PathOf(u, r) \in Seq({PathOf(u, r)[i] : i \in 1..n + m})
    <3>1. PICK k \in Nat \ {0} : k = n + m
      BY <1>1
    <3> QED
      BY <2>1, <3>1, SeqDef
  <2> QED
    BY <1>1, <1>2, <2>2, LenProperties, EmptySeq
<1>4. LineOf(u, r) = [i \in 1..n + m + 1 |->
         IF i = 1 THEN PathOf(u, r)[1].before ELSE PathOf(u, r)[i - 1].after]
  BY <1>3 DEF LineOf
<1>5. ASSUME NEW i \in 1..n + m + 1
      PROVE  (IF i = 1 THEN PathOf(u, r)[1].before ELSE PathOf(u, r)[i - 1].after)
                = IF i <= n THEN u[i].before
                  ELSE IF i = n + 1 THEN now ELSE r[n + m + 2 - i].after
  <2>1. CASE i = 1 /\ n = 0
    <3>1. /\ PathOf(u, r)[1] = r[m] /\ ~(i <= n) /\ i = n + 1
      BY <1>1, <1>2, <2>1
    <3>2. r # <<>>
      BY <2>1, EmptySeq
    <3>3. r[m].before = now
      BY <3>2 DEF Fits, Last
    <3> QED
      BY <2>1, <3>1, <3>3
  <2>2. CASE i = 1 /\ n # 0
    <3>1. i <= n /\ PathOf(u, r)[1] = u[1]
      BY <1>1, <1>2, <2>2
    <3> QED
      BY <2>2, <3>1
  <2>3. CASE i # 1 /\ i <= n
    <3>1. i - 1 \in 1..n - 1 /\ i - 1 \in 1..n + m /\ i - 1 <= n /\ i - 1 + 1 = i
      BY <1>1, <2>3
    <3>2. u[i - 1].after = u[i - 1 + 1].before
      BY <3>1 DEF Joins
    <3> QED
      BY <1>2, <2>3, <3>1, <3>2
  <2>4. CASE i # 1 /\ i = n + 1
    <3>1. i - 1 = n /\ n \in 1..n + m /\ n <= n /\ ~(i <= n) /\ n # 0
      BY <1>1, <2>4
    <3>2. u # <<>>
      BY <3>1, EmptySeq
    <3>3. u[n].after = now
      BY <3>2 DEF Fits, Last
    <3> QED
      BY <1>2, <2>4, <3>1, <3>3
  <2>5. CASE i > n + 1
    <3>1. /\ i - 1 \in 1..n + m /\ ~(i - 1 <= n) /\ ~(i <= n) /\ i # n + 1 /\ i # 1
          /\ n + m - (i - 1) + 1 = n + m + 2 - i
      BY <1>1, <2>5
    <3> QED
      BY <1>2, <3>1
  <2> QED
    BY <1>1, <2>1, <2>2, <2>3, <2>4, <2>5
<1> QED
  BY <1>4, <1>5 DEF Line

\* Undo and redo leave the line as it is.
LEMMA LineUndo ==
    ASSUME NEW u \in Seq(Entries), NEW r \in Seq(Entries), u # <<>>
    PROVE  Line(Front(u), Last(u).before, Append(r, Last(u))) = Line(u, Last(u).after, r)
<1> DEFINE n == Len(u)
           m == Len(r)
           c == Last(u)
<1>1. /\ n \in Nat \ {0} /\ Len(Front(u)) = n - 1 /\ c \in Entries
      /\ \A i \in 1..n - 1 : Front(u)[i] = u[i]
  BY Fronted
<1>2. /\ m \in Nat /\ Len(Append(r, c)) = m + 1 /\ Append(r, c)[m + 1] = c
      /\ \A i \in 1..m : Append(r, c)[i] = r[i]
  BY <1>1, AppendProperties, LenProperties
<1>3. n - 1 + (m + 1) + 1 = n + m + 1
  BY <1>1, <1>2
<1>4. ASSUME NEW i \in 1..n + m + 1
      PROVE  (IF i <= n - 1 THEN Front(u)[i].before
              ELSE IF i = n - 1 + 1 THEN c.before
              ELSE Append(r, c)[n - 1 + (m + 1) + 2 - i].after)
                = IF i <= n THEN u[i].before
                  ELSE IF i = n + 1 THEN c.after ELSE r[n + m + 2 - i].after
  <2>1. CASE i <= n - 1
    BY <1>1, <2>1
  <2>2. CASE i = n
    <3>1. ~(i <= n - 1) /\ i = n - 1 + 1 /\ i <= n
      BY <1>1, <2>2
    <3> QED
      BY <2>2, <3>1 DEF Last
  <2>3. CASE i = n + 1
    <3>1. /\ ~(i <= n - 1) /\ i # n - 1 + 1 /\ ~(i <= n)
          /\ n - 1 + (m + 1) + 2 - i = m + 1
      BY <1>1, <1>2, <2>3
    <3> QED
      BY <1>2, <2>3, <3>1
  <2>4. CASE i > n + 1
    <3>1. /\ ~(i <= n - 1) /\ i # n - 1 + 1 /\ ~(i <= n) /\ i # n + 1
          /\ n - 1 + (m + 1) + 2 - i = n + m + 2 - i /\ n + m + 2 - i \in 1..m
      BY <1>1, <1>2, <2>4
    <3> QED
      BY <1>2, <3>1
  <2>5. i <= n - 1 \/ i = n \/ i = n + 1 \/ i > n + 1
    BY <1>1, <1>2
  <2> QED
    BY <2>1, <2>2, <2>3, <2>4, <2>5
<1> QED
  BY <1>1, <1>2, <1>3, <1>4 DEF Line

\* And the same for redo.
LEMMA LineRedo ==
    ASSUME NEW u \in Seq(Entries), NEW r \in Seq(Entries), r # <<>>
    PROVE  Line(Append(u, Last(r)), Last(r).after, Front(r)) = Line(u, Last(r).before, r)
<1> DEFINE n == Len(u)
           m == Len(r)
           c == Last(r)
<1>1. /\ m \in Nat \ {0} /\ Len(Front(r)) = m - 1 /\ c \in Entries
      /\ \A i \in 1..m - 1 : Front(r)[i] = r[i]
  BY Fronted
<1>2. /\ n \in Nat /\ Len(Append(u, c)) = n + 1 /\ Append(u, c)[n + 1] = c
      /\ \A i \in 1..n : Append(u, c)[i] = u[i]
  BY <1>1, AppendProperties, LenProperties
<1>3. n + 1 + (m - 1) + 1 = n + m + 1
  BY <1>1, <1>2
<1>4. ASSUME NEW i \in 1..n + m + 1
      PROVE  (IF i <= n + 1 THEN Append(u, c)[i].before
              ELSE IF i = n + 1 + 1 THEN c.after
              ELSE Front(r)[n + 1 + (m - 1) + 2 - i].after)
                = IF i <= n THEN u[i].before
                  ELSE IF i = n + 1 THEN c.before ELSE r[n + m + 2 - i].after
  <2>1. CASE i <= n
    BY <1>2, <2>1
  <2>2. CASE i = n + 1
    <3>1. i <= n + 1 /\ ~(i <= n)
      BY <1>2, <2>2
    <3> QED
      BY <1>2, <2>2, <3>1
  <2>3. CASE i = n + 2
    <3>1. /\ ~(i <= n + 1) /\ i = n + 1 + 1 /\ ~(i <= n) /\ i # n + 1
          /\ n + m + 2 - i = m
      BY <1>1, <1>2, <2>3
    <3> QED
      BY <3>1 DEF Last
  <2>4. CASE i > n + 2
    <3>1. /\ ~(i <= n + 1) /\ i # n + 1 + 1 /\ ~(i <= n) /\ i # n + 1
          /\ n + 1 + (m - 1) + 2 - i = n + m + 2 - i /\ n + m + 2 - i \in 1..m - 1
      BY <1>1, <1>2, <2>4
    <3> QED
      BY <1>1, <3>1
  <2> QED
    BY <1>1, <1>2, <2>1, <2>2, <2>3, <2>4
<1> QED
  BY <1>1, <1>2, <1>3, <1>4, SMTT(30) DEF Line

\* The past of a line.
LEMMA LinePast ==
    ASSUME NEW u \in Seq(Entries), NEW r \in Seq(Entries), NEW now \in Contents
    PROVE  /\ SubSeq(Line(u, now, r), 1, Len(u) + 1) \in Seq(Contents)
           /\ Len(SubSeq(Line(u, now, r), 1, Len(u) + 1)) = Len(u) + 1
           /\ \A i \in 1..Len(u) + 1 :
                 SubSeq(Line(u, now, r), 1, Len(u) + 1)[i] = IF i <= Len(u) THEN u[i].before ELSE now
<1> DEFINE n == Len(u)
           m == Len(r)
           line == Line(u, now, r)
<1>1. /\ n \in Nat /\ m \in Nat /\ line \in Seq(Contents) /\ Len(line) = n + m + 1
      /\ \A i \in 1..n + m + 1 : line[i] \in Contents
  BY LineIsSeq, LenProperties, ElementOfSeq
<1>2. \A i \in 1..n + 1 : line[i] = IF i <= n THEN u[i].before ELSE now
  BY <1>1 DEF Line
<1>3. /\ SubSeq(line, 1, n + 1) \in Seq(Contents)
      /\ Len(SubSeq(line, 1, n + 1)) = n + 1
      /\ \A i \in 1..n + 1 : SubSeq(line, 1, n + 1)[i] = line[i]
  <2> HIDE DEF line
  <2>1. PICK k \in Nat \ {0} : k = n + 1
    BY <1>1
  <2>2. \A i \in 1..k : line[i] \in Contents
    BY <1>1, <2>1
  <2>3. /\ SubSeq(line, 1, k) \in Seq(Contents)
        /\ Len(SubSeq(line, 1, k)) = IF 1 <= k THEN k - 1 + 1 ELSE 0
        /\ \A i \in 1..k - 1 + 1 : SubSeq(line, 1, k)[i] = line[1 + i - 1]
    BY <2>2, SubSeqProperties
  <2>4. k - 1 + 1 = k /\ 1 <= k /\ \A i \in 1..k : 1 + i - 1 = i
    OBVIOUS
  <2>5. Len(SubSeq(line, 1, k)) = k /\ \A i \in 1..k : SubSeq(line, 1, k)[i] = line[i]
    BY <2>3, <2>4
  <2> QED
    BY <2>1, <2>3, <2>5
<1> HIDE DEF line
<1> QED
  BY <1>2, <1>3 DEF line

\* A line without a future.
LEMMA LineEnd ==
    ASSUME NEW u \in Seq(Entries), NEW now \in Contents
    PROVE  /\ Line(u, now, <<>>) \in Seq(Contents)
           /\ Len(Line(u, now, <<>>)) = Len(u) + 1
           /\ \A i \in 1..Len(u) + 1 :
                 Line(u, now, <<>>)[i] = IF i <= Len(u) THEN u[i].before ELSE now
<1> DEFINE n == Len(u)
<1>1. n \in Nat
  BY LenProperties
<1>2. PICK r \in Seq(Entries) : r = <<>>
  BY EmptySeq
<1>3. PICK m : m = Len(r) /\ m = 0
  BY <1>2, EmptySeq
<1>4. /\ Line(u, now, r) \in Seq(Contents) /\ Len(Line(u, now, r)) = n + m + 1
      /\ \A i \in 1..n + m + 1 : Line(u, now, r)[i] =
             IF i <= n THEN u[i].before ELSE IF i = n + 1 THEN now ELSE r[n + m + 2 - i].after
  BY <1>2, <1>3, LineIsSeq DEF Line
<1>5. n + m + 1 = n + 1 /\ \A i \in 1..n + 1 : i <= n \/ i = n + 1
  BY <1>1, <1>3
<1> QED
  BY <1>2, <1>3, <1>4, <1>5

\* A new edit follows the past.
LEMMA LineRecord ==
    ASSUME NEW u \in Seq(Entries), NEW r \in Seq(Entries), NEW c \in Entries
    PROVE  Append(SubSeq(Line(u, c.before, r), 1, Len(u) + 1), c.after)
               = Line(Append(u, c), c.after, <<>>)
<1> DEFINE n == Len(u)
           past == SubSeq(Line(u, c.before, r), 1, n + 1)
           new == Line(Append(u, c), c.after, <<>>)
<1>1. /\ n \in Nat /\ Append(u, c) \in Seq(Entries) /\ Len(Append(u, c)) = n + 1
      /\ Append(u, c)[n + 1] = c /\ \A i \in 1..n : Append(u, c)[i] = u[i]
      /\ c.before \in Contents /\ c.after \in Contents
  BY AppendProperties, LenProperties DEF Entries
<1>2. /\ past \in Seq(Contents) /\ Len(past) = n + 1
      /\ \A i \in 1..n + 1 : past[i] = IF i <= n THEN u[i].before ELSE c.before
  BY <1>1, LinePast
<1>3. /\ new \in Seq(Contents) /\ Len(new) = n + 2
      /\ \A i \in 1..n + 2 : new[i] = IF i <= n + 1 THEN Append(u, c)[i].before ELSE c.after
  <2>1. n + 1 + 1 = n + 2
    BY <1>1
  <2>2. /\ new \in Seq(Contents) /\ Len(new) = n + 1 + 1
        /\ \A i \in 1..n + 1 + 1 :
              new[i] = IF i <= n + 1 THEN Append(u, c)[i].before ELSE c.after
    <3>1. PICK w \in Seq(Entries) : w = Append(u, c)
      BY <1>1
    <3>2. Len(w) = n + 1
      BY <1>1, <3>1
    <3>3. /\ Line(w, c.after, <<>>) \in Seq(Contents)
          /\ Len(Line(w, c.after, <<>>)) = Len(w) + 1
          /\ \A i \in 1..Len(w) + 1 :
                Line(w, c.after, <<>>)[i] = IF i <= Len(w) THEN w[i].before ELSE c.after
      BY <1>1, LineEnd, ZenonT(30)
    <3> QED
      BY <3>1, <3>2, <3>3, ZenonT(30)
  <2> HIDE DEF new
  <2> QED
    BY <2>1, <2>2
<1> HIDE DEF past, new
<1>4. /\ Append(past, c.after) \in Seq(Contents) /\ Len(Append(past, c.after)) = n + 1 + 1
      /\ Append(past, c.after)[n + 1 + 1] = c.after
      /\ \A i \in 1..n + 1 : Append(past, c.after)[i] = past[i]
  BY <1>1, <1>2, AppendProperties
<1>5. ASSUME NEW i \in 1..n + 2 PROVE Append(past, c.after)[i] = new[i]
  <2>1. CASE i <= n
    <3>1. i \in 1..n /\ i \in 1..n + 1 /\ i <= n + 1
      BY <1>1, <2>1
    <3>2. past[i] = u[i].before /\ new[i] = Append(u, c)[i].before
      BY <1>2, <1>3, <2>1, <3>1
    <3> QED
      BY <1>1, <1>4, <3>1, <3>2
  <2>2. CASE i = n + 1
    <3>1. i \in 1..n + 1 /\ ~(i <= n) /\ i <= n + 1
      BY <1>1, <2>2
    <3> QED
      BY <1>1, <1>2, <1>3, <1>4, <2>2, <3>1
  <2>3. CASE i = n + 2
    <3>1. i = n + 1 + 1 /\ ~(i <= n + 1)
      BY <1>1, <2>3
    <3> QED
      BY <1>3, <1>4, <3>1
  <2>4. i <= n \/ i = n + 1 \/ i = n + 2
    BY <1>1
  <2> QED
    BY <2>1, <2>2, <2>3, <2>4
<1>6. n + 1 + 1 = n + 2
  BY <1>1
<1>7. Append(past, c.after) = new
  BY <1>3, <1>4, <1>5, <1>6, SeqEqual
<1> QED
  BY <1>7 DEF past, new

\* A merged edit replaces the present and cuts the future off.
LEMMA LineAmend ==
    ASSUME NEW u \in Seq(Entries), u # <<>>, NEW r \in Seq(Entries), NEW now \in Contents,
           NEW c \in Entries
    PROVE  [SubSeq(Line(u, now, r), 1, Len(u) + 1) EXCEPT ![Len(u) + 1] = c.after]
               = Line(Amended(u, c), c.after, <<>>)
<1> DEFINE n == Len(u)
           past == SubSeq(Line(u, now, r), 1, n + 1)
           w == Amended(u, c)
           new == Line(w, c.after, <<>>)
<1>1. n \in Nat \ {0} /\ c.after \in Contents /\ \A i \in 1..n : u[i] \in Entries
  BY EmptySeq, ElementOfSeq DEF Entries
<1>2. /\ past \in Seq(Contents) /\ Len(past) = n + 1
      /\ \A i \in 1..n + 1 : past[i] = IF i <= n THEN u[i].before ELSE now
  BY <1>1, LinePast
<1>3. w \in Seq(Entries) /\ Len(w) = n /\ \A i \in 1..n : w[i].before = u[i].before
  <2> DEFINE e == [u[n] EXCEPT !.after = c.after]
  <2>1. e \in Entries /\ e.before = u[n].before /\ w = [u EXCEPT ![n] = e]
    BY <1>1 DEF Amended, Entries
  <2> HIDE DEF e
  <2>2. /\ w \in Seq(Entries) /\ Len(w) = n
        /\ \A i \in 1..n : w[i] = IF i = n THEN e ELSE u[i]
    BY <1>1, <2>1, ExceptSeq
  <2> QED
    BY <2>1, <2>2
<1> HIDE DEF w
<1>4. /\ new \in Seq(Contents) /\ Len(new) = n + 1
      /\ \A i \in 1..n + 1 : new[i] = IF i <= n THEN u[i].before ELSE c.after
  <2>1. /\ new \in Seq(Contents) /\ Len(new) = n + 1
        /\ \A i \in 1..n + 1 : new[i] = IF i <= n THEN w[i].before ELSE c.after
    <3>1. /\ Line(w, c.after, <<>>) \in Seq(Contents)
          /\ Len(Line(w, c.after, <<>>)) = Len(w) + 1
          /\ \A i \in 1..Len(w) + 1 :
                Line(w, c.after, <<>>)[i] = IF i <= Len(w) THEN w[i].before ELSE c.after
      BY <1>1, <1>3, LineEnd, ZenonT(30)
    <3> QED
      BY <1>3, <3>1, ZenonT(30)
  <2>2. \A i \in 1..n + 1 : i <= n => i \in 1..n
    BY <1>1
  <2> HIDE DEF new
  <2> QED
    BY <1>3, <2>1, <2>2
<1> HIDE DEF past, new
<1>5. n + 1 \in 1..Len(past)
  BY <1>1, <1>2
<1>6. /\ [past EXCEPT ![n + 1] = c.after] \in Seq(Contents)
      /\ Len([past EXCEPT ![n + 1] = c.after]) = n + 1
      /\ \A i \in 1..n + 1 : [past EXCEPT ![n + 1] = c.after][i] =
                                 IF i = n + 1 THEN c.after ELSE past[i]
  BY <1>1, <1>2, <1>5, ExceptSeq
<1>7. \A i \in 1..n + 1 : (i = n + 1 /\ ~(i <= n)) \/ (i # n + 1 /\ i <= n)
  BY <1>1
<1>8. \A i \in 1..n + 1 : [past EXCEPT ![n + 1] = c.after][i] = new[i]
  BY <1>2, <1>4, <1>6, <1>7
<1>9. [past EXCEPT ![n + 1] = c.after] = new
  BY <1>4, <1>6, <1>8, SeqEqual
<1> QED
  BY <1>9 DEF past, new, w

\* A lower limit cuts both ends off.
LEMMA LineTrim ==
    ASSUME NEW u \in Seq(Entries), NEW r \in Seq(Entries), NEW now \in Contents,
           NEW limit \in Nat
    PROVE  \E k \in Nat :
              /\ k + Len(LastOf(u, limit)) = Len(u)
              /\ Len(LastOf(r, limit)) <= Len(r)
              /\ Line(LastOf(u, limit), now, LastOf(r, limit))
                   = SubSeq(Line(u, now, r), k + 1, Len(u) + 1 + Len(LastOf(r, limit)))
<1> DEFINE n == Len(u)
           m == Len(r)
           w == LastOf(u, limit)
           v == LastOf(r, limit)
           old == Line(u, now, r)
           new == Line(w, now, v)
<1>1. PICK k \in Nat : k + Len(w) = n /\ \A i \in 1..Len(w) : w[i] = u[i + k]
  BY Kept, Zenon
<1>2. PICK h \in Nat : h + Len(v) = m /\ \A i \in 1..Len(v) : v[i] = r[i + h]
  BY Kept, Zenon
<1>3. PICK p, q, nn, mm : p = Len(w) /\ q = Len(v) /\ nn = n /\ mm = m
  OBVIOUS
<1>4. /\ p \in Nat /\ q \in Nat /\ nn \in Nat /\ mm \in Nat
      /\ w \in Seq(Entries) /\ v \in Seq(Entries) /\ k + p = nn /\ h + q = mm
  BY <1>1, <1>2, <1>3, Trimmed, LenProperties
<1>5. /\ new \in Seq(Contents) /\ Len(new) = p + q + 1
      /\ old \in Seq(Contents) /\ Len(old) = nn + mm + 1
  BY <1>3, <1>4, LineIsSeq
<1>6. /\ \A i \in 1..p + q + 1 : new[i] = IF i <= p THEN w[i].before
                                          ELSE IF i = p + 1 THEN now ELSE v[p + q + 2 - i].after
      /\ \A i \in 1..nn + mm + 1 : old[i] = IF i <= nn THEN u[i].before
                                          ELSE IF i = nn + 1 THEN now ELSE r[nn + mm + 2 - i].after
  BY <1>3 DEF Line
<1>7. /\ \A i \in 1..p : w[i] = u[i + k]
      /\ \A i \in 1..q : v[i] = r[i + h]
  BY <1>1, <1>2, <1>3
<1> HIDE DEF n, m, w, v, old, new
<1>8. /\ SubSeq(old, k + 1, nn + 1 + q) \in Seq(Contents)
      /\ Len(SubSeq(old, k + 1, nn + 1 + q)) = p + q + 1
      /\ \A i \in 1..p + q + 1 : SubSeq(old, k + 1, nn + 1 + q)[i] = old[i + k]
  <2>1. PICK a \in Nat, b \in Nat : a = k + 1 /\ b = nn + 1 + q
    BY <1>4
  <2>2. \A i \in a..b : old[i] \in Contents
    <3>1. \A i \in a..b : i \in 1..nn + mm + 1
      BY <1>4, <2>1
    <3> QED
      BY <1>5, <3>1, ElementOfSeq
  <2>3. /\ SubSeq(old, a, b) \in Seq(Contents)
        /\ Len(SubSeq(old, a, b)) = IF a <= b THEN b - a + 1 ELSE 0
        /\ \A i \in 1..b - a + 1 : SubSeq(old, a, b)[i] = old[a + i - 1]
    BY <2>2, SubSeqProperties
  <2>4. /\ a <= b /\ b - a + 1 = p + q + 1
        /\ \A i \in 1..p + q + 1 : a + i - 1 = i + k
    BY <1>4, <2>1
  <2> QED
    BY <2>1, <2>3, <2>4
<1>9. ASSUME NEW i \in 1..p + q + 1 PROVE new[i] = SubSeq(old, k + 1, nn + 1 + q)[i]
  <2>1. i + k \in 1..nn + mm + 1
    BY <1>4
  <2>2. CASE i <= p
    <3>1. i \in 1..p /\ i + k <= nn
      BY <1>4, <2>2
    <3> QED
      BY <1>6, <1>7, <1>8, <2>1, <2>2, <3>1
  <2>3. CASE i = p + 1
    <3>1. ~(i <= p) /\ ~(i + k <= nn) /\ i + k = nn + 1
      BY <1>4, <2>3
    <3> QED
      BY <1>6, <1>8, <2>1, <2>3, <3>1
  <2>4. CASE i > p + 1
    <3>1. /\ ~(i <= p) /\ i # p + 1 /\ ~(i + k <= nn) /\ i + k # nn + 1
          /\ p + q + 2 - i \in 1..q /\ p + q + 2 - i + h = nn + mm + 2 - (i + k)
      BY <1>4, <2>4
    <3>2. new[i] = v[p + q + 2 - i].after
      BY <1>6, <3>1
    <3>3. old[i + k] = r[nn + mm + 2 - (i + k)].after
      BY <1>6, <2>1, <3>1
    <3> QED
      BY <1>7, <1>8, <3>1, <3>2, <3>3
  <2>5. i <= p \/ i = p + 1 \/ i > p + 1
    BY <1>4
  <2> QED
    BY <2>2, <2>3, <2>4, <2>5
<1>10. new = SubSeq(old, k + 1, nn + 1 + q)
  BY <1>5, <1>8, <1>9, SeqEqual
<1>11. q <= mm
  BY <1>4
<1> QED
  BY <1>1, <1>3, <1>10, <1>11 DEF n, m, w, v, old, new

-----------------------------------------------------------------------------
(* The steps of a timeline                                                 *)

\* The refinement mapping, as an operator of the two sequences.
LEMMA TimelineIsLine ==
    ASSUME NEW s \in Stacks
    PROVE  /\ Timeline(s) = LineOf(undo[s], redo[s])
           /\ Timeline(s)' = LineOf(undo'[s], redo'[s])
  BY DEF Timeline, Path, LineOf, PathOf

\* What a stack's step is in the timeline.
EditStep(s) == Edits(s)!Next \/ UNCHANGED <<Timeline(s), Len(undo[s])>>

\* An untouched history stutters.
LEMMA SameHistory ==
    ASSUME NEW s \in Stacks, undo'[s] = undo[s], redo'[s] = redo[s]
    PROVE  EditStep(s)
  BY TimelineIsLine DEF EditStep

\* A stack without history has an empty timeline.
LEMMA EmptyLine ==
    /\ <<>> \in Seq(Entries) /\ Len(<<>>) = 0
    /\ LineOf(<<>>, <<>>) = <<>>
  BY DEF LineOf, PathOf

\* Undo moves the cursor back.
LEMMA StepsBack ==
    ASSUME NEW s \in Stacks, undo[s] \in Seq(Entries), redo[s] \in Seq(Entries),
           Joins(undo[s], redo[s]), undo[s] # <<>>,
           undo'[s] = Front(undo[s]), redo'[s] = Append(redo[s], Last(undo[s]))
    PROVE  EditStep(s)
<1> DEFINE u == undo[s]
           r == redo[s]
<1>1. /\ Last(u) \in Entries /\ Last(u).after \in Contents /\ Last(u).before \in Contents
      /\ Front(u) \in Seq(Entries) /\ Append(r, Last(u)) \in Seq(Entries)
      /\ Append(r, Last(u)) # <<>> /\ Last(Append(r, Last(u))) = Last(u)
  <2>1. Last(u) \in Entries /\ Front(u) \in Seq(Entries)
    BY Fronted
  <2> QED
    BY <2>1, Appended, SMTT(60) DEF Entries
<1>2. /\ Joins(Front(u), Append(r, Last(u)))
      /\ Fits(Front(u), Append(r, Last(u)), Last(u).before)
  BY <1>1, JoinsUndo DEF Fits
<1>3. LineOf(u, r) = Line(u, Last(u).after, r)
  BY LineOfIsLine DEF Joins, Fits
<1>4. LineOf(Front(u), Append(r, Last(u)))
          = Line(Front(u), Last(u).before, Append(r, Last(u)))
  BY <1>1, <1>2, LineOfIsLine
<1>5. UNCHANGED Timeline(s)
  BY <1>3, <1>4, LineUndo, TimelineIsLine
<1>6. Len(undo[s]) \in Nat \ {0} /\ Len(undo'[s]) = Len(undo[s]) - 1
  BY Fronted
<1>7. Len(undo[s]) + 1 > 1 /\ Len(undo'[s]) + 1 = Len(undo[s]) + 1 - 1
  BY <1>6
<1>8. Edits(s)!StepBack
  BY <1>5, <1>7 DEF Edits!StepBack
<1> QED
  BY <1>8 DEF EditStep, Edits!Next

\* Redo moves it forward.
LEMMA StepsForward ==
    ASSUME NEW s \in Stacks, undo[s] \in Seq(Entries), redo[s] \in Seq(Entries),
           Joins(undo[s], redo[s]), redo[s] # <<>>,
           undo'[s] = Append(undo[s], Last(redo[s])), redo'[s] = Front(redo[s])
    PROVE  EditStep(s)
<1> DEFINE u == undo[s]
           r == redo[s]
<1>1. /\ Last(r) \in Entries /\ Last(r).after \in Contents /\ Last(r).before \in Contents
      /\ Front(r) \in Seq(Entries) /\ Append(u, Last(r)) \in Seq(Entries)
      /\ Append(u, Last(r)) # <<>> /\ Last(Append(u, Last(r))) = Last(r)
      /\ Len(Append(u, Last(r))) = Len(u) + 1
  <2>1. Last(r) \in Entries /\ Front(r) \in Seq(Entries)
    BY Fronted
  <2> QED
    BY <2>1, Appended DEF Entries
<1>2. /\ Joins(Append(u, Last(r)), Front(r))
      /\ Fits(Append(u, Last(r)), Front(r), Last(r).after)
  BY <1>1, JoinsRedo DEF Fits
<1>3. LineOf(u, r) = Line(u, Last(r).before, r)
  BY LineOfIsLine DEF Joins, Fits
<1>4. LineOf(Append(u, Last(r)), Front(r)) = Line(Append(u, Last(r)), Last(r).after, Front(r))
  BY <1>1, <1>2, LineOfIsLine
<1>5. UNCHANGED Timeline(s)
  BY <1>3, <1>4, LineRedo, TimelineIsLine
<1>6. Len(u) + 1 < Len(Timeline(s))
  <2>1. Len(u) \in Nat /\ Len(r) \in Nat \ {0}
    BY LenProperties, EmptySeq
  <2>2. Len(Line(u, Last(r).before, r)) = Len(u) + Len(r) + 1
    BY <1>1, LineIsSeq
  <2>3. Timeline(s) = Line(u, Last(r).before, r)
    BY <1>3, TimelineIsLine
  <2>4. \A n \in Nat, m \in Nat \ {0} : n + 1 < n + m + 1
    OBVIOUS
  <2>5. Len(u) + 1 < Len(u) + Len(r) + 1
    BY <2>1, <2>4, Zenon
  <2> QED
    BY <2>2, <2>3, <2>5
<1>7. Edits(s)!StepForward
  BY <1>1, <1>5, <1>6 DEF Edits!StepForward
<1> QED
  BY <1>7 DEF EditStep, Edits!Next

\* An emptied history is forgotten.
LEMMA Forgets ==
    ASSUME NEW s \in Stacks, undo'[s] = <<>>, redo'[s] = <<>>
    PROVE  EditStep(s)
<1>1. Edits(s)!Forget
  BY EmptyLine, TimelineIsLine DEF Edits!Forget
<1> QED
  BY <1>1 DEF EditStep, Edits!Next

\* A new command: the past, the present and the state it leaves, less what falls
\* off the front.
LEMMA RecordedLine ==
    ASSUME NEW u \in Seq(Entries), NEW r \in Seq(Entries), Joins(u, r), NEW c \in Entries,
           Fits(u, r, c.before), NEW limit \in Nat \ {0}
    PROVE  LET past == IF LineOf(u, r) = <<>> THEN <<c.before>>
                       ELSE SubSeq(LineOf(u, r), 1, Len(u) + 1)
               w == LastOf(Append(u, c), limit)
           IN  \E first \in 1..Len(u) + 1 :
                  /\ LineOf(w, <<>>) = SubSeq(Append(past, c.after), first, Len(u) + 1 + 1)
                  /\ Len(w) + 1 = Len(u) + 1 + 2 - first
<1> DEFINE past == IF LineOf(u, r) = <<>> THEN <<c.before>>
                   ELSE SubSeq(LineOf(u, r), 1, Len(u) + 1)
<1>1. PICK n : n = Len(u)
  OBVIOUS
<1>2. n \in Nat /\ Len(r) \in Nat /\ c.before \in Contents /\ c.after \in Contents
  BY <1>1, LenProperties DEF Entries
<1>3. PICK a \in Seq(Entries) : a = Append(u, c)
  BY Appended
<1>4. Len(a) = n + 1 /\ a # <<>> /\ Last(a) = c
  BY <1>1, <1>3, Appended
<1>5. PICK w : w = LastOf(a, limit)
  OBVIOUS
<1>6. w \in Seq(Entries) /\ w # <<>> /\ Last(w) = c /\ Len(w) \in Nat \ {0}
  BY <1>4, <1>5, Trimmed, LenProperties, EmptySeq
<1>7. Append(past, c.after) = Line(a, c.after, <<>>)
  <2>1. Append(SubSeq(Line(u, c.before, r), 1, n + 1), c.after) = Line(a, c.after, <<>>)
    BY <1>1, <1>3, LineRecord
  <2>2. CASE u # <<>> \/ r # <<>>
    <3>1. LineOf(u, r) = Line(u, c.before, r)
      BY <2>2, LineOfIsLine
    <3>2. Len(LineOf(u, r)) = n + Len(r) + 1
      <4>1. Len(Line(u, c.before, r)) = Len(u) + Len(r) + 1
        BY <1>2, LineIsSeq, ZenonT(30)
      <4> QED
        BY <1>1, <3>1, <4>1
    <3>3. LineOf(u, r) # <<>>
      BY <1>2, <3>2, EmptyLine
    <3> QED
      BY <1>1, <2>1, <3>1, <3>3
  <2>3. CASE u = <<>> /\ r = <<>>
    <3>1. LineOf(u, r) = <<>> /\ n = 0
      BY <1>1, <2>3, EmptyLine
    <3>2. PICK one : one = SubSeq(Line(u, c.before, r), 1, n + 1)
      OBVIOUS
    <3>3. one \in Seq(Contents) /\ Len(one) = 1 /\ one[1] = c.before
      <4>1. /\ one \in Seq(Contents) /\ Len(one) = n + 1
            /\ \A i \in 1..n + 1 : one[i] = IF i <= n THEN u[i].before ELSE c.before
        BY <1>1, <1>2, <3>2, LinePast
      <4> QED
        BY <3>1, <4>1
    <3>4. <<c.before>> \in Seq(Contents) /\ Len(<<c.before>>) = 1
      BY <1>2
    <3>5. \A i \in 1..1 : one[i] = <<c.before>>[i]
      BY <3>3
    <3>6. one = <<c.before>>
      BY <3>3, <3>4, <3>5, SeqEqual
    <3> QED
      BY <2>1, <3>1, <3>2, <3>6
  <2> QED
    BY <2>2, <2>3
<1>8. LastOf(<<>>, limit) = <<>>
  BY EmptyLine, Trimmed
<1>9. LineOf(w, <<>>) = Line(w, c.after, <<>>)
  <2>1. Joins(a, <<>>)
    BY <1>3, JoinsAppend DEF Fits
  <2>2. Joins(w, <<>>)
    BY <1>5, <1>8, <2>1, EmptyLine, JoinsTrim
  <2>3. Fits(w, <<>>, c.after)
    BY <1>6 DEF Fits
  <2> QED
    BY <1>6, <2>2, <2>3, EmptyLine, LineOfIsLine
<1>10. PICK k \in Nat :
          /\ k + Len(w) = n + 1
          /\ Line(w, c.after, <<>>) = SubSeq(Line(a, c.after, <<>>), k + 1, n + 1 + 1)
  <2>1. PICK none \in Seq(Entries) : none = <<>>
    BY EmptyLine
  <2>2. PICK now \in Contents : now = c.after
    BY <1>2
  <2>3. limit \in Nat
    OBVIOUS
  <2>4. PICK k \in Nat :
           /\ k + Len(LastOf(a, limit)) = Len(a)
           /\ Len(LastOf(none, limit)) <= Len(none)
           /\ Line(LastOf(a, limit), now, LastOf(none, limit))
                = SubSeq(Line(a, now, none), k + 1, Len(a) + 1 + Len(LastOf(none, limit)))
    <3>1. \A q \in Seq(Entries), x \in Contents, l \in Nat : \E k \in Nat :
             /\ k + Len(LastOf(q, l)) = Len(q)
             /\ Len(LastOf(none, l)) <= Len(none)
             /\ Line(LastOf(q, l), x, LastOf(none, l))
                  = SubSeq(Line(q, x, none), k + 1, Len(q) + 1 + Len(LastOf(none, l)))
      BY LineTrim, Zenon
    <3> QED
      BY <2>3, <3>1, Zenon
  <2>5. LastOf(none, limit) = <<>> /\ Len(LastOf(none, limit)) = 0
    BY <1>8, <2>1, EmptyLine
  <2>6. Len(a) + 1 + Len(LastOf(none, limit)) = n + 1 + 1
    BY <1>2, <1>4, <2>5
  <2> QED
    BY <1>4, <1>5, <2>1, <2>2, <2>4, <2>5, <2>6
<1>11. k + 1 \in 1..n + 1 /\ Len(w) + 1 = n + 1 + 2 - (k + 1)
  BY <1>2, <1>6, <1>10
<1> HIDE DEF past
<1>12. LineOf(w, <<>>) = SubSeq(Append(past, c.after), k + 1, n + 1 + 1)
  BY <1>7, <1>9, <1>10
<1>13. \E first \in 1..n + 1 :
          /\ LineOf(w, <<>>) = SubSeq(Append(past, c.after), first, n + 1 + 1)
          /\ Len(w) + 1 = n + 1 + 2 - first
  BY <1>11, <1>12
<1> QED
  BY <1>1, <1>3, <1>5, <1>13 DEF past

\* RecordedLine as a step.
LEMMA Records ==
    ASSUME NEW s \in Stacks, undo[s] \in Seq(Entries), redo[s] \in Seq(Entries),
           Joins(undo[s], redo[s]), NEW c \in Entries, NEW limit \in Nat \ {0},
           Fits(undo[s], redo[s], c.before),
           undo'[s] = LastOf(Append(undo[s], c), limit), redo'[s] = <<>>
    PROVE  EditStep(s)
<1>1. Edits(s)!Record(c.before, c.after)
  <2>1. /\ Timeline(s) = LineOf(undo[s], redo[s])
        /\ Timeline(s)' = LineOf(LastOf(Append(undo[s], c), limit), <<>>)
    BY TimelineIsLine
  <2>2. PICK first \in 1..Len(undo[s]) + 1 :
           /\ LineOf(LastOf(Append(undo[s], c), limit), <<>>)
                = SubSeq(Append(IF LineOf(undo[s], redo[s]) = <<>> THEN <<c.before>>
                                ELSE SubSeq(LineOf(undo[s], redo[s]), 1, Len(undo[s]) + 1),
                                c.after),
                         first, Len(undo[s]) + 1 + 1)
           /\ Len(LastOf(Append(undo[s], c), limit)) + 1 = Len(undo[s]) + 1 + 2 - first
    BY RecordedLine, Zenon
  <2>3. /\ Timeline(s)' = SubSeq(Append(IF Timeline(s) = <<>> THEN <<c.before>>
                                        ELSE SubSeq(Timeline(s), 1, Len(undo[s]) + 1),
                                        c.after),
                                 first, Len(undo[s]) + 1 + 1)
        /\ Len(undo'[s]) + 1 = Len(undo[s]) + 1 + 2 - first
    BY <2>1, <2>2, Zenon
  <2> QED
    BY <2>3, Zenon DEF Edits!Record, Edits!Past
<1>2. c.before \in Contents /\ c.after \in Contents
  BY DEF Entries
<1> QED
  BY <1>1, <1>2 DEF EditStep, Edits!Next

\* A command merged into the last one.
LEMMA Amends ==
    ASSUME NEW s \in Stacks, undo[s] \in Seq(Entries), redo[s] \in Seq(Entries),
           Joins(undo[s], redo[s]), NEW c \in Entries, undo[s] # <<>>,
           undo'[s] = Amended(undo[s], c), redo'[s] = <<>>
    PROVE  EditStep(s)
<1> DEFINE u == undo[s]
           r == redo[s]
           w == Amended(u, c)
<1>1. PICK now : now = Last(u).after
  OBVIOUS
<1>2. now \in Contents /\ c.after \in Contents /\ Len(u) \in Nat \ {0}
  <2>1. c.after \in Contents /\ \A e \in Entries : e.after \in Contents
    BY DEF Entries
  <2>2. Last(u) \in Entries /\ Len(u) \in Nat \ {0}
    BY Fronted
  <2> QED
    BY <1>1, <2>1, <2>2
<1>3. Timeline(s) = Line(u, now, r)
  BY <1>1, LineOfIsLine, TimelineIsLine DEF Joins, Fits
<1>4. w \in Seq(Entries) /\ w # <<>> /\ Last(w).after = c.after /\ Joins(w, <<>>)
  BY JoinsAmend
<1>5. Len(w) = Len(u)
  BY <1>2, ExceptSeq DEF Amended
<1>6. Timeline(s)' = Line(w, c.after, <<>>)
  <2>1. Fits(w, <<>>, c.after)
    BY <1>4 DEF Fits
  <2>2. PICK v \in Seq(Entries) : v = w
    BY <1>4
  <2> HIDE DEF w
  <2>3. LineOf(v, <<>>) = Line(v, c.after, <<>>)
    BY <1>4, <2>1, <2>2, EmptyLine, LineOfIsLine
  <2> QED
    BY <2>2, <2>3, TimelineIsLine DEF w
<1>7. [SubSeq(Timeline(s), 1, Len(u) + 1) EXCEPT ![Len(u) + 1] = c.after] = Timeline(s)'
  BY <1>2, <1>3, <1>6, LineAmend
<1>8. Len(undo[s]) + 1 > 1 /\ Len(undo'[s]) = Len(undo[s])
  BY <1>2, <1>5
<1>9. Edits(s)!Amend(c.after)
  BY <1>7, <1>8 DEF Edits!Amend, Edits!Past
<1> QED
  BY <1>2, <1>9 DEF EditStep, Edits!Next

\* A lower limit.
LEMMA LoweredLine ==
    ASSUME NEW u \in Seq(Entries), NEW r \in Seq(Entries), Joins(u, r), NEW limit \in Nat,
           LastOf(u, limit) # <<>> \/ LastOf(r, limit) # <<>>
    PROVE  \E first, last \in DOMAIN LineOf(u, r) :
              /\ first <= Len(u) + 1 /\ Len(u) + 1 <= last
              /\ LineOf(LastOf(u, limit), LastOf(r, limit))
                   = SubSeq(LineOf(u, r), first, last)
              /\ Len(LastOf(u, limit)) + 1 = (Len(u) + 1) - first + 1
<1>1. PICK w, v : w = LastOf(u, limit) /\ v = LastOf(r, limit)
  OBVIOUS
<1>2. /\ w \in Seq(Entries) /\ v \in Seq(Entries) /\ Joins(w, v)
      /\ w # <<>> => u # <<>> /\ Last(w) = Last(u)
      /\ v # <<>> => r # <<>> /\ Last(v) = Last(r)
      /\ w # <<>> \/ v # <<>>
  BY <1>1, Trimmed, JoinsTrim
<1>3. PICK now \in Contents : Fits(u, r, now)
  <2>1. \A q \in Seq(Entries) :
           q # <<>> => Last(q).after \in Contents /\ Last(q).before \in Contents
    <3>1. \A q \in Seq(Entries) : q # <<>> => Last(q) \in Entries
      BY Fronted, Zenon
    <3>2. \A e \in Entries : e.after \in Contents /\ e.before \in Contents
      BY DEF Entries
    <3> QED
      BY <3>1, <3>2, Zenon
  <2>2. CASE u # <<>>
    BY <2>1, <2>2 DEF Joins, Fits
  <2>3. CASE u = <<>>
    BY <1>2, <2>1, <2>3 DEF Fits
  <2> QED
    BY <2>2, <2>3
<1>4. LineOf(u, r) = Line(u, now, r)
  BY <1>2, <1>3, LineOfIsLine
<1>5. LineOf(w, v) = Line(w, now, v)
  <2>1. Fits(w, v, now)
    BY <1>2, <1>3 DEF Fits
  <2> QED
    BY <1>2, <2>1, LineOfIsLine
<1>6. PICK n, m, p, q : n = Len(u) /\ m = Len(r) /\ p = Len(w) /\ q = Len(v)
  OBVIOUS
<1>7. /\ n \in Nat /\ m \in Nat /\ p \in Nat /\ q \in Nat
      /\ DOMAIN LineOf(u, r) = 1..n + m + 1
  BY <1>2, <1>4, <1>6, LineIsSeq, LenProperties
<1>8. PICK k \in Nat :
         /\ k + p = n
         /\ q <= m
         /\ Line(w, now, v) = SubSeq(Line(u, now, r), k + 1, n + 1 + q)
  BY <1>1, <1>6, LineTrim, ZenonT(60)
<1>9. /\ k + 1 \in 1..n + m + 1 /\ n + 1 + q \in 1..n + m + 1
      /\ k + 1 <= n + 1 /\ n + 1 <= n + 1 + q
      /\ p + 1 = (n + 1) - (k + 1) + 1
  BY <1>7, <1>8
<1>10. \E first, last \in 1..n + m + 1 :
          /\ first <= n + 1 /\ n + 1 <= last
          /\ LineOf(w, v) = SubSeq(LineOf(u, r), first, last)
          /\ p + 1 = (n + 1) - first + 1
  BY <1>4, <1>5, <1>8, <1>9
<1> QED
  BY <1>1, <1>6, <1>7, <1>10

\* LoweredLine as a step, or everything is forgotten.
LEMMA Lowers ==
    ASSUME NEW s \in Stacks, undo[s] \in Seq(Entries), redo[s] \in Seq(Entries),
           Joins(undo[s], redo[s]), NEW limit \in Nat,
           undo'[s] = LastOf(undo[s], limit), redo'[s] = LastOf(redo[s], limit)
    PROVE  EditStep(s)
<1>1. CASE undo'[s] = <<>> /\ redo'[s] = <<>>
  BY <1>1, Forgets
<1>2. CASE undo'[s] # <<>> \/ redo'[s] # <<>>
  <2>1. \E oldest, newest \in DOMAIN Timeline(s) : Edits(s)!Lower(oldest, newest)
    <3>1. PICK oldest, newest \in DOMAIN LineOf(undo[s], redo[s]) :
             /\ oldest <= Len(undo[s]) + 1 /\ Len(undo[s]) + 1 <= newest
             /\ LineOf(LastOf(undo[s], limit), LastOf(redo[s], limit))
                  = SubSeq(LineOf(undo[s], redo[s]), oldest, newest)
             /\ Len(LastOf(undo[s], limit)) + 1 = (Len(undo[s]) + 1) - oldest + 1
      <4>1. LastOf(undo[s], limit) # <<>> \/ LastOf(redo[s], limit) # <<>>
        BY <1>2
      <4> QED
        BY <4>1, LoweredLine, Zenon
    <3>2. /\ Timeline(s) = LineOf(undo[s], redo[s])
          /\ Timeline(s)' = LineOf(undo'[s], redo'[s])
      BY TimelineIsLine
    <3>3. /\ Timeline(s)' = SubSeq(Timeline(s), oldest, newest)
          /\ Len(undo'[s]) + 1 = (Len(undo[s]) + 1) - oldest + 1
      BY <3>1, <3>2, Zenon
    <3>4. Edits(s)!Lower(oldest, newest)
      BY <3>1, <3>3 DEF Edits!Lower
    <3> QED
      BY <3>1, <3>2, <3>4
  <2> QED
    BY <2>1 DEF EditStep, Edits!Next
<1> QED
  BY <1>1, <1>2

-----------------------------------------------------------------------------
(* Every step                                                              *)

\* A commit is one step of the timeline of its stack, and of no other.
LEMMA ExecuteSteps ==
    ASSUME Shape, NEW s \in Stacks, HistoryOf(s), NEW document \in Documents,
           NEW catalog \in Catalogs, NEW baseline \in States, NEW command \in Entries,
           NEW merges \in BOOLEAN, Job(s, "execute", document, catalog, baseline, command),
           CanCommit(document, baseline, Result("execute", command)),
           Publish(document, baseline, Result("execute", command)),
           RecordExecute(s, document, catalog, command, merges)
    PROVE  EditStep(s)
<1>1. /\ undo[s] \in Seq(Entries) /\ redo[s] \in Seq(Entries) /\ history_limit[s] \in Nat
      /\ Joins(undo[s], redo[s])
  BY CommandStackAssumption DEF Shape, HistoryOf
<1>2. /\ documents[document].content = command.before
      /\ documents[document].revision = baseline.revision
  BY PublishHolds DEF Kinds, Source, Result
<1>3. Fits(undo[s], redo[s], command.before)
  <2>1. CASE binding[s] = None
    BY <2>1 DEF HistoryOf, Fits
  <2>2. CASE binding[s] # None
    <3>1. /\ binding[s].document = document
          /\ binding[s].revision = documents[document].revision
      BY <1>2, <2>2 DEF Job
    <3> QED
      BY <1>2, <2>2, <3>1 DEF HistoryOf
  <2> QED
    BY <2>1, <2>2
<1>4. CASE command.after = command.before
  <2>1. redo' = redo
    BY <1>4 DEF RecordExecute
  <2>2. undo' = undo
    <3>1. CASE merges /\ undo[s] # <<>>
      <4>1. Amended(undo[s], command) = undo[s]
        BY <1>1, <1>3, <1>4, <3>1, JoinsAmend DEF Fits
      <4> QED
        BY <1>4, <3>1, <4>1 DEF RecordExecute, Shape
    <3>2. CASE ~(merges /\ undo[s] # <<>>)
      BY <1>4, <3>2 DEF RecordExecute
    <3> QED
      BY <3>1, <3>2
  <2> QED
    BY <2>1, <2>2, SameHistory
<1>5. CASE command.after # command.before /\ history_limit[s] = 0
  <2>1. undo' = undo /\ redo' = [redo EXCEPT ![s] = <<>>]
    BY <1>5 DEF RecordExecute
  <2>2. redo'[s] = redo[s]
    BY <1>5, <2>1 DEF HistoryOf, Shape
  <2> QED
    BY <2>1, <2>2, SameHistory
<1>6. CASE command.after # command.before /\ history_limit[s] # 0
  <2>1. /\ redo'[s] = <<>>
        /\ undo'[s] = IF merges /\ undo[s] # <<>> THEN Amended(undo[s], command)
                      ELSE LastOf(Append(undo[s], command), history_limit[s])
    BY <1>6 DEF RecordExecute, Shape
  <2>2. CASE merges /\ undo[s] # <<>>
    BY <1>1, <2>1, <2>2, Amends
  <2>3. CASE ~(merges /\ undo[s] # <<>>)
    <3>1. undo'[s] = LastOf(Append(undo[s], command), history_limit[s])
      BY <2>1, <2>3
    <3> QED
      BY <1>1, <1>3, <1>6, <2>1, <3>1, Records
  <2> QED
    BY <2>2, <2>3
<1> QED
  BY <1>4, <1>5, <1>6

\* Any commit.
LEMMA CommitSteps ==
    ASSUME Shape, NEW s \in Stacks, HistoryOf(s), NEW kind \in Kinds,
           NEW document \in Documents, NEW catalog \in Catalogs, NEW baseline \in States,
           NEW command \in Entries, NEW merges \in BOOLEAN,
           Job(s, kind, document, catalog, baseline, command),
           Commit(s, kind, document, catalog, baseline, command, merges),
           UNCHANGED history_limit
    PROVE  \A t \in Stacks : EditStep(t)
<1>1. ASSUME NEW t \in Stacks \ {s} PROVE EditStep(t)
  <2>1. undo'[t] = undo[t] /\ redo'[t] = redo[t]
    BY CommitHolds DEF Committed
  <2> QED
    BY <2>1, SameHistory
<1>2. EditStep(s)
  <2>1. CASE kind = "execute"
    BY <2>1, ExecuteSteps DEF Commit, RecordHistory
  <2>2. CASE kind # "execute"
    <3>1. /\ undo[s] \in Seq(Entries) /\ redo[s] \in Seq(Entries)
          /\ Joins(undo[s], redo[s])
      BY DEF Shape, HistoryOf
    <3>2. RecordMove(s, kind, document, catalog)
      BY <2>2 DEF Commit, RecordHistory
    <3>3. CASE kind = "undo"
      <4>1. /\ undo[s] # <<>>
            /\ undo'[s] = Front(undo[s]) /\ redo'[s] = Append(redo[s], Last(undo[s]))
        BY <3>2, <3>3 DEF RecordMove, Shape, Job, Refers
      <4> QED
        BY <3>1, <4>1, StepsBack
    <3>4. CASE kind = "redo"
      <4>1. /\ redo[s] # <<>>
            /\ undo'[s] = Append(undo[s], Last(redo[s])) /\ redo'[s] = Front(redo[s])
        BY <3>2, <3>4 DEF RecordMove, Shape, Job, Refers
      <4> QED
        BY <3>1, <4>1, StepsForward
    <3> QED
      BY <2>2, <3>3, <3>4 DEF Kinds
  <2> QED
    BY <2>1, <2>2
<1> QED
  BY <1>1, <1>2

\* Clear and SetHistoryLimit rewrite one history; what else there is to a step
\* are the commits.
LEMMA StepIsEdit == Inv /\ [Next]_vars => [\A s \in Stacks : EditStep(s)]_vars
<1> SUFFICES ASSUME Inv, Next PROVE \A s \in Stacks : EditStep(s)
  OBVIOUS
<1>1. /\ Shape
      /\ \A s \in Stacks : /\ undo[s] \in Seq(Entries) /\ redo[s] \in Seq(Entries)
                           /\ HistoryOf(s) /\ Joins(undo[s], redo[s])
  BY DEF Inv, Shape, Histories, HistoryOf
<1>2. ASSUME NEW call \in Frames, call = Top, active # <<>>, NEW merges \in BOOLEAN,
             UNCHANGED history_limit,
             Commit(call.stack, call.kind, call.document, call.catalog, call.baseline,
                    call.command, merges)
      PROVE  \A s \in Stacks : EditStep(s)
  <2>1. /\ call.stack \in Stacks /\ call.kind \in Kinds /\ call.document \in Documents
        /\ call.catalog \in Catalogs /\ call.baseline \in States /\ call.command \in Entries
    BY DEF Frames
  <2>2. Job(call.stack, call.kind, call.document, call.catalog, call.baseline, call.command)
    BY <1>2, TopCall DEF CallOf, JobOf
  <2> QED
    BY <1>1, <1>2, <2>1, <2>2, CommitSteps
<1>3. ASSUME NEW s \in Stacks, pending[s] # None, NEW merges \in BOOLEAN,
             CommitPending(s, merges), UNCHANGED history_limit
      PROVE  \A t \in Stacks : EditStep(t)
  <2>1. PICK job : job = pending[s]
    OBVIOUS
  <2>2. job \in Pendings /\ JobOf(s, job)
    BY <1>3, <2>1 DEF Inv, Shape, Waiting
  <2>3. Commit(s, job.kind, job.document, job.catalog, job.baseline, job.command, merges)
    BY <1>3, <2>1 DEF CommitPending
  <2>4. /\ job.kind \in Kinds /\ job.document \in Documents /\ job.catalog \in Catalogs
        /\ job.baseline \in States /\ job.command \in Entries
    BY <2>2 DEF Pendings
  <2>5. Job(s, job.kind, job.document, job.catalog, job.baseline, job.command)
    BY <2>2 DEF JobOf
  <2> QED
    BY <1>1, <1>3, <2>3, <2>4, <2>5, CommitSteps
<1>4. CASE Restored
  <2>1. PICK call : call = Top
    OBVIOUS
  <2>2. active # <<>> /\ call \in Frames /\ call.kind = "undo"
    BY <1>4, <2>1, TopCall DEF Restored, At, CallOf
  <2>3. /\ Commit(call.stack, call.kind, call.document, call.catalog, call.baseline,
                  call.command, FALSE)
        /\ UNCHANGED history_limit
    BY <1>4, <2>1, <2>2 DEF Restored
  <2> QED
    BY <1>2, <2>1, <2>2, <2>3
<1>5. ASSUME NEW merges \in BOOLEAN, Allowed(merges) PROVE \A s \in Stacks : EditStep(s)
  <2>1. PICK call : call = Top
    OBVIOUS
  <2>2. active # <<>> /\ call \in Frames
    BY <1>5, <2>1, TopCall DEF Allowed, At
  <2>3. /\ Commit(call.stack, call.kind, call.document, call.catalog, call.baseline,
                  call.command, merges)
        /\ UNCHANGED history_limit
    BY <1>5, <2>1 DEF Allowed
  <2> QED
    BY <1>2, <2>1, <2>2, <2>3
<1>6. ASSUME NEW merges \in BOOLEAN, Reauthorized(merges)
      PROVE  \A s \in Stacks : EditStep(s)
  <2>1. PICK s : s = Top.stack
    OBVIOUS
  <2>2. s \in Stacks /\ pending[s] # None
    BY <1>6, <2>1, TopCall DEF Reauthorized, At, CallOf, Matches, Frames
  <2>3. CommitPending(s, merges) /\ UNCHANGED history_limit
    BY <1>6, <2>1 DEF Reauthorized
  <2> QED
    BY <1>3, <2>2, <2>3
<1>7. ASSUME NEW s \in Stacks, NEW id, NEW document \in Documents, NEW merges \in BOOLEAN,
             Resume(s, id, document, merges)
      PROVE  \A t \in Stacks : EditStep(t)
  <2>1. pending[s] # None /\ CommitPending(s, merges) /\ UNCHANGED history_limit
    BY <1>7 DEF Resume, MayResume, MayResumeWhileBusy
  <2> QED
    BY <1>3, <2>1
<1>8. ASSUME NEW s \in Stacks, Clear(s), NEW t \in Stacks PROVE EditStep(t)
  <2>1. CASE t = s
    BY <1>8, <2>1, Forgets DEF Clear, Inv, Shape
  <2>2. CASE t # s
    BY <1>8, <2>2, SameHistory DEF Clear, Inv, Shape
  <2> QED
    BY <2>1, <2>2
<1>9. ASSUME NEW s \in Stacks, NEW limit \in Limits, SetHistoryLimit(s, limit),
             NEW t \in Stacks
      PROVE  EditStep(t)
  <2>1. CASE t = s
    <3>1. undo'[s] = LastOf(undo[s], limit) /\ redo'[s] = LastOf(redo[s], limit)
      BY <1>9 DEF SetHistoryLimit, Inv, Shape
    <3>2. limit \in Nat
      BY CommandStackAssumption
    <3> QED
      BY <1>1, <2>1, <3>1, <3>2, Lowers
  <2>2. CASE t # s
    BY <1>9, <2>2, SameHistory DEF SetHistoryLimit, Inv, Shape
  <2> QED
    BY <2>1, <2>2
<1>10. CASE UNCHANGED <<undo, redo>>
  BY <1>10, SameHistory
<1>11. \/ Restored \/ \E merges \in BOOLEAN : Allowed(merges) \/ Reauthorized(merges)
       \/ \E s \in Stacks, id \in 1..LastDeferredId, document \in Documents,
             merges \in BOOLEAN : Resume(s, id, document, merges)
       \/ \E s \in Stacks : Clear(s) \/ \E limit \in Limits : SetHistoryLimit(s, limit)
       \/ UNCHANGED <<undo, redo>>
  BY ZenonT(60) DEF Next, Execute, Undo, Redo, Enter, Fail, Staged, Replaced, MakeCommand, Deferred,
         Reauthorize, Cancel, BeginExclusiveOperation, EndExclusiveOperation, AllocateId,
         UpdateRegistry
<1> QED
  BY <1>4, <1>5, <1>6, <1>7, <1>8, <1>9, <1>10, <1>11

\* Whatever its limit and however its commands merge, wait and are resumed, a
\* stack's history is a timeline with a cursor.
THEOREM StackImplementsEditHistory == Spec => ImplementsEditHistory
<1>1. Init => \A s \in Stacks : Edits(s)!Init
  <2> SUFFICES ASSUME Init, NEW s \in Stacks PROVE Edits(s)!Init
    OBVIOUS
  <2>1. undo[s] = <<>> /\ redo[s] = <<>>
    BY DEF Init
  <2> QED
    BY <2>1, EmptyLine, TimelineIsLine DEF Edits!Init
<1>2. Inv /\ [Next]_vars =>
         [\A s \in Stacks : Edits(s)!Next \/ UNCHANGED <<Timeline(s), Len(undo[s])>>]_vars
  BY StepIsEdit DEF EditStep
<1> QED
  BY <1>1, <1>2, StacksStayInOrder, PTL DEF Spec, ImplementsEditHistory
=============================================================================
