---------------------------- MODULE EditHistory ----------------------------
(***************************************************************************)
(* What a CommandStack promises about its history: a timeline of states    *)
(* with a cursor.  An edit cuts the future off and appends a state (or     *)
(* amends the current one), undo and redo move the cursor by one, and      *)
(* only the ends of the timeline are ever dropped.                         *)
(***************************************************************************)
EXTENDS Naturals, Sequences

CONSTANT Contents  \* the states a document can have

VARIABLES timeline, cursor

Init == timeline = <<>> /\ cursor = 1

Past == SubSeq(timeline, 1, cursor)

\* A changed command; the oldest states may fall off the front.
Record(before, after) ==
    LET kept == Append(IF timeline = <<>> THEN <<before>> ELSE Past, after)
    IN  \E first \in 1..cursor :
            /\ timeline' = SubSeq(kept, first, cursor + 1)
            /\ cursor' = cursor + 2 - first

\* A command merged into the last one.
Amend(after) ==
    /\ cursor > 1
    /\ timeline' = [Past EXCEPT ![cursor] = after]
    /\ UNCHANGED cursor

StepBack == cursor > 1 /\ cursor' = cursor - 1 /\ UNCHANGED timeline
StepForward ==
    cursor < Len(timeline) /\ cursor' = cursor + 1 /\ UNCHANGED timeline

\* A lower limit drops states at both ends, never the current one.
Lower(first, last) ==
    /\ first <= cursor /\ cursor <= last
    /\ timeline' = SubSeq(timeline, first, last)
    /\ cursor' = cursor - first + 1

Forget == timeline' = <<>> /\ cursor' = 1

Next ==
    \/ \E before, after \in Contents : Record(before, after)
    \/ \E after \in Contents : Amend(after)
    \/ StepBack \/ StepForward \/ Forget
    \/ \E first, last \in DOMAIN timeline : Lower(first, last)

Spec == Init /\ [][Next]_<<timeline, cursor>>
=============================================================================
