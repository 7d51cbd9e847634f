---------------------------- MODULE CommandQueue ----------------------------
(***************************************************************************)
(* What UiDispatcher promises the threads that post to it, without wake    *)
(* events, batches or locks: accepted commands form one FIFO of at most    *)
(* MaxPending entries, each of them leaves it exactly once, executed while *)
(* the dispatcher is open or cancelled after it closed, and a command that *)
(* was not accepted is never heard of again.                               *)
(***************************************************************************)
EXTENDS Naturals, Sequences

CONSTANTS MaxTickets,  \* tickets 1..MaxTickets exist
          MaxPending   \* UiCommandQueueConfig::max_pending

VARIABLES queue,    \* accepted commands that did not run yet, oldest first
          outcome,  \* "none", "executed" or "cancelled", per ticket
          accepted, \* tickets ever accepted
          closed

vars == <<queue, outcome, accepted, closed>>

Tickets == 1..MaxTickets

Init ==
    /\ queue = <<>>
    /\ outcome = [t \in Tickets |-> "none"]
    /\ accepted = {}
    /\ closed = FALSE

Accept(t) ==
    /\ ~closed
    /\ t \notin accepted
    /\ Len(queue) < MaxPending
    /\ queue' = Append(queue, t)
    /\ accepted' = accepted \cup {t}
    /\ UNCHANGED <<outcome, closed>>

Leave(reason) ==
    /\ queue # <<>>
    /\ outcome[Head(queue)] = "none"
    /\ outcome' = [outcome EXCEPT ![Head(queue)] = reason]
    /\ queue' = Tail(queue)
    /\ UNCHANGED <<accepted, closed>>

Execute == ~closed /\ Leave("executed")

Cancel == closed /\ Leave("cancelled")

Close ==
    /\ ~closed
    /\ closed' = TRUE
    /\ UNCHANGED <<queue, outcome, accepted>>

Next ==
    \/ \E t \in Tickets : Accept(t)
    \/ Execute
    \/ Cancel
    \/ Close

Spec == Init /\ [][Next]_vars
=============================================================================
