-------------------------- MODULE DispatcherProofs --------------------------
(***************************************************************************)
(* The safety of the wake protocol of Dispatcher, for every set of worker  *)
(* threads, every queue and event-queue capacity and every width of the    *)
(* generation counter; then that the dispatcher implements CommandQueue.   *)
(***************************************************************************)
EXTENDS Dispatcher, SequenceTheorems, TLAPS

USE DEF NoTicket, NotArmed, OrdinaryEvent, Ops, Results, Modes, Callbacks,
        UiPoints

\* Sequences stay sequences under the operations of the dispatcher.
LEMMA SeqSteps ==
    ASSUME NEW S, NEW s \in Seq(S)
    PROVE  /\ Len(s) \in Nat
           /\ s # <<>> <=> Len(s) # 0
           /\ \A e \in S : /\ Append(s, e) \in Seq(S)
                          /\ Len(Append(s, e)) = Len(s) + 1
           /\ s # <<>> => /\ Head(s) \in S
                          /\ Tail(s) \in Seq(S)
                          /\ Len(Tail(s)) = Len(s) - 1
  <1>1. Len(s) \in Nat /\ (s # <<>> <=> Len(s) # 0)
    BY EmptySeq, LenProperties
  <1>2. \A e \in S : Append(s, e) \in Seq(S) /\ Len(Append(s, e)) = Len(s) + 1
    BY AppendProperties
  <1>3. s # <<>> => /\ Head(s) \in S
                    /\ Tail(s) \in Seq(S)
                    /\ Len(Tail(s)) = Len(s) - 1
    BY HeadTailProperties
  <1> QED
    BY <1>1, <1>2, <1>3

LEMMA SplitSeq ==
    ASSUME NEW S, NEW s \in Seq(S), NEW n \in 0..Len(s)
    PROVE  /\ SubSeq(s, 1, n) \in Seq(S)
           /\ SubSeq(s, n + 1, Len(s)) \in Seq(S)
           /\ Len(SubSeq(s, 1, n)) = n
           /\ Len(SubSeq(s, n + 1, Len(s))) = Len(s) - n
  <1>1. Len(s) \in Nat /\ \A i \in 1..Len(s) : s[i] \in S
    BY LenProperties, ElementOfSeq
  <1>2. SubSeq(s, 1, n) \in Seq(S) /\ Len(SubSeq(s, 1, n)) = n
    <2>1. 1 \in Int /\ n \in Int /\ \A i \in 1..n : s[i] \in S
      BY <1>1
    <2> QED
      BY <2>1, <1>1, SubSeqProperties
  <1>3. /\ SubSeq(s, n + 1, Len(s)) \in Seq(S)
        /\ Len(SubSeq(s, n + 1, Len(s))) = Len(s) - n
    <2>1. n + 1 \in Int /\ Len(s) \in Int /\ \A i \in (n + 1)..Len(s) : s[i] \in S
      BY <1>1
    <2> QED
      BY <2>1, <1>1, SubSeqProperties
  <1> QED
    BY <1>2, <1>3

LEMMA TypeOKInit == Init => TypeOK
  <1> SUFFICES ASSUME Init PROVE TypeOK
    OBVIOUS
  <1>1. call \in [Threads -> Calls]
    BY DEF Init, NoCall, Calls
  <1>2. /\ commands \in Seq(Tickets) /\ batch \in Seq(Tickets)
        /\ cancelled \in Seq(Tickets) /\ sdl \in Seq(Events)
    BY EmptySeq DEF Init
  <1>3. /\ next_wake_generation \in Generations
        /\ minted \in 0..MaxTickets
        /\ requests \in 0..MaxRequests
        /\ taken \in Events
    BY BoundsAssumption DEF Init, Generations, Events
  <1> QED
    BY <1>1, <1>2, <1>3 DEF Init, TypeOK

\* The parts of the state one call of a mutator may change keep their types.
LEMMA MutateType ==
    ASSUME TypeOK, NEW op \in Ops, NEW ticket,
           op = "post" => ticket \in Tickets, Mutate(op, ticket)
    PROVE  /\ commands' \in Seq(Tickets)
           /\ pending_count' \in Nat
           /\ accepted' \in SUBSET Tickets
           /\ frame_requested' \in BOOLEAN
           /\ exit_requested' \in BOOLEAN
  <1>1. commands' \in Seq(Tickets)
    <2>1. CASE op = "post"
      BY <2>1, SeqSteps DEF Mutate, HasCapacity, TypeOK
    <2>2. CASE op # "post"
      BY <2>2 DEF Mutate, HasCapacity, TypeOK
    <2> QED
      BY <2>1, <2>2
  <1>2. pending_count' \in Nat
    BY DEF Mutate, HasCapacity, TypeOK
  <1>4. accepted' \in SUBSET Tickets
    BY DEF Mutate, HasCapacity, TypeOK
  <1>3. frame_requested' \in BOOLEAN /\ exit_requested' \in BOOLEAN
    BY DEF Mutate, HasCapacity, TypeOK
  <1> QED
    BY <1>1, <1>2, <1>3, <1>4

LEMMA ReturnType ==
    ASSUME TypeOK, NEW t \in Threads, NEW op \in Ops, NEW succeeded \in BOOLEAN,
           Return(t, op, succeeded)
    PROVE  /\ pc' \in [Threads -> {"idle", "schedule", "commit", "waiting"}]
           /\ call' \in [Threads -> Calls]
           /\ ui' \in UiPoints
  <1>1. NoCall \in Calls
    BY DEF NoCall, Calls
  <1> QED
    BY <1>1 DEF Return, TypeOK

LEMMA EnterType ==
    ASSUME TypeOK, NEW t \in Threads, NEW op \in Ops,
           NEW ticket \in Tickets \cup {NoTicket}, Enter(t, op, ticket)
    PROVE  TypeOK'
  <1>1. /\ minted' \in 0..MaxTickets
        /\ requests' \in 0..MaxRequests
        /\ op = "post" => ticket \in Tickets
    BY BoundsAssumption DEF Enter, MayCall, TypeOK, Tickets
  <1>2. CASE ~open /\ Return(t, op, FALSE) /\ UNCHANGED <<shared, accepted>>
    BY <1>1, <1>2, ReturnType DEF Enter, TypeOK, shared, locals
  <1>3. CASE /\ Mutate(op, ticket) /\ Return(t, op, TRUE)
             /\ UNCHANGED <<next_wake_generation, armed_wake_generation, open,
                            wake_scheduling>>
    <2>1. /\ commands' \in Seq(Tickets)
          /\ pending_count' \in Nat
          /\ accepted' \in SUBSET Tickets
          /\ frame_requested' \in BOOLEAN
          /\ exit_requested' \in BOOLEAN
      BY <1>1, <1>3, MutateType
    <2>2. /\ pc' \in [Threads -> {"idle", "schedule", "commit", "waiting"}]
          /\ call' \in [Threads -> Calls]
          /\ ui' \in UiPoints
      BY <1>3, ReturnType
    <2> QED
      BY <1>1, <1>3, <2>1, <2>2 DEF Enter, TypeOK, locals
  <1>4. CASE /\ MutateFails(op) /\ Return(t, op, FALSE)
             /\ UNCHANGED <<next_wake_generation, armed_wake_generation, open,
                            wake_scheduling>>
    BY <1>1, <1>4, ReturnType DEF Enter, TypeOK, locals, MutateFails
  <1>5. CASE /\ ReserveWakeGeneration
             /\ armed_wake_generation' = next_wake_generation
             /\ wake_scheduling' = TRUE
             /\ pc' = [pc EXCEPT ![t] = "schedule"]
             /\ call' = [call EXCEPT ![t] =
                   [op |-> op, ticket |-> ticket,
                    generation |-> next_wake_generation, scheduled |-> FALSE]]
             /\ UNCHANGED <<commands, pending_count, open, frame_requested,
                            exit_requested, ui, accepted>>
    <2>1. next_wake_generation' \in Generations
      BY <1>5, BoundsAssumption DEF ReserveWakeGeneration, TypeOK, Generations
    <2>2. [op |-> op, ticket |-> ticket, generation |-> next_wake_generation,
           scheduled |-> FALSE] \in Calls
      BY DEF TypeOK, Calls
    <2>3. call' \in [Threads -> Calls]
      BY <1>5, <2>2 DEF TypeOK
    <2> QED
      BY <1>1, <1>5, <2>1, <2>3 DEF Enter, TypeOK, locals
  <1> QED
    BY <1>2, <1>3, <1>4, <1>5 DEF Enter

LEMMA CommitType ==
    ASSUME TypeOK, LocalsShape, NEW t \in Threads, Commit(t)
    PROVE  TypeOK'
  <1> DEFINE op == call[t].op
  <1>1. op \in Ops /\ (op = "post" => call[t].ticket \in Tickets)
    BY DEF Commit, LocalsShape, CallShape, Scheduling, TypeOK, Calls
  <1>2. Disarm(call[t].generation)
           => armed_wake_generation' \in Generations \cup {NotArmed}
    BY DEF Disarm, TypeOK
  <1>3. \A succeeded \in BOOLEAN : Return(t, op, succeeded) =>
           /\ pc' \in [Threads -> {"idle", "schedule", "commit", "waiting"}]
           /\ call' \in [Threads -> Calls]
           /\ ui' \in UiPoints
    BY <1>1, ReturnType
  <1> HIDE DEF op
  <1>4. CASE Mutate(op, call[t].ticket) /\ Return(t, op, TRUE)
             /\ UNCHANGED armed_wake_generation
    <2>1. /\ commands' \in Seq(Tickets)
          /\ pending_count' \in Nat
          /\ accepted' \in SUBSET Tickets
          /\ frame_requested' \in BOOLEAN
          /\ exit_requested' \in BOOLEAN
      BY <1>1, <1>4, MutateType
    <2> QED
      BY <1>3, <1>4, <2>1 DEF Commit, TypeOK, locals
  <1>5. CASE MutateFails(op) /\ Disarm(call[t].generation)
             /\ Return(t, op, FALSE)
    BY <1>2, <1>3, <1>5 DEF Commit, TypeOK, locals, MutateFails
  <1>6. CASE /\ Disarm(call[t].generation) /\ Return(t, op, FALSE)
             /\ UNCHANGED <<commands, pending_count, frame_requested,
                            exit_requested, accepted>>
    BY <1>2, <1>3, <1>6 DEF Commit, TypeOK, locals
  <1> QED
    BY <1>4, <1>5, <1>6 DEF Commit, op

LEMMA ScheduleWakeType ==
    ASSUME TypeOK, LocalsShape, NEW t \in Threads, ScheduleWake(t)
    PROVE  TypeOK'
  <1>1. call[t].generation \in Events
    BY DEF ScheduleWake, LocalsShape, CallShape, Scheduling, Events
  <1>2. pc' \in [Threads -> {"idle", "schedule", "commit", "waiting"}]
    BY DEF ScheduleWake, TypeOK
  <1>3. CASE sdl' = Append(sdl, call[t].generation)
             /\ call' = [call EXCEPT ![t].scheduled = TRUE]
    <2>1. sdl' \in Seq(Events)
      BY <1>1, <1>3, SeqSteps DEF TypeOK
    <2>2. [call[t] EXCEPT !.scheduled = TRUE] \in Calls
      BY DEF TypeOK, Calls
    <2>3. call' \in [Threads -> Calls]
      BY <1>3, <2>2 DEF TypeOK
    <2> QED
      BY <1>2, <2>1, <2>3 DEF ScheduleWake, TypeOK, shared, locals
  <1>4. CASE UNCHANGED <<sdl, call>>
    BY <1>2, <1>4 DEF ScheduleWake, TypeOK, shared, locals
  <1> QED
    BY <1>3, <1>4 DEF ScheduleWake

LEMMA WaitType ==
    ASSUME TypeOK, NEW t \in Threads,
           WaitReturns(t) \/ \E ticket \in Tickets : Wait(t, ticket)
    PROVE  TypeOK'
  <1>1. ASSUME WaitReturns(t) PROVE TypeOK'
    <2>1. NoCall \in Calls
      BY DEF NoCall, Calls
    <2>2. call' \in [Threads -> Calls]
      BY <1>1, <2>1 DEF WaitReturns, TypeOK
    <2> QED
      BY <1>1, <2>2 DEF WaitReturns, TypeOK, shared, locals
  <1>2. ASSUME NEW ticket \in Tickets, Wait(t, ticket) PROVE TypeOK'
    <2>1. [call[t] EXCEPT !.ticket = ticket] \in Calls
      BY DEF TypeOK, Calls
    <2>2. call' \in [Threads -> Calls]
      BY <1>2, <2>1 DEF Wait, TypeOK
    <2> QED
      BY <1>2, <2>2 DEF Wait, TypeOK, shared, locals
  <1> QED
    BY <1>1, <1>2

\* The steps of the UI thread, outside its calls of MutateAndArm.
LEMMA UiStepType ==
    ASSUME TypeOK, LocalsShape, PendingCountExact, UiStep \/ Input
    PROVE  TypeOK'
  <1>1. ASSUME Input PROVE TypeOK'
    <2>1. sdl' \in Seq(Events)
      BY <1>1, SeqSteps DEF Input, TypeOK, Events
    <2> QED
      BY <1>1, <2>1 DEF Input, TypeOK, shared, locals
  <1>2. ASSUME Awake PROVE TypeOK'
    BY <1>2 DEF Awake, TypeOK, shared, locals
  <1>3. ASSUME TakeEvent PROVE TypeOK'
    <2>1. sdl' \in Seq(Events) /\ taken' \in Events
      BY <1>3, SeqSteps DEF TakeEvent, TypeOK
    <2> QED
      BY <1>3, <2>1 DEF TakeEvent, TypeOK, shared
  <1>4. ASSUME ConsumeDispatcherWakeEvent PROVE TypeOK'
    BY <1>4 DEF ConsumeDispatcherWakeEvent, Disarm, TypeOK, Events
  <1>5. ASSUME DispatchEvent PROVE TypeOK'
    BY <1>5 DEF DispatchEvent, TypeOK, locals
  <1>6. ASSUME Drain PROVE TypeOK'
    <2>1. batch' \in Seq(Tickets) /\ commands' \in Seq(Tickets)
      <3>1. Watermark \in 0..Len(commands)
        BY BoundsAssumption, SeqSteps DEF Watermark, TypeOK
      <3>2. /\ SubSeq(commands, 1, Watermark) \in Seq(Tickets)
            /\ SubSeq(commands, Watermark + 1, Len(commands)) \in Seq(Tickets)
        BY <3>1, SplitSeq DEF TypeOK
      <3> QED
        BY <1>6, <3>2 DEF Drain, MayEnter, TypeOK
    <2> QED
      BY <1>6, <2>1 DEF Drain, MayEnter, TypeOK
  <1>7. ASSUME RetireCommand PROVE TypeOK'
    <2>1. batch # <<>>
      BY <1>7 DEF RetireCommand, LocalsShape, CallShape
    <2>2. /\ batch' \in Seq(Tickets) /\ finishing' \in Tickets
          /\ Len(batch) \in Nat \ {0}
      BY <1>7, <2>1, SeqSteps DEF RetireCommand, TypeOK
    <2>3. pending_count' \in Nat
      BY <1>7, <2>2, SeqSteps DEF RetireCommand, PendingCountExact, TypeOK
    <2> QED
      BY <1>7, <2>2, <2>3 DEF RetireCommand, TypeOK
  <1>8. ASSUME CompleteCommand PROVE TypeOK'
    <2>1. result' \in [Tickets -> Results]
      BY <1>8 DEF CompleteCommand, CompleteTicket, TypeOK
    <2> QED
      BY <1>8, <2>1 DEF CompleteCommand, TypeOK, shared
  <1>9. ASSUME Requeue PROVE TypeOK'
    <2>1. commands' \in Seq(Tickets) /\ batch' \in Seq(Tickets)
      BY <1>9, ConcatProperties, EmptySeq DEF Requeue, Requeued, TypeOK
    <2> QED
      BY <1>9, <2>1 DEF Requeue, Requeued, TypeOK
  <1>10. ASSUME NothingPending PROVE TypeOK'
    BY <1>10 DEF NothingPending, TypeOK, shared, locals
  <1>11. ASSUME ConsumeFrameRequest PROVE TypeOK'
    BY <1>11 DEF ConsumeFrameRequest, TypeOK, locals
  <1>12. ASSUME ConsumeExitRequest PROVE TypeOK'
    BY <1>12 DEF ConsumeExitRequest, TypeOK
  <1>13. ASSUME Render PROVE TypeOK'
    BY <1>13, ZenonT(60) DEF Render, TypeOK, locals
  <1>14. ASSUME FinishTick PROVE TypeOK'
    <2>1. mode' \in Modes
      BY <1>14 DEF FinishTick
    <2> QED
      BY <1>14, <2>1 DEF FinishTick, TypeOK, shared
  <1>15. ASSUME CloseDispatcher PROVE TypeOK'
    <2>1. pending_count' \in Nat
      BY <1>15, SeqSteps DEF CloseDispatcher, DropRequests, PendingCountExact, TypeOK
    <2>2. commands' \in Seq(Tickets) /\ cancelled' \in Seq(Tickets)
      BY <1>15, EmptySeq DEF CloseDispatcher, DropRequests, TypeOK
    <2> QED
      BY <1>15, <2>1, <2>2 DEF CloseDispatcher, DropRequests, TypeOK
  <1>16. ASSUME CancelCommand PROVE TypeOK'
    <2>1. result' \in [Tickets -> Results]
      BY <1>16 DEF CancelCommand, CompleteTicket, TypeOK
    <2>2. cancelled' \in Seq(Tickets)
      BY <1>16, SeqSteps, ZenonT(60) DEF CancelCommand, TypeOK
    <2> QED
      BY <1>16, <2>1, <2>2 DEF CancelCommand, TypeOK, shared
  <1> QED
    BY <1>1, <1>2, <1>3, <1>4, <1>5, <1>6, <1>7, <1>8, <1>9, <1>10, <1>11,
       <1>12, <1>13, <1>14, <1>15, <1>16 DEF UiStep

LEMMA EnterShape ==
    ASSUME TypeOK, LocalsShape, NEW t \in Threads, NEW op \in Ops,
           NEW ticket \in Tickets \cup {NoTicket}, Enter(t, op, ticket)
    PROVE  LocalsShape'
  <1>1. /\ t \in Threads /\ (op = "post" => ticket \in Tickets)
        /\ (t = UI => ui \in Callbacks \cup {"rearm"})
        /\ (op = "arm" => t = UI /\ ui = "rearm")
        /\ (t = UI /\ ui = "rearm" => op = "arm")
    BY BoundsAssumption DEF Enter, MayCall, TypeOK, Tickets
  <1>2. UNCHANGED locals
    BY DEF Enter
  <1>3. CASE \E succeeded \in BOOLEAN : Return(t, op, succeeded)
    <2>1. \A u \in Threads : Scheduling(u)' =>
             u # t /\ Scheduling(u) /\ call'[u] = call[u]
      BY <1>3 DEF Return, Scheduling, TypeOK
    <2>2. op # "arm" => ui' = ui
      BY <1>3 DEF Return
    <2>3. op = "arm" => ui' \in {"frame", "close"}
      BY <1>3 DEF Return
    <2>4. \A u \in Threads : CallShape(u)'
      BY <1>1, <2>1, <2>2, <2>3 DEF CallShape, LocalsShape, Scheduling
    <2> QED
      BY <1>1, <1>2, <2>2, <2>3, <2>4 DEF LocalsShape, CallShape, locals
  <1>4. CASE /\ pc' = [pc EXCEPT ![t] = "schedule"]
             /\ call' = [call EXCEPT ![t] =
                   [op |-> op, ticket |-> ticket,
                    generation |-> next_wake_generation, scheduled |-> FALSE]]
             /\ ui' = ui
    <2>1. \A u \in Threads \ {t} : pc'[u] = pc[u] /\ call'[u] = call[u]
      BY <1>4 DEF TypeOK
    <2>2. call'[t] = [op |-> op, ticket |-> ticket,
                      generation |-> next_wake_generation, scheduled |-> FALSE]
      BY <1>4 DEF TypeOK
    <2>3. CallShape(t)'
      BY <1>1, <1>4, <2>2 DEF CallShape, Scheduling, TypeOK
    <2>4. \A u \in Threads \ {t} : CallShape(u)'
      BY <1>4, <2>1 DEF CallShape, LocalsShape, Scheduling
    <2> QED
      BY <1>2, <1>4, <2>3, <2>4 DEF LocalsShape, CallShape, locals
  <1> QED
    BY <1>3, <1>4 DEF Enter

LEMMA CommitShape ==
    ASSUME TypeOK, LocalsShape, NEW t \in Threads, Commit(t)
    PROVE  LocalsShape'
  <1> DEFINE op == call[t].op
  <1>1. PICK succeeded \in BOOLEAN : Return(t, op, succeeded)
    BY DEF Commit
  <1>2. UNCHANGED locals
    BY DEF Commit
  <1>3. op = "arm" => t = UI /\ ui = "rearm"
    BY DEF Commit, LocalsShape, CallShape, Scheduling
  <1>4. t = UI => ui \in Callbacks \cup {"rearm"}
    BY DEF Commit, LocalsShape, CallShape, Scheduling
  <1> HIDE DEF op
  <1>5. \A u \in Threads : Scheduling(u)' =>
           u # t /\ Scheduling(u) /\ call'[u] = call[u]
    BY <1>1 DEF Return, Scheduling, TypeOK
  <1>6. op # "arm" => ui' = ui
    BY <1>1 DEF Return
  <1>7. op = "arm" => ui' \in {"frame", "close"}
    BY <1>1 DEF Return
  <1>8. \A u \in Threads : CallShape(u)'
    BY <1>3, <1>5, <1>6, <1>7 DEF CallShape, LocalsShape, Scheduling
  <1> QED
    BY <1>2, <1>3, <1>4, <1>6, <1>7, <1>8 DEF LocalsShape, CallShape, locals

LEMMA OtherCallShape ==
    ASSUME TypeOK, LocalsShape, NEW t \in Threads,
           \/ ScheduleWake(t) \/ WaitReturns(t)
           \/ \E ticket \in Tickets : Wait(t, ticket)
    PROVE  LocalsShape'
  <1>1. UNCHANGED <<ui, locals>>
    BY DEF ScheduleWake, WaitReturns, Wait
  <1>2. \A u \in Threads : Scheduling(u)' =>
           /\ Scheduling(u)
           /\ call'[u].op = call[u].op
           /\ call'[u].ticket = call[u].ticket
           /\ call'[u].generation = call[u].generation
    <2>1. ASSUME ScheduleWake(t), NEW u \in Threads, Scheduling(u)'
          PROVE  /\ Scheduling(u)
                 /\ call'[u].op = call[u].op
                 /\ call'[u].ticket = call[u].ticket
                 /\ call'[u].generation = call[u].generation
      <3>1. u # t => call'[u] = call[u] /\ pc'[u] = pc[u]
        BY <2>1 DEF ScheduleWake, TypeOK
      <3>2. call'[t] = call[t] \/ call'[t] = [call[t] EXCEPT !.scheduled = TRUE]
        BY <2>1 DEF ScheduleWake, TypeOK
      <3> QED
        BY <2>1, <3>1, <3>2 DEF ScheduleWake, Scheduling, TypeOK, Calls
    <2>2. ASSUME WaitReturns(t) \/ \E ticket \in Tickets : Wait(t, ticket),
                 NEW u \in Threads, Scheduling(u)'
          PROVE  Scheduling(u) /\ call'[u] = call[u]
      BY <2>2 DEF WaitReturns, Wait, Scheduling, TypeOK
    <2> QED
      BY <2>1, <2>2
  <1>3. \A u \in Threads : CallShape(u)'
    BY <1>1, <1>2 DEF CallShape, LocalsShape
  <1> QED
    BY <1>1, <1>3 DEF LocalsShape, CallShape, locals

\* The UI thread takes its own steps only outside MutateAndArm.
LEMMA UiStepIdle ==
    ASSUME TypeOK, LocalsShape, UiStep \/ Input
    PROVE  /\ UNCHANGED <<pc, call, wake_scheduling, next_wake_generation,
                          minted, requests, accepted>>
           /\ \A t \in Threads : Scheduling(t) => t # UI
  <1>1. UNCHANGED <<pc, call, wake_scheduling, next_wake_generation, minted,
                    requests, accepted>>
    BY DEF UiStep, Input, Awake, TakeEvent, ConsumeDispatcherWakeEvent,
           DispatchEvent, Drain, MayEnter, RetireCommand, CompleteCommand, Requeue, Requeued,
           NothingPending, ConsumeFrameRequest, ConsumeExitRequest, Render,
           FinishTick, CloseDispatcher, DropRequests, CancelCommand, shared, locals
  <1>2. ui \in Callbacks \cup {"rearm"} => pc[UI] = "idle"
    BY DEF UiStep, Input, Awake, TakeEvent, ConsumeDispatcherWakeEvent,
           DispatchEvent, Drain, MayEnter, RetireCommand, CompleteCommand, Requeue, Requeued,
           NothingPending, ConsumeFrameRequest, ConsumeExitRequest, Render,
           FinishTick, CloseDispatcher, DropRequests, CancelCommand
  <1> QED
    BY <1>1, <1>2 DEF LocalsShape, CallShape, Scheduling

LEMMA UiStepShape ==
    ASSUME TypeOK, LocalsShape, UiStep \/ Input
    PROVE  LocalsShape'
  <1>1. \A t \in Threads : CallShape(t)'
    <2>1. UNCHANGED <<pc, call>> /\ \A t \in Threads : Scheduling(t) => t # UI
      BY UiStepIdle
    <2> QED
      BY <2>1 DEF LocalsShape, CallShape, Scheduling
  <1> DEFINE Shape == /\ ui = "execute" => batch # <<>>
                      /\ batch # <<>> => ui \in {"execute", "complete", "requeue"}
                      /\ taken # OrdinaryEvent => ui = "consume"
                      /\ finishing # NoTicket => ui = "complete"
  <1>2. Shape
    BY DEF LocalsShape, CallShape
  <1>3. Shape'
    <2>1. ASSUME Drain PROVE Shape'
      <3>1. Watermark \in 0..Len(commands)
            /\ (commands # <<>> => Watermark # 0)
            /\ (commands = <<>> => Watermark = 0)
        BY BoundsAssumption, SeqSteps DEF Watermark, TypeOK
      <3>2. /\ SubSeq(commands, 1, Watermark) \in Seq(Tickets)
            /\ Len(SubSeq(commands, 1, Watermark)) = Watermark
        BY <3>1, SplitSeq DEF TypeOK
      <3>3. SubSeq(commands, 1, Watermark) # <<>> <=> commands # <<>>
        BY <3>1, <3>2, SeqSteps
      <3> QED
        BY <2>1, <3>3, <1>2 DEF Drain, MayEnter
    <2>2. ASSUME Input \/ Awake \/ TakeEvent \/ ConsumeDispatcherWakeEvent
                 \/ DispatchEvent
          PROVE  Shape'
      BY <2>2, <1>2 DEF Input, Awake, TakeEvent, ConsumeDispatcherWakeEvent,
                        DispatchEvent, locals
    <2>3. ASSUME RetireCommand PROVE Shape'
      BY <2>3, <1>2 DEF RetireCommand
    <2>4. ASSUME CompleteCommand \/ Requeue \/ NothingPending PROVE Shape'
      BY <2>4, <1>2 DEF CompleteCommand, Requeue, Requeued, NothingPending, locals
    <2>5. ASSUME ConsumeFrameRequest \/ ConsumeExitRequest \/ Render
                 \/ FinishTick \/ CloseDispatcher \/ CancelCommand
          PROVE  Shape'
      BY <2>5, <1>2 DEF ConsumeFrameRequest, ConsumeExitRequest, Render,
                        FinishTick, CloseDispatcher, DropRequests, CancelCommand, locals
    <2> QED
      BY <2>1, <2>2, <2>3, <2>4, <2>5 DEF UiStep
  <1> QED
    BY <1>1, <1>3 DEF LocalsShape, CallShape

\* pending_count through every step.
LEMMA PendingCountStep ==
    ASSUME TypeOK, LocalsShape, PendingCountExact, Next
    PROVE  PendingCountExact'
  <1>1. ASSUME NEW op \in Ops, NEW ticket \in Tickets \cup {NoTicket},
               op = "post" => ticket \in Tickets,
               Mutate(op, ticket), UNCHANGED batch
        PROVE  PendingCountExact'
    <2>1. op = "post" => Len(commands') = Len(commands) + 1
      BY <1>1, SeqSteps DEF Mutate, HasCapacity, TypeOK
    <2>2. op # "post" => commands' = commands
      BY <1>1 DEF Mutate, HasCapacity
    <2> QED
      BY <1>1, <2>1, <2>2, BoundsAssumption, SeqSteps
         DEF Mutate, HasCapacity, PendingCountExact, TypeOK
  <1>2. ASSUME NEW t \in Threads, CallStep(t) PROVE PendingCountExact'
    <2>1. ASSUME NEW op \in Ops, NEW ticket \in Tickets \cup {NoTicket},
                 Enter(t, op, ticket)
          PROVE  PendingCountExact'
      <3>1. op = "post" => ticket \in Tickets
        BY <2>1, BoundsAssumption DEF Enter, MayCall, TypeOK, Tickets
      <3> QED
        BY <2>1, <3>1, <1>1
           DEF Enter, MutateFails, PendingCountExact, shared, locals
    <2>2. ASSUME Commit(t) PROVE PendingCountExact'
      <3>1. /\ call[t].op \in Ops
            /\ call[t].ticket \in Tickets \cup {NoTicket}
            /\ call[t].op = "post" => call[t].ticket \in Tickets
        BY <2>2 DEF Commit, LocalsShape, CallShape, Scheduling, TypeOK, Calls
      <3>2. CASE Mutate(call[t].op, call[t].ticket)
        BY <2>2, <3>1, <3>2, <1>1 DEF Commit, locals
      <3>3. CASE UNCHANGED <<commands, pending_count>>
        BY <2>2, <3>3 DEF Commit, PendingCountExact, locals
      <3> QED
        BY <2>2, <3>2, <3>3 DEF Commit, MutateFails
    <2>3. ASSUME ScheduleWake(t) \/ WaitReturns(t) PROVE PendingCountExact'
      BY <2>3 DEF ScheduleWake, WaitReturns, PendingCountExact, shared, locals
    <2> QED
      BY <1>2, <2>1, <2>2, <2>3 DEF CallStep
  <1>3. ASSUME Drain PROVE PendingCountExact'
    <2>1. open => Len(batch) = 0
      BY <1>3, SeqSteps DEF Drain, MayEnter, LocalsShape, CallShape, TypeOK
    <2>2. Watermark \in 0..Len(commands)
      BY BoundsAssumption, SeqSteps DEF Watermark, TypeOK
    <2>3. /\ Len(SubSeq(commands, 1, Watermark)) = Watermark
          /\ Len(SubSeq(commands, Watermark + 1, Len(commands)))
                 = Len(commands) - Watermark
      BY <2>2, SplitSeq DEF TypeOK
    <2>4. open => Len(commands') + Len(batch') = Len(commands)
      BY <1>3, <2>2, <2>3, SeqSteps DEF Drain, MayEnter, TypeOK
    <2>5. Len(commands) \in Nat /\ pending_count' = pending_count
      BY <1>3, SeqSteps DEF Drain, MayEnter, TypeOK
    <2> QED
      BY <1>3, <2>1, <2>4, <2>5 DEF Drain, MayEnter, PendingCountExact
  <1>4. ASSUME RetireCommand PROVE PendingCountExact'
    <2>1. batch # <<>>
      BY <1>4 DEF RetireCommand, LocalsShape, CallShape
    <2>2. Len(batch') = Len(batch) - 1 /\ Len(batch) \in Nat
      BY <1>4, <2>1, SeqSteps DEF RetireCommand, TypeOK
    <2> QED
      BY <1>4, <2>2, BoundsAssumption, SeqSteps
         DEF RetireCommand, PendingCountExact, TypeOK
  <1>5. ASSUME Requeue PROVE PendingCountExact'
    <2>1. Len(commands') = Len(batch) + Len(commands) /\ Len(batch') = 0
      BY <1>5, ConcatProperties, EmptySeq DEF Requeue, Requeued, TypeOK
    <2> QED
      BY <1>5, <2>1, SeqSteps DEF Requeue, Requeued, PendingCountExact, TypeOK
  <1>6. ASSUME CloseDispatcher PROVE PendingCountExact'
    <2>1. batch = <<>> /\ Len(<<>>) = 0
      BY <1>6, EmptySeq DEF CloseDispatcher, DropRequests, LocalsShape, CallShape
    <2> QED
      BY <1>6, <2>1, BoundsAssumption, SeqSteps
         DEF CloseDispatcher, DropRequests, PendingCountExact, TypeOK
  <1>7. ASSUME UNCHANGED <<commands, batch, pending_count>>
        PROVE  PendingCountExact'
    BY <1>7 DEF PendingCountExact
  <1>8. ASSUME \/ Awake \/ TakeEvent \/ ConsumeDispatcherWakeEvent
               \/ DispatchEvent \/ CompleteCommand \/ NothingPending
               \/ ConsumeFrameRequest \/ ConsumeExitRequest \/ Render
               \/ FinishTick \/ CancelCommand \/ Input \/ Terminated
               \/ \E t \in Threads, ticket \in Tickets : Wait(t, ticket)
        PROVE  UNCHANGED <<commands, batch, pending_count>>
    BY <1>8 DEF Awake, TakeEvent, ConsumeDispatcherWakeEvent, DispatchEvent,
                CompleteCommand, NothingPending, ConsumeFrameRequest,
                ConsumeExitRequest, Render, FinishTick, CancelCommand, Input,
                Terminated, Wait, shared, locals, vars
  <1> QED
    BY <1>2, <1>3, <1>4, <1>5, <1>6, <1>7, <1>8 DEF Next, UiStep

\* What a step of a call does to the set of threads that are scheduling: a
\* step inside the call of t, a step that reserves, or none of them.
LEMMA ReturnScheduling ==
    ASSUME TypeOK, NEW t \in Threads, NEW op \in Ops,
           NEW succeeded \in BOOLEAN, Return(t, op, succeeded)
    PROVE  \A u \in Threads :
               /\ Scheduling(u)' <=> (Scheduling(u) /\ u # t)
               /\ u # t => call'[u] = call[u]
  BY DEF Return, Scheduling, TypeOK

LEMMA EnterCases ==
    ASSUME TypeOK, NEW t \in Threads, NEW op \in Ops,
           NEW ticket \in Tickets \cup {NoTicket}, Enter(t, op, ticket)
    PROVE  /\ ~Scheduling(t)
           /\ (op = "arm" => t = UI /\ ui = "rearm")
           /\ ~wake_scheduling \/ ~open
           /\ UNCHANGED <<result, sdl, locals, open>>
           /\ \/ /\ ~open /\ Return(t, op, FALSE)
                 /\ UNCHANGED <<shared, accepted>>
              \/ /\ open /\ armed_wake_generation # NotArmed
                 /\ op = "arm" => Return(t, op, TRUE)
                 /\ \E succeeded \in BOOLEAN : Return(t, op, succeeded)
                 /\ UNCHANGED <<armed_wake_generation, wake_scheduling>>
              \/ /\ open /\ armed_wake_generation = NotArmed
                 /\ armed_wake_generation' = next_wake_generation
                 /\ wake_scheduling' = TRUE
                 /\ pc' = [pc EXCEPT ![t] = "schedule"]
                 /\ call'[t] = [op |-> op, ticket |-> ticket,
                                generation |-> next_wake_generation,
                                scheduled |-> FALSE]
                 /\ \A u \in Threads \ {t} : call'[u] = call[u]
                 /\ UNCHANGED <<commands, frame_requested, exit_requested, ui>>
  BY DEF Enter, MayCall, MayEnter, Scheduling, TypeOK, shared, MutateFails

LEMMA CommitCases ==
    ASSUME TypeOK, NEW t \in Threads, Commit(t)
    PROVE  /\ Scheduling(t)
           /\ wake_scheduling' = FALSE
           /\ UNCHANGED <<open, sdl, taken, mode>>
           /\ \/ /\ open /\ call[t].scheduled
                 /\ Mutate(call[t].op, call[t].ticket)
                 /\ Return(t, call[t].op, TRUE)
                 /\ UNCHANGED armed_wake_generation
              \/ /\ Disarm(call[t].generation)
                 /\ Return(t, call[t].op, FALSE)
                 /\ UNCHANGED <<commands, frame_requested, exit_requested>>
  BY DEF Commit, Scheduling, locals, MutateFails

LEMMA QuietCallCases ==
    ASSUME TypeOK, NEW t \in Threads,
           \/ ScheduleWake(t) \/ WaitReturns(t)
           \/ \E ticket \in Tickets : Wait(t, ticket)
    PROVE  /\ UNCHANGED <<shared, ui, locals>>
           /\ \A u \in Threads :
                 /\ Scheduling(u)' <=> Scheduling(u)
                 /\ Scheduling(u) => call'[u].generation = call[u].generation
                 /\ Scheduling(u) /\ u # t => call'[u] = call[u]
           /\ \/ Scheduling(t) /\ sdl' = Append(sdl, call[t].generation)
              \/ UNCHANGED sdl /\ \A u \in Threads : Scheduling(u) => call'[u] = call[u]
  <1>1. ASSUME ScheduleWake(t), sdl' = Append(sdl, call[t].generation),
               call' = [call EXCEPT ![t].scheduled = TRUE]
        PROVE  /\ Scheduling(t)
               /\ \A u \in Threads :
                     /\ Scheduling(u)' <=> Scheduling(u)
                     /\ Scheduling(u) => call'[u].generation = call[u].generation
                     /\ Scheduling(u) /\ u # t => call'[u] = call[u]
    <2>1. call'[t] = [call[t] EXCEPT !.scheduled = TRUE]
      BY <1>1 DEF TypeOK
    <2>2. call'[t].generation = call[t].generation
      BY <2>1 DEF TypeOK, Calls
    <2>3. \A u \in Threads \ {t} : call'[u] = call[u] /\ pc'[u] = pc[u]
      BY <1>1 DEF ScheduleWake, TypeOK
    <2> QED
      BY <1>1, <2>2, <2>3 DEF ScheduleWake, Scheduling, TypeOK
  <1>2. ASSUME ScheduleWake(t), UNCHANGED <<sdl, call>>
        PROVE  \A u \in Threads : Scheduling(u)' <=> Scheduling(u)
    BY <1>2 DEF ScheduleWake, Scheduling, TypeOK
  <1>3. ASSUME WaitReturns(t) \/ \E ticket \in Tickets : Wait(t, ticket)
        PROVE  /\ UNCHANGED sdl
               /\ \A u \in Threads :
                     /\ Scheduling(u)' <=> Scheduling(u)
                     /\ Scheduling(u) => call'[u] = call[u]
    BY <1>3 DEF WaitReturns, Wait, Scheduling, TypeOK
  <1>4. UNCHANGED <<shared, ui, locals>>
    BY DEF ScheduleWake, WaitReturns, Wait
  <1> QED
    BY <1>1, <1>2, <1>3, <1>4 DEF ScheduleWake

\* wake_scheduling is a lock.
LEMMA OneSchedulerStep ==
    ASSUME TypeOK, LocalsShape, OneScheduler, Next
    PROVE  OneScheduler'
  <1>1. ASSUME NEW t \in Threads, NEW op \in Ops,
               NEW ticket \in Tickets \cup {NoTicket}, Enter(t, op, ticket)
        PROVE  OneScheduler'
    <2>1. CASE \E succeeded \in BOOLEAN : Return(t, op, succeeded)
               /\ UNCHANGED wake_scheduling
      <3>1. open' = open /\ ~Scheduling(t)
        BY <1>1, EnterCases
      <3>2. \A u \in Threads : Scheduling(u)' <=> (Scheduling(u) /\ u # t)
        BY <2>1, ReturnScheduling
      <3>3. \A u \in Threads : Scheduling(u)' <=> Scheduling(u)
        BY <3>1, <3>2
      <3> QED
        BY <2>1, <3>1, <3>3 DEF OneScheduler
    <2>2. CASE /\ wake_scheduling' = TRUE /\ open
               /\ pc' = [pc EXCEPT ![t] = "schedule"]
      <3>1. \A u \in Threads : Scheduling(u)' <=> u = t
        BY <1>1, <2>2, EnterCases DEF OneScheduler, Scheduling, TypeOK
      <3> QED
        BY <1>1, <2>2, <3>1, EnterCases DEF OneScheduler
    <2> QED
      BY <1>1, <2>1, <2>2, EnterCases DEF shared
  <1>2. ASSUME NEW t \in Threads, Commit(t) PROVE OneScheduler'
    <2>1. call[t].op \in Ops
      BY DEF TypeOK, Calls
    <2>2. \A u \in Threads : ~Scheduling(u)'
      BY <1>2, <2>1, CommitCases, ReturnScheduling DEF OneScheduler
    <2> QED
      BY <1>2, <2>2, CommitCases DEF OneScheduler
  <1>3. ASSUME NEW t \in Threads,
               \/ ScheduleWake(t) \/ WaitReturns(t)
               \/ \E ticket \in Tickets : Wait(t, ticket)
        PROVE  OneScheduler'
    BY <1>3, QuietCallCases DEF OneScheduler, shared
  <1>4. ASSUME UiStep \/ Input PROVE OneScheduler'
    <2>1. wake_scheduling => open' = open
      BY <1>4 DEF UiStep, Input, Awake, TakeEvent, ConsumeDispatcherWakeEvent,
                  DispatchEvent, Drain, MayEnter, RetireCommand, CompleteCommand,
                  Requeue, Requeued, NothingPending, ConsumeFrameRequest,
                  ConsumeExitRequest, Render, FinishTick, CloseDispatcher, DropRequests,
                  CancelCommand, shared
    <2> QED
      BY <1>4, <2>1, UiStepIdle DEF OneScheduler, Scheduling
  <1>5. ASSUME Terminated PROVE OneScheduler'
    BY <1>5 DEF Terminated, OneScheduler, Scheduling, vars, shared
  <1> QED
    BY <1>1, <1>2, <1>3, <1>4, <1>5 DEF Next, CallStep

\* Adding an event to the SDL queue keeps every other event there.
LEMMA InFlightAppend ==
    ASSUME TypeOK, NEW event \in Events, sdl' = Append(sdl, event),
           taken' = taken
    PROVE  /\ WakeInFlight(event)'
           /\ \A g : WakeInFlight(g) => WakeInFlight(g)'
  <1>1. /\ Len(sdl) \in Nat
        /\ Len(sdl') = Len(sdl) + 1
        /\ \A i \in 1..Len(sdl) : sdl'[i] = sdl[i]
        /\ sdl'[Len(sdl) + 1] = event
    BY AppendProperties, LenProperties DEF TypeOK
  <1>2. WakeInFlight(event)'
    BY <1>1 DEF WakeInFlight
  <1>3. ASSUME NEW g, WakeInFlight(g) PROVE WakeInFlight(g)'
    BY <1>1, <1>3 DEF WakeInFlight
  <1> QED
    BY <1>2, <1>3

LEMMA InFlightTake ==
    ASSUME TypeOK, taken = OrdinaryEvent, sdl # <<>>, taken' = Head(sdl),
           sdl' = Tail(sdl), NEW g \in Generations, WakeInFlight(g)
    PROVE  WakeInFlight(g)'
  <1>1. PICK i \in 1..Len(sdl) : sdl[i] = g
    BY DEF WakeInFlight, Generations
  <1>2. /\ Len(sdl) \in Nat /\ Len(sdl') = Len(sdl) - 1
        /\ \A j \in 1..Len(sdl') : sdl'[j] = sdl[j + 1]
        /\ Head(sdl) = sdl[1]
    BY HeadTailProperties, LenProperties DEF TypeOK
  <1>3. CASE i = 1
    BY <1>1, <1>2, <1>3 DEF WakeInFlight
  <1>4. CASE i # 1
    <2>1. i - 1 \in 1..Len(sdl') /\ sdl'[i - 1] = g
      BY <1>1, <1>2, <1>4
    <2> QED
      BY <2>1 DEF WakeInFlight
  <1> QED
    BY <1>3, <1>4

\* An armed generation keeps its event.
LEMMA ArmedWakeStep ==
    ASSUME TypeOK, LocalsShape, OneScheduler, ArmedWakeIsInFlight,
           ClosedIsQuiescent, Next
    PROVE  ArmedWakeIsInFlight'
  <1>1. ASSUME NEW t \in Threads, NEW op \in Ops,
               NEW ticket \in Tickets \cup {NoTicket}, Enter(t, op, ticket)
        PROVE  ArmedWakeIsInFlight'
    <2>1. UNCHANGED <<sdl, taken>> /\ ~Scheduling(t)
      BY <1>1, EnterCases DEF locals
    <2>2. CASE /\ \E succeeded \in BOOLEAN : Return(t, op, succeeded)
               /\ UNCHANGED <<armed_wake_generation, wake_scheduling>>
      <3>1. \A u \in Threads : Scheduling(u)' =>
               Scheduling(u) /\ call'[u] = call[u]
        BY <2>2, ReturnScheduling
      <3> QED
        BY <2>1, <2>2, <3>1 DEF ArmedWakeIsInFlight, WakeInFlight
    <2>3. CASE /\ wake_scheduling' = TRUE /\ open
               /\ armed_wake_generation' = next_wake_generation
               /\ pc' = [pc EXCEPT ![t] = "schedule"]
               /\ call'[t] = [op |-> op, ticket |-> ticket,
                              generation |-> next_wake_generation,
                              scheduled |-> FALSE]
      <3>1. ~wake_scheduling
        BY <1>1, <2>3, EnterCases
      <3>2. \A u \in Threads : Scheduling(u)' => u = t
        BY <2>3, <3>1 DEF OneScheduler, Scheduling, TypeOK
      <3> QED
        BY <2>3, <3>2 DEF ArmedWakeIsInFlight
    <2> QED
      BY <1>1, <2>2, <2>3, EnterCases DEF shared
  <1>2. ASSUME NEW t \in Threads, Commit(t) PROVE ArmedWakeIsInFlight'
    <2>1. /\ call[t].op \in Ops /\ Scheduling(t)
          /\ UNCHANGED <<sdl, taken>>
          /\ wake_scheduling' = FALSE
      BY <1>2, CommitCases DEF TypeOK, Calls
    <2>2. \A u \in Threads : ~Scheduling(u)'
      BY <1>2, <2>1, CommitCases, ReturnScheduling DEF OneScheduler
    <2>3. CASE call[t].scheduled /\ UNCHANGED armed_wake_generation
      BY <2>1, <2>2, <2>3 DEF ArmedWakeIsInFlight, WakeInFlight
    <2>4. CASE Disarm(call[t].generation)
      <3>1. armed_wake_generation' = NotArmed
        BY <2>1, <2>4 DEF Disarm, ArmedWakeIsInFlight
      <3> QED
        BY <2>2, <3>1 DEF ArmedWakeIsInFlight
    <2> QED
      BY <1>2, <2>3, <2>4, CommitCases
  <1>3. ASSUME NEW t \in Threads,
               \/ ScheduleWake(t) \/ WaitReturns(t)
               \/ \E ticket \in Tickets : Wait(t, ticket)
        PROVE  ArmedWakeIsInFlight'
    <2>1. /\ UNCHANGED <<armed_wake_generation, wake_scheduling, taken>>
          /\ \A u \in Threads : Scheduling(u)' <=> Scheduling(u)
          /\ \A u \in Threads : Scheduling(u) =>
                 call'[u].generation = call[u].generation
      BY <1>3, QuietCallCases DEF shared, locals
    <2>2. CASE Scheduling(t) /\ sdl' = Append(sdl, call[t].generation)
      <3>1. call[t].generation \in Events
        BY <2>2 DEF LocalsShape, CallShape, Events
      <3>2. /\ WakeInFlight(call[t].generation)'
            /\ \A g : WakeInFlight(g) => WakeInFlight(g)'
        BY <2>1, <2>2, <3>1, InFlightAppend
      <3>3. \A u \in Threads : Scheduling(u) => u = t
        BY <2>2 DEF OneScheduler
      <3>4. wake_scheduling
        BY <2>2 DEF OneScheduler
      <3> QED
        BY <2>1, <2>2, <3>2, <3>3, <3>4 DEF ArmedWakeIsInFlight
    <2>3. CASE /\ UNCHANGED sdl
               /\ \A u \in Threads : Scheduling(u) => call'[u] = call[u]
      BY <2>1, <2>3 DEF ArmedWakeIsInFlight, WakeInFlight
    <2> QED
      BY <1>3, <2>2, <2>3, QuietCallCases
  <1>4. ASSUME UiStep \/ Input,
               \A g \in Generations : WakeInFlight(g) => WakeInFlight(g)',
               UNCHANGED armed_wake_generation
        PROVE  ArmedWakeIsInFlight'
    <2>1. UNCHANGED <<pc, call, wake_scheduling>>
      BY <1>4, UiStepIdle
    <2> QED
      BY <1>4, <2>1 DEF ArmedWakeIsInFlight, Scheduling, TypeOK
  <1>5. ASSUME UiStep, armed_wake_generation' = NotArmed
        PROVE  ArmedWakeIsInFlight'
    BY <1>5 DEF ArmedWakeIsInFlight
  <1>6. ASSUME Input PROVE ArmedWakeIsInFlight'
    <2>1. OrdinaryEvent \in Events /\ sdl' = Append(sdl, OrdinaryEvent)
          /\ UNCHANGED <<taken, armed_wake_generation>>
      BY <1>6 DEF Input, Events, shared, locals
    <2> QED
      BY <1>4, <1>6, <2>1, InFlightAppend
  <1>7. ASSUME TakeEvent PROVE ArmedWakeIsInFlight'
    <2>1. taken = OrdinaryEvent /\ UNCHANGED armed_wake_generation
      BY <1>7 DEF TakeEvent, LocalsShape, CallShape, shared
    <2>2. CASE sdl = <<>>
      BY <1>4, <1>7, <2>1, <2>2 DEF TakeEvent, WakeInFlight, UiStep
    <2>3. CASE sdl # <<>>
      BY <1>4, <1>7, <2>1, <2>3, InFlightTake DEF TakeEvent, UiStep
    <2> QED
      BY <2>2, <2>3
  <1>8. ASSUME ConsumeDispatcherWakeEvent PROVE ArmedWakeIsInFlight'
    <2>1. CASE armed_wake_generation = taken
      BY <1>5, <1>8, <2>1 DEF ConsumeDispatcherWakeEvent, Disarm, UiStep
    <2>2. CASE armed_wake_generation # taken
      <3>1. UNCHANGED <<armed_wake_generation, sdl>>
        BY <1>8, <2>2 DEF ConsumeDispatcherWakeEvent, Disarm
      <3>2. WakeInFlight(armed_wake_generation)
               => WakeInFlight(armed_wake_generation)'
        BY <2>2, <3>1 DEF WakeInFlight
      <3>3. UNCHANGED <<pc, call, wake_scheduling>>
        BY <1>8, UiStepIdle DEF UiStep
      <3> QED
        BY <3>1, <3>2, <3>3 DEF ArmedWakeIsInFlight, Scheduling
    <2> QED
      BY <2>1, <2>2
  <1>9. ASSUME \/ Awake \/ DispatchEvent \/ RetireCommand \/ CompleteCommand
               \/ Requeue \/ NothingPending \/ ConsumeFrameRequest
               \/ ConsumeExitRequest \/ Render \/ FinishTick \/ CancelCommand
        PROVE  UNCHANGED <<armed_wake_generation, sdl, taken>>
    BY <1>9 DEF Awake, DispatchEvent, RetireCommand, CompleteCommand, Requeue, Requeued,
                NothingPending, ConsumeFrameRequest, ConsumeExitRequest,
                Render, FinishTick, CancelCommand, shared, locals
  <1>10. ASSUME Drain \/ CloseDispatcher
         PROVE  armed_wake_generation' = NotArmed
    BY <1>10 DEF Drain, MayEnter, CloseDispatcher, DropRequests, ClosedIsQuiescent
  <1>11. ASSUME Terminated PROVE ArmedWakeIsInFlight'
    BY <1>11 DEF Terminated, ArmedWakeIsInFlight, Scheduling, WakeInFlight,
                 vars, shared, locals
  <1>12. ASSUME UiStep, UNCHANGED <<armed_wake_generation, sdl, taken>>
         PROVE  ArmedWakeIsInFlight'
    BY <1>4, <1>12 DEF WakeInFlight
  <1> QED
    BY <1>1, <1>2, <1>3, <1>5, <1>6, <1>7, <1>8, <1>9, <1>10, <1>11, <1>12
       DEF Next, CallStep, UiStep

\* No step of a call leaves work uncovered that was covered, or behind the
\* back of a Tick that has already looked for it.
LEMMA CallStepReserves ==
    ASSUME TypeOK, LocalsShape, OneScheduler, LeftWorkIsReserved,
           NEW t \in Threads,
           CallStep(t) \/ \E ticket \in Tickets : Wait(t, ticket)
    PROVE  LeftWorkIsReserved'
  <1>1. ASSUME NEW op \in Ops, NEW ticket \in Tickets \cup {NoTicket},
               Enter(t, op, ticket)
        PROVE  LeftWorkIsReserved'
    <2>1. CASE ~open /\ Return(t, op, FALSE) /\ UNCHANGED shared
      <3>1. \A u \in Threads : Scheduling(u)' =>
               Scheduling(u) /\ call'[u] = call[u]
        BY <2>1, ReturnScheduling
      <3>2. ui' = ui \/ ui' = "close"
        BY <2>1 DEF Return
      <3> QED
        BY <1>1, <2>1, <3>1, <3>2, EnterCases
           DEF LeftWorkIsReserved, AfterDrain, Reserved,
               UnseenWork, shared, locals
    <2>2. CASE /\ open /\ armed_wake_generation # NotArmed
               /\ op = "arm" => Return(t, op, TRUE)
               /\ \E succeeded \in BOOLEAN : Return(t, op, succeeded)
               /\ UNCHANGED <<armed_wake_generation, wake_scheduling>>
      <3>1. Reserved'
        BY <1>1, <2>2, EnterCases DEF Reserved
      <3>2. \A u \in Threads : ~Scheduling(u)'
        BY <1>1, <2>2, EnterCases, ReturnScheduling DEF OneScheduler
      <3> QED
        BY <3>1, <3>2 DEF LeftWorkIsReserved
    <2>3. CASE /\ open /\ armed_wake_generation = NotArmed
               /\ armed_wake_generation' = next_wake_generation
               /\ pc' = [pc EXCEPT ![t] = "schedule"]
               /\ call'[t] = [op |-> op, ticket |-> ticket,
                              generation |-> next_wake_generation,
                              scheduled |-> FALSE]
               /\ UNCHANGED <<commands, frame_requested, exit_requested, ui>>
      <3>1. \A u \in Threads : Scheduling(u)' => u = t
        BY <1>1, <2>3, EnterCases DEF OneScheduler, Scheduling, TypeOK
      <3>2. UNCHANGED mode
        BY <1>1, EnterCases DEF locals
      <3> QED
        BY <2>3, <3>1, <3>2
           DEF LeftWorkIsReserved, Reserved, UnseenWork
    <2> QED
      BY <1>1, <2>1, <2>2, <2>3, EnterCases
  <1>2. ASSUME Commit(t) PROVE LeftWorkIsReserved'
    <2>1. /\ call[t].op \in Ops /\ Scheduling(t)
          /\ wake_scheduling' = FALSE
          /\ UNCHANGED mode
          /\ call[t].generation # NotArmed
      <3>1. Scheduling(t) /\ wake_scheduling' = FALSE /\ UNCHANGED mode
        BY <1>2, CommitCases
      <3>2. call[t].op \in Ops
        BY DEF TypeOK, Calls
      <3>3. call[t].generation \in Generations
        BY <3>1 DEF LocalsShape, CallShape
      <3> QED
        BY <3>1, <3>2, <3>3, BoundsAssumption DEF Generations
    <2>2. \A u \in Threads : ~Scheduling(u)'
      BY <1>2, <2>1, CommitCases, ReturnScheduling DEF OneScheduler
    <2>3. wake_scheduling
      BY <2>1 DEF OneScheduler
    <2>4. /\ call[t].op = "arm" => ui = "rearm"
          /\ ui \in AfterDrain =>
                 armed_wake_generation = call[t].generation
      BY <2>1 DEF LocalsShape, CallShape, LeftWorkIsReserved
    <2>5. CASE Return(t, call[t].op, TRUE) /\ UNCHANGED armed_wake_generation
      <3>1. ui' = ui \/ (ui = "rearm" /\ ui' = "frame")
        BY <2>4, <2>5 DEF Return
      <3>2. ui \in AfterDrain => Reserved'
        BY <2>1, <2>4, <2>5 DEF Reserved
      <3> QED
        BY <2>2, <3>1, <3>2 DEF LeftWorkIsReserved, AfterDrain
    <2>6. CASE /\ Return(t, call[t].op, FALSE)
               /\ UNCHANGED <<commands, frame_requested, exit_requested>>
      <3>1. ui' = ui \/ ui' = "close"
        BY <2>6 DEF Return
      <3> QED
        BY <2>1, <2>2, <2>3, <2>6, <3>1
           DEF LeftWorkIsReserved, Reserved, UnseenWork
    <2> QED
      BY <1>2, <2>5, <2>6, CommitCases
  <1>3. ASSUME \/ ScheduleWake(t) \/ WaitReturns(t)
               \/ \E ticket \in Tickets : Wait(t, ticket)
        PROVE  LeftWorkIsReserved'
    BY <1>3, QuietCallCases
       DEF LeftWorkIsReserved, Reserved, UnseenWork, shared,
           locals
  <1> QED
    BY <1>1, <1>2, <1>3 DEF CallStep

LEMMA UiStepReserves ==
    ASSUME TypeOK, LocalsShape, OneScheduler, ClosedIsQuiescent,
           LeftWorkIsReserved, UiStep \/ Input
    PROVE  LeftWorkIsReserved'
  <1> USE DEF LeftWorkIsReserved, AfterDrain, Reserved, UnseenWork
  <1>1. /\ UNCHANGED <<pc, call, wake_scheduling>>
        /\ \A t \in Threads : Scheduling(t)' <=> Scheduling(t)
    BY UiStepIdle DEF Scheduling
  <1>2. ASSUME ui' \in {"dispatch", "consume", "hook", "drain", "close",
                        "cancel", "stopped"}
        PROVE  LeftWorkIsReserved'
    BY <1>2
  <1>3. ASSUME Awake \/ TakeEvent \/ ConsumeDispatcherWakeEvent
               \/ DispatchEvent \/ CloseDispatcher \/ CancelCommand
        PROVE  ui' \in {"dispatch", "consume", "hook", "drain", "close",
                        "cancel", "stopped"}
    BY <1>3 DEF Awake, TakeEvent, ConsumeDispatcherWakeEvent, DispatchEvent,
                CloseDispatcher, DropRequests, CancelCommand
  <1>4. ASSUME Drain PROVE LeftWorkIsReserved'
    <2>1. open /\ ~wake_scheduling /\ ui' \in {"rearm", "execute"}
      BY <1>4 DEF Drain, MayEnter, ClosedIsQuiescent
    <2>2. \A t \in Threads : ~Scheduling(t)
      BY <2>1 DEF OneScheduler
    <2> QED
      BY <1>1, <2>1, <2>2
  <1>5. ASSUME RetireCommand \/ CompleteCommand \/ Requeue
        PROVE  LeftWorkIsReserved'
    <2>1. /\ ui \in AfterDrain
          /\ ui' \in {"execute", "complete", "requeue", "rearm"}
          /\ UNCHANGED armed_wake_generation
      BY <1>5 DEF RetireCommand, CompleteCommand, Requeue, Requeued, shared
    <2> QED
      BY <1>1, <2>1
  <1>6. ASSUME NothingPending PROVE LeftWorkIsReserved'
    BY <1>1, <1>6 DEF NothingPending, shared
  <1>7. ASSUME ConsumeFrameRequest PROVE LeftWorkIsReserved'
    BY <1>1, <1>7 DEF ConsumeFrameRequest
  <1>8. ASSUME ConsumeExitRequest PROVE LeftWorkIsReserved'
    BY <1>1, <1>8 DEF ConsumeExitRequest
  <1>9. ASSUME Render PROVE LeftWorkIsReserved'
    BY <1>1, <1>9 DEF Render
  <1>10. ASSUME FinishTick PROVE LeftWorkIsReserved'
    BY <1>1, <1>10 DEF FinishTick, HasPendingDispatcherWork, shared
  <1>11. ASSUME Input PROVE LeftWorkIsReserved'
    BY <1>1, <1>11 DEF Input, shared, locals
  <1> QED
    BY <1>2, <1>3, <1>4, <1>5, <1>6, <1>7, <1>8, <1>9, <1>10, <1>11 DEF UiStep

\* Nothing reaches a closed dispatcher.
LEMMA ClosedStep ==
    ASSUME TypeOK, LocalsShape, OneScheduler, ClosedIsQuiescent, Next
    PROVE  ClosedIsQuiescent'
  <1>1. ASSUME NEW t \in Threads, NEW op \in Ops,
               NEW ticket \in Tickets \cup {NoTicket}, Enter(t, op, ticket)
        PROVE  ClosedIsQuiescent'
    <2>1. CASE open
      BY <1>1, <2>1, EnterCases DEF ClosedIsQuiescent
    <2>2. CASE ~open
      <3>1. UNCHANGED <<shared, locals>> /\ (op = "arm" => ui = "rearm")
            /\ Return(t, op, FALSE)
        BY <1>1, <2>2, EnterCases
      <3>2. ui \in {"cancel", "stopped"}
        BY <2>2 DEF ClosedIsQuiescent
      <3>3. ui' = ui
        BY <3>1, <3>2 DEF Return
      <3> QED
        BY <3>1, <3>3 DEF ClosedIsQuiescent, shared, locals
    <2> QED
      BY <2>1, <2>2
  <1>2. ASSUME NEW t \in Threads, Commit(t) PROVE ClosedIsQuiescent'
    BY <1>2, CommitCases DEF OneScheduler, ClosedIsQuiescent
  <1>3. ASSUME NEW t \in Threads,
               \/ ScheduleWake(t) \/ WaitReturns(t)
               \/ \E ticket \in Tickets : Wait(t, ticket)
        PROVE  ClosedIsQuiescent'
    BY <1>3, QuietCallCases DEF ClosedIsQuiescent, shared, locals
  <1>4. ASSUME CloseDispatcher PROVE ClosedIsQuiescent'
    <2>1. batch = <<>> /\ finishing = NoTicket
      BY <1>4 DEF CloseDispatcher, DropRequests, LocalsShape, CallShape
    <2> QED
      BY <1>4, <2>1 DEF CloseDispatcher, DropRequests, ClosedIsQuiescent
  <1>5. ASSUME CancelCommand PROVE ClosedIsQuiescent'
    BY <1>5 DEF CancelCommand, ClosedIsQuiescent, shared
  <1>6. ASSUME \/ Awake \/ TakeEvent \/ ConsumeDispatcherWakeEvent
               \/ DispatchEvent \/ Drain \/ RetireCommand \/ CompleteCommand
               \/ Requeue \/ NothingPending \/ ConsumeFrameRequest
               \/ ConsumeExitRequest \/ Render \/ FinishTick \/ Input
        PROVE  open /\ open' = open
    BY <1>6 DEF ClosedIsQuiescent, Awake, TakeEvent,
                ConsumeDispatcherWakeEvent, DispatchEvent, Drain, MayEnter,
                RetireCommand, CompleteCommand, Requeue, Requeued, NothingPending,
                ConsumeFrameRequest, ConsumeExitRequest, Render, FinishTick,
                Input, shared
  <1>7. ASSUME open, open' = open PROVE ClosedIsQuiescent'
    BY <1>7 DEF ClosedIsQuiescent
  <1>8. ASSUME Terminated PROVE ClosedIsQuiescent'
    BY <1>8 DEF Terminated, ClosedIsQuiescent, vars, shared, locals
  <1> QED
    BY <1>1, <1>2, <1>3, <1>4, <1>5, <1>6, <1>7, <1>8 DEF Next, CallStep, UiStep

-----------------------------------------------------------------------------

LEMMA IInvInit == Init => IInv
  <1> SUFFICES ASSUME Init PROVE IInv
    OBVIOUS
  <1>1. \A t \in Threads : ~Scheduling(t)
    BY DEF Init, Scheduling
  <1>2. TypeOK
    BY TypeOKInit
  <1>3. LocalsShape
    BY <1>1 DEF Init, LocalsShape, CallShape
  <1>4. WakeProtocol
    BY <1>1 DEF Init, WakeProtocol, OneScheduler, ArmedWakeIsInFlight,
                LeftWorkIsReserved
  <1>5. PendingCountExact
    BY BoundsAssumption, EmptySeq DEF Init, PendingCountExact
  <1>6. ClosedIsQuiescent
    BY DEF Init, ClosedIsQuiescent
  <1> QED
    BY <1>2, <1>3, <1>4, <1>5, <1>6 DEF IInv

LEMMA IInvNext == IInv /\ [Next]_vars => IInv'
  <1> SUFFICES ASSUME IInv, [Next]_vars PROVE IInv'
    OBVIOUS
  <1> USE DEF IInv, WakeProtocol
  <1>1. CASE UNCHANGED vars
    BY <1>1 DEF vars, shared, locals, TypeOK, LocalsShape, CallShape, Scheduling,
                OneScheduler, ArmedWakeIsInFlight, WakeInFlight,
                LeftWorkIsReserved, Reserved, UnseenWork,
                PendingCountExact, ClosedIsQuiescent
  <1>2. CASE Next
    <2>1. TypeOK'
      <3>1. ASSUME Terminated PROVE TypeOK'
        BY <3>1 DEF Terminated, vars, shared, locals, TypeOK
      <3> QED
        BY <1>2, <3>1, EnterType, CommitType, ScheduleWakeType, WaitType,
           UiStepType DEF Next, CallStep
    <2>2. LocalsShape'
      <3>1. ASSUME Terminated PROVE LocalsShape'
        BY <3>1 DEF Terminated, vars, locals, LocalsShape, CallShape, Scheduling
      <3> QED
        BY <1>2, <3>1, EnterShape, CommitShape, OtherCallShape, UiStepShape
           DEF Next, CallStep
    <2>3. OneScheduler'
      BY <1>2, OneSchedulerStep
    <2>4. ArmedWakeIsInFlight'
      BY <1>2, ArmedWakeStep
    <2>5. LeftWorkIsReserved'
      <3>1. ASSUME Terminated PROVE LeftWorkIsReserved'
        BY <3>1 DEF Terminated, vars, shared, locals, LeftWorkIsReserved,
                    Reserved, UnseenWork, Scheduling
      <3> QED
        BY <1>2, <3>1, CallStepReserves, UiStepReserves DEF Next
    <2>6. PendingCountExact'
      BY <1>2, PendingCountStep
    <2>7. ClosedIsQuiescent'
      BY <1>2, ClosedStep
    <2> QED
      BY <2>1, <2>2, <2>3, <2>4, <2>5, <2>6, <2>7
  <1> QED
    BY <1>1, <1>2

\* The inductive invariant holds in every reachable state.
THEOREM InductiveInvariant == Spec => []IInv
  BY IInvInit, IInvNext, PTL DEF Spec

\* Every variable keeps its type: the generation counter never takes the
\* value 0 and pending_count never goes below zero.
THEOREM TypeCorrect == Spec => []TypeOK
  <1>1. IInv => TypeOK
    BY DEF IInv
  <1> QED
    BY <1>1, InductiveInvariant, PTL

\* The wake event's protocol (OneScheduler, ArmedWakeIsInFlight and
\* LeftWorkIsReserved) is kept by every interleaving of MutateAndArm calls
\* with the SDL loop.
THEOREM WakeProtocolHolds == Spec => []WakeProtocol
  <1>1. IInv => WakeProtocol
    BY DEF IInv
  <1> QED
    BY <1>1, InductiveInvariant, PTL

\* The SDL loop never sleeps over work nobody is about to wake it for.
THEOREM NoWakeIsLost == Spec => []NoLostWake
  <1>1. IInv => NoLostWake
    <2> SUFFICES ASSUME IInv, ui = "wait", mode = "waitevent", sdl = <<>>,
                        UnseenWork, ~wake_scheduling
                 PROVE  FALSE
      BY DEF NoLostWake
    <2>1. armed_wake_generation # NotArmed
      BY DEF IInv, WakeProtocol, LeftWorkIsReserved, Reserved
    <2>2. WakeInFlight(armed_wake_generation)
      BY <2>1 DEF IInv, WakeProtocol, ArmedWakeIsInFlight
    <2>3. taken = OrdinaryEvent /\ Len(sdl) = 0
      BY EmptySeq DEF IInv, LocalsShape, CallShape
    <2> QED
      BY <2>1, <2>2, <2>3 DEF WakeInFlight
  <1> QED
    BY <1>1, InductiveInvariant, PTL

\* The capacity check of Post counts exactly the commands in the system.
THEOREM PendingCountIsExact == Spec => []PendingCountExact
  <1>1. IInv => PendingCountExact
    BY DEF IInv
  <1> QED
    BY <1>1, InductiveInvariant, PTL

\* A closed dispatcher holds no command, no armed wake and no request.
THEOREM ClosedStaysQuiescent == Spec => []ClosedIsQuiescent
  <1>1. IInv => ClosedIsQuiescent
    BY DEF IInv
  <1> QED
    BY <1>1, InductiveInvariant, PTL

-----------------------------------------------------------------------------
(* The dispatcher implements CommandQueue                                  *)

\* The queue and the outcomes the refinement mapping gives to CommandQueue.
Waiting == batch \o commands \o cancelled
Outcome == [t \in Tickets |-> IF t = finishing THEN "executed" ELSE result[t]]

\* Every command that waits was accepted, waits once and has no outcome yet.
QueueOrder ==
    /\ \A i \in 1..Len(Waiting) :
           Waiting[i] \in accepted /\ Outcome[Waiting[i]] = "none"
    /\ \A i, j \in 1..Len(Waiting) : Waiting[i] = Waiting[j] => i = j
    /\ \A t \in Tickets \ accepted : Outcome[t] = "none"

\* A ticket is accepted at most once: the next one is new, and so is the one of
\* the call that is between its two critical sections.
TicketsFresh ==
    /\ \A t \in accepted : t <= minted
    /\ \A t \in Threads : Scheduling(t) /\ call[t].op = "post" =>
           call[t].ticket <= minted /\ call[t].ticket \notin accepted

\* Commands wait for their cancellation only once the dispatcher has closed, and
\* the command whose handler has run has no result until it is completed.
LeftOver ==
    /\ cancelled # <<>> => ~open
    /\ finishing # NoTicket => result[finishing] = "none"

QueueInv == IInv /\ QueueOrder /\ TicketsFresh /\ LeftOver

\* What a step may do to the queue and the outcomes.
Accepts(t) ==
    /\ open /\ open'
    /\ t \in Tickets \ accepted
    /\ Len(Waiting) < MaxPending
    /\ Waiting' = Append(Waiting, t)
    /\ accepted' = accepted \cup {t}
    /\ Outcome' = Outcome

Leaves(reason) ==
    /\ open' = open
    /\ open <=> reason = "executed"
    /\ Waiting # <<>>
    /\ Waiting' = Tail(Waiting)
    /\ Outcome' = [Outcome EXCEPT ![Head(Waiting)] = reason]
    /\ accepted' = accepted

Stays == Waiting' = Waiting /\ Outcome' = Outcome /\ accepted' = accepted

QueueStep ==
    \/ \E t \in Tickets : Accepts(t)
    \/ \E reason \in {"executed", "cancelled"} : Leaves(reason)
    \/ Stays /\ (open' => open)

LEMMA WaitingIs ==
    ASSUME TypeOK
    PROVE  /\ Waiting \in Seq(Tickets)
           /\ Len(Waiting) = Len(batch) + Len(commands) + Len(cancelled)
           /\ cancelled = <<>> => Waiting = batch \o commands
           /\ batch = <<>> /\ commands = <<>> => Waiting = cancelled
<1>1. batch \in Seq(Tickets) /\ commands \in Seq(Tickets) /\ cancelled \in Seq(Tickets)
  BY DEF TypeOK
<1>2. batch \o commands \in Seq(Tickets) /\ Len(batch \o commands) = Len(batch) + Len(commands)
  BY <1>1, ConcatProperties
<1>3. Waiting \in Seq(Tickets) /\ Len(Waiting) = Len(batch) + Len(commands) + Len(cancelled)
  BY <1>1, <1>2, ConcatProperties DEF Waiting
<1>4. cancelled = <<>> => Waiting = batch \o commands
  BY <1>2, ConcatEmptySeq DEF Waiting
<1>5. batch = <<>> /\ commands = <<>> => Waiting = cancelled
  <2>1. <<>> \o <<>> = <<>> /\ <<>> \o cancelled = cancelled
    BY <1>1, EmptySeq, ConcatEmptySeq
  <2> QED
    BY <2>1 DEF Waiting
<1> QED
  BY <1>3, <1>4, <1>5

\* An open dispatcher has nothing to cancel.
LEMMA OpenWaits ==
    ASSUME QueueInv, open
    PROVE  cancelled = <<>> /\ Waiting = batch \o commands
<1>1. cancelled = <<>>
  BY DEF QueueInv, LeftOver, IInv, ClosedIsQuiescent
<1> QED
  BY <1>1, WaitingIs DEF QueueInv, IInv

\* The queue is as before when its three parts are.
LEMMA SameQueue ==
    ASSUME TypeOK, UNCHANGED <<batch, commands, cancelled, finishing, result, accepted>>
    PROVE  Stays
BY DEF Stays, Waiting, Outcome

\* A mutator that posts appends to the queue.
LEMMA MutateAccepts ==
    ASSUME QueueInv, open, open' = open, NEW op \in Ops, NEW ticket \in Tickets \cup {NoTicket},
           op = "post" => ticket \in Tickets \ accepted,
           Mutate(op, ticket), UNCHANGED <<batch, cancelled, finishing, result>>
    PROVE  IF op = "post" THEN Accepts(ticket) ELSE Stays
<1>1. CASE op # "post"
  BY <1>1, SameQueue DEF Mutate, QueueInv, IInv
<1>2. CASE op = "post"
  <2>1. cancelled = <<>> /\ cancelled' = <<>> /\ Waiting = batch \o commands
    BY OpenWaits
  <2>2. /\ batch \in Seq(Tickets) /\ commands \in Seq(Tickets)
        /\ ticket \in Tickets /\ ticket \notin accepted
        /\ commands' = Append(commands, ticket) /\ accepted' = accepted \cup {ticket}
    BY <1>2 DEF QueueInv, IInv, TypeOK, Mutate
  <2>3. /\ commands' \in Seq(Tickets) /\ batch \o commands' \in Seq(Tickets)
        /\ commands' = commands \o <<ticket>> /\ <<ticket>> \in Seq(Tickets)
    BY <2>2, AppendIsConcat, AppendProperties, ConcatProperties
  <2>4. Waiting' = batch \o commands'
    BY <2>1, <2>3, ConcatEmptySeq DEF Waiting
  <2>5. batch \o commands' = Append(batch \o commands, ticket)
    <3>1. batch \o (commands \o <<ticket>>) = (batch \o commands) \o <<ticket>>
      BY <2>2, <2>3, ConcatAssociative
    <3>2. Append(batch \o commands, ticket) = (batch \o commands) \o <<ticket>>
      BY <2>2, ConcatProperties, AppendIsConcat
    <3> QED
      BY <2>3, <3>1, <3>2
  <2>6. Len(Waiting) < MaxPending
    <3>1. Len(Waiting) = Len(batch) + Len(commands)
      BY <2>1, <2>2, ConcatProperties
    <3> QED
      BY <1>2, <2>2, <3>1, LenProperties
         DEF Mutate, HasCapacity, QueueInv, IInv, PendingCountExact
  <2>7. Outcome' = Outcome
    BY DEF Outcome
  <2> QED
    BY <1>2, <2>1, <2>2, <2>4, <2>5, <2>6, <2>7 DEF Accepts
<1> QED
  BY <1>1, <1>2

\* The call of a thread accepts its own ticket, and that only once.
LEMMA EnterQueues ==
    ASSUME QueueInv, NEW t \in Threads, NEW op \in Ops, NEW ticket \in Tickets \cup {NoTicket},
           Enter(t, op, ticket)
    PROVE  QueueStep /\ TicketsFresh'
<1> TypeOK /\ OneScheduler /\ TicketsFresh
  BY DEF QueueInv, IInv, WakeProtocol
<1>1. /\ op = "post" => ticket = minted + 1 /\ ticket \in Tickets /\ minted' = ticket
      /\ op # "post" => minted' = minted
      /\ UNCHANGED <<batch, cancelled, finishing, result, open>>
      /\ minted \in Nat /\ minted' \in Nat /\ minted <= minted'
  <2>1. MayCall(t, op, ticket) /\ UNCHANGED <<result, locals, open>>
    BY EnterCases DEF Enter
  <2>2. minted \in Nat /\ minted <= MaxTickets
    BY BoundsAssumption DEF TypeOK
  <2>3. \/ op = "post" /\ minted < MaxTickets /\ ticket = minted + 1 /\ minted' = ticket
        \/ op # "post" /\ minted' = minted
    BY <2>1 DEF MayCall
  <2> QED
    BY <2>1, <2>2, <2>3, BoundsAssumption DEF Tickets, locals
<1>2. \A u \in accepted : u \in Nat /\ u <= minted
  BY DEF TypeOK, TicketsFresh, Tickets
<1>3. op = "post" => ticket \notin accepted
  BY <1>1, <1>2
<1>4. CASE UNCHANGED <<commands, accepted>>
           /\ \/ \A u \in Threads : Scheduling(u)' => Scheduling(u) /\ call'[u] = call[u]
              \/ /\ call'[t].op = op /\ call'[t].ticket = ticket
                 /\ \A u \in Threads \ {t} : ~Scheduling(u)'
  <2>1. Stays /\ open' = open
    BY <1>1, <1>4, SameQueue
  <2>2. \A u \in accepted' : u <= minted'
    BY <1>1, <1>2, <1>4
  <2>3. ASSUME NEW u \in Threads, Scheduling(u)', call'[u].op = "post"
        PROVE  call'[u].ticket <= minted' /\ call'[u].ticket \notin accepted'
    <3>1. CASE Scheduling(u) /\ call'[u] = call[u]
      <4>1. call[u].ticket <= minted /\ call[u].ticket \notin accepted
        BY <2>3, <3>1 DEF TicketsFresh
      <4>2. call[u].ticket \in Nat
        BY BoundsAssumption DEF TypeOK, Calls, Tickets
      <4> QED
        BY <1>1, <1>4, <3>1, <4>1, <4>2
    <3>2. CASE u = t /\ call'[t].op = op /\ call'[t].ticket = ticket
      BY <1>1, <1>3, <1>4, <2>3, <3>2
    <3> QED
      BY <1>4, <2>3, <3>1, <3>2
  <2> QED
    BY <2>1, <2>2, <2>3 DEF QueueStep, TicketsFresh
<1>5. CASE /\ open /\ armed_wake_generation # NotArmed
           /\ Mutate(op, ticket) /\ Return(t, op, TRUE) /\ UNCHANGED wake_scheduling
  <2>1. IF op = "post" THEN Accepts(ticket) ELSE Stays
    BY <1>1, <1>3, <1>5, MutateAccepts
  <2>2. accepted' \subseteq accepted \cup {minted'}
    BY <1>1, <1>5 DEF Mutate
  <2>3. \A u \in accepted' : u <= minted'
    BY <1>1, <1>2, <2>2
  <2>4. \A u \in Threads : ~Scheduling(u)
    BY <1>5, EnterCases DEF OneScheduler
  <2>5. \A u \in Threads : ~Scheduling(u)'
    BY <1>5, <2>4, ReturnScheduling
  <2> QED
    BY <1>1, <2>1, <2>3, <2>5 DEF QueueStep, TicketsFresh
<1>6. \/ UNCHANGED <<commands, accepted>> /\ \E succeeded \in BOOLEAN : Return(t, op, succeeded)
      \/ /\ open /\ armed_wake_generation # NotArmed
         /\ Mutate(op, ticket) /\ Return(t, op, TRUE) /\ UNCHANGED wake_scheduling
      \/ /\ UNCHANGED <<commands, accepted>> /\ open /\ ~wake_scheduling
         /\ pc' = [pc EXCEPT ![t] = "schedule"]
         /\ call' = [call EXCEPT ![t] =
                [op |-> op, ticket |-> ticket,
                 generation |-> next_wake_generation, scheduled |-> FALSE]]
  BY DEF Enter, MayEnter, MutateFails, shared
<1>7. CASE UNCHANGED <<commands, accepted>> /\ \E succeeded \in BOOLEAN : Return(t, op, succeeded)
  <2>1. \A u \in Threads : Scheduling(u)' => Scheduling(u) /\ call'[u] = call[u]
    BY <1>7, ReturnScheduling
  <2> QED
    BY <1>4, <1>7, <2>1
<1>8. CASE /\ UNCHANGED <<commands, accepted>> /\ open /\ ~wake_scheduling
           /\ pc' = [pc EXCEPT ![t] = "schedule"]
           /\ call' = [call EXCEPT ![t] =
                  [op |-> op, ticket |-> ticket,
                   generation |-> next_wake_generation, scheduled |-> FALSE]]
  <2>1. call'[t].op = op /\ call'[t].ticket = ticket
    BY <1>8 DEF TypeOK
  <2>2. \A u \in Threads \ {t} : ~Scheduling(u)'
    BY <1>8 DEF TypeOK, OneScheduler, Scheduling
  <2> QED
    BY <1>4, <1>8, <2>1, <2>2
<1> QED
  BY <1>5, <1>6, <1>7, <1>8

LEMMA CommitQueues ==
    ASSUME QueueInv, NEW t \in Threads, Commit(t)
    PROVE  QueueStep /\ TicketsFresh'
<1> TypeOK /\ OneScheduler /\ TicketsFresh /\ LocalsShape
  BY DEF QueueInv, IInv, WakeProtocol
<1>1. /\ Scheduling(t) /\ open' = open
      /\ UNCHANGED <<batch, cancelled, finishing, result, minted>>
      /\ call[t].op \in Ops /\ call[t].ticket \in Tickets \cup {NoTicket}
      /\ call[t].op = "post" => call[t].ticket \in Tickets
  BY DEF Commit, Scheduling, locals, LocalsShape, CallShape, TypeOK, Calls
<1>2. \A u \in Threads : ~Scheduling(u)'
  <2>1. \A u \in Threads : Scheduling(u) => u = t
    BY <1>1 DEF OneScheduler
  <2>2. \E succeeded \in BOOLEAN : Return(t, call[t].op, succeeded)
    BY DEF Commit
  <2> QED
    BY <1>1, <2>1, <2>2, ReturnScheduling
<1>3. call[t].op = "post" => call[t].ticket <= minted /\ call[t].ticket \notin accepted
  BY <1>1 DEF TicketsFresh
<1>4. CASE open /\ Mutate(call[t].op, call[t].ticket)
  <2>1. IF call[t].op = "post" THEN Accepts(call[t].ticket) ELSE Stays
    BY <1>1, <1>3, <1>4, MutateAccepts
  <2>2. \A u \in accepted' : u <= minted'
    BY <1>1, <1>3, <1>4 DEF Mutate, TicketsFresh
  <2> QED
    BY <1>1, <1>2, <2>1, <2>2 DEF QueueStep, TicketsFresh
<1>5. CASE UNCHANGED <<commands, accepted>>
  <2>1. Stays
    BY <1>1, <1>5, SameQueue
  <2>2. \A u \in accepted' : u <= minted'
    BY <1>1, <1>5 DEF TicketsFresh
  <2> QED
    BY <1>1, <1>2, <2>1, <2>2 DEF QueueStep, TicketsFresh
<1> QED
  BY <1>4, <1>5 DEF Commit, MutateFails

LEMMA QuietCallQueues ==
    ASSUME QueueInv, NEW t \in Threads,
           ScheduleWake(t) \/ WaitReturns(t) \/ \E ticket \in Tickets : Wait(t, ticket)
    PROVE  QueueStep /\ TicketsFresh'
<1> TypeOK /\ TicketsFresh
  BY DEF QueueInv, IInv
<1>1. UNCHANGED <<batch, commands, cancelled, finishing, result, accepted, open, minted>>
  BY DEF ScheduleWake, WaitReturns, Wait, shared, locals
<1>2. \A u \in Threads : Scheduling(u)' =>
          Scheduling(u) /\ call'[u].op = call[u].op /\ call'[u].ticket = call[u].ticket
  <2>1. CASE ScheduleWake(t)
    <3>1. \A u \in Threads \ {t} : call'[u] = call[u]
      BY <2>1 DEF ScheduleWake, TypeOK
    <3>2. call'[t].op = call[t].op /\ call'[t].ticket = call[t].ticket
      <4>1. call'[t] = call[t] \/ call'[t] = [call[t] EXCEPT !.scheduled = TRUE]
        BY <2>1 DEF ScheduleWake, TypeOK
      <4> QED
        BY <4>1 DEF TypeOK, Calls
    <3>3. \A u \in Threads : Scheduling(u)' => Scheduling(u)
      BY <2>1 DEF ScheduleWake, Scheduling, TypeOK
    <3> QED
      BY <3>1, <3>2, <3>3
  <2>2. CASE WaitReturns(t)
    BY <2>2 DEF WaitReturns, Scheduling, TypeOK
  <2>3. ASSUME NEW ticket \in Tickets, Wait(t, ticket)
        PROVE  \A u \in Threads : Scheduling(u)' =>
                   Scheduling(u) /\ call'[u].op = call[u].op /\ call'[u].ticket = call[u].ticket
    <3>1. /\ pc' = [pc EXCEPT ![t] = "waiting"]
          /\ call' = [call EXCEPT ![t].ticket = ticket]
      BY <2>3 DEF Wait
    <3>2. \A u \in Threads \ {t} : pc'[u] = pc[u] /\ call'[u] = call[u]
      BY <3>1 DEF TypeOK
    <3>3. ~Scheduling(t)'
      BY <3>1 DEF Scheduling, TypeOK
    <3> QED
      BY <3>2, <3>3 DEF Scheduling
  <2> QED
    BY <2>1, <2>2, <2>3
<1>3. TicketsFresh'
  BY <1>1, <1>2 DEF TicketsFresh
<1> QED
  BY <1>1, <1>3, SameQueue DEF QueueStep

\* Drain splits the queue, Requeue puts it together again.
LEMMA DrainQueues ==
    ASSUME QueueInv, Drain
    PROVE  Stays /\ open' = open
<1> TypeOK /\ LocalsShape
  BY DEF QueueInv, IInv
<1>1. /\ open' = open
      /\ UNCHANGED <<cancelled, finishing, result, accepted>>
      /\ ui = "drain"
  BY DEF Drain
<1>2. CASE ~open
  BY <1>1, <1>2, SameQueue DEF Drain
<1>3. CASE open
  <2>1. cancelled = <<>> /\ cancelled' = <<>> /\ Waiting = batch \o commands /\ batch = <<>>
    BY <1>1, <1>3, OpenWaits DEF LocalsShape
  <2>2. Watermark \in 0..Len(commands) /\ Len(commands) \in Nat
    BY BoundsAssumption, SeqSteps DEF Watermark, TypeOK
  <2>3. /\ batch' = SubSeq(commands, 1, Watermark)
        /\ commands' = SubSeq(commands, Watermark + 1, Len(commands))
    BY <1>3 DEF Drain
  <2>4. batch' \in Seq(Tickets) /\ commands' \in Seq(Tickets)
    BY <2>2, <2>3, SplitSeq DEF TypeOK
  <2>5. batch' \o commands' = commands
    <3>1. commands \in Seq(Tickets)
      BY DEF TypeOK
    <3>2. 1 \in 1..Len(commands) + 1 /\ Watermark \in (1 - 1)..Len(commands)
          /\ Len(commands) \in Watermark..Len(commands)
      BY <2>2
    <3>3. SubSeq(commands, 1, Watermark) \o SubSeq(commands, Watermark + 1, Len(commands))
              = SubSeq(commands, 1, Len(commands))
      BY <3>1, <3>2, ConcatAdjacentSubSeq
    <3> QED
      BY <2>3, <3>1, <3>3, SubSeqFull
  <2>6. batch \o commands = commands
    BY <2>1, ConcatEmptySeq DEF TypeOK
  <2>7. Waiting' = batch' \o commands'
    BY <2>1, <2>4, ConcatProperties, ConcatEmptySeq DEF Waiting
  <2> QED
    BY <1>1, <2>1, <2>5, <2>6, <2>7 DEF Stays, Outcome
<1> QED
  BY <1>2, <1>3

LEMMA RequeueQueues ==
    ASSUME QueueInv, Requeue
    PROVE  Stays /\ open' = open
<1>1. /\ batch' = <<>> /\ commands' = batch \o commands
      /\ UNCHANGED <<cancelled, finishing, result, accepted, open>>
  BY DEF Requeue, Requeued
<1>2. batch \o commands \in Seq(Tickets)
  BY ConcatProperties DEF QueueInv, IInv, TypeOK
<1>3. batch' \o commands' = batch \o commands
  BY <1>1, <1>2, ConcatEmptySeq
<1> QED
  BY <1>1, <1>3 DEF Stays, Waiting, Outcome

\* The first of a queue whose first part is not empty.
LEMMA HeadOfConcat ==
    ASSUME NEW S, NEW s \in Seq(S), NEW t \in Seq(S), s # <<>>
    PROVE  /\ s \o t # <<>>
           /\ Head(s \o t) = Head(s)
           /\ Tail(s \o t) = Tail(s) \o t
<1>1. /\ Head(s) \in S /\ Tail(s) \in Seq(S) /\ Len(Tail(s)) = Len(s) - 1
      /\ \A i \in 1..Len(Tail(s)) : Tail(s)[i] = s[i + 1]
  BY HeadTailProperties
<1>2. Len(s) \in Nat /\ Len(t) \in Nat /\ Len(s) >= 1
  BY LenProperties, EmptySeq
<1>3. /\ s \o t \in Seq(S) /\ Len(s \o t) = Len(s) + Len(t)
      /\ \A i \in 1..Len(s) + Len(t) : (s \o t)[i] = IF i <= Len(s) THEN s[i] ELSE t[i - Len(s)]
  BY ConcatProperties
<1>4. s \o t # <<>>
  BY <1>2, <1>3, EmptySeq
<1>5. Head(s \o t) = Head(s)
  BY <1>2, <1>3, <1>4
<1>6. /\ Tail(s \o t) \in Seq(S) /\ Len(Tail(s \o t)) = Len(s) + Len(t) - 1
      /\ \A i \in 1..Len(s) + Len(t) - 1 : Tail(s \o t)[i] = (s \o t)[i + 1]
  BY <1>3, <1>4, HeadTailProperties
<1>7. /\ Tail(s) \o t \in Seq(S) /\ Len(Tail(s) \o t) = Len(s) - 1 + Len(t)
      /\ \A i \in 1..Len(s) - 1 + Len(t) :
             (Tail(s) \o t)[i] = IF i <= Len(s) - 1 THEN Tail(s)[i] ELSE t[i - (Len(s) - 1)]
  BY <1>1, ConcatProperties
<1>8. ASSUME NEW i \in 1..Len(Tail(s \o t)) PROVE Tail(s \o t)[i] = (Tail(s) \o t)[i]
  <2>1. i \in 1..Len(s) + Len(t) - 1 /\ i + 1 \in 1..Len(s) + Len(t)
    BY <1>2, <1>6, <1>8
  <2>2. Tail(s \o t)[i] = IF i + 1 <= Len(s) THEN s[i + 1] ELSE t[i + 1 - Len(s)]
    BY <1>3, <1>6, <2>1
  <2>3. (Tail(s) \o t)[i] = IF i <= Len(s) - 1 THEN s[i + 1] ELSE t[i - (Len(s) - 1)]
    BY <1>1, <1>2, <1>7, <2>1
  <2>4. i + 1 - Len(s) = i - (Len(s) - 1) /\ (i + 1 <= Len(s) <=> i <= Len(s) - 1)
    BY <1>2, <2>1
  <2> QED
    BY <2>2, <2>3, <2>4
<1>9. Tail(s \o t) = Tail(s) \o t
  BY <1>2, <1>6, <1>7, <1>8, SeqEqual
<1> QED
  BY <1>4, <1>5, <1>9

\* A command leaves the queue when its slot is given back, and its outcome is
\* that of the mapping from there on.
LEMMA RetireQueues ==
    ASSUME QueueInv, RetireCommand
    PROVE  Leaves("executed") /\ LeftOver'
<1> TypeOK /\ LocalsShape
  BY DEF QueueInv, IInv
<1>1. /\ open /\ open' = open /\ finishing = NoTicket /\ batch # <<>>
      /\ finishing' = Head(batch) /\ batch' = Tail(batch)
      /\ UNCHANGED <<commands, cancelled, result, accepted>>
  BY DEF RetireCommand, LocalsShape, QueueInv, IInv, ClosedIsQuiescent
<1>2. cancelled = <<>> /\ Waiting = batch \o commands
  BY <1>1, OpenWaits
<1>3. /\ Waiting # <<>> /\ Head(Waiting) = Head(batch) /\ Tail(Waiting) = Tail(batch) \o commands
      /\ Tail(batch) \in Seq(Tickets) /\ Head(batch) \in Tickets
  BY <1>1, <1>2, HeadOfConcat, HeadTailProperties DEF TypeOK
<1>4. Waiting' = Tail(Waiting)
  <2>1. Tail(batch) \o commands \in Seq(Tickets)
    BY <1>3, ConcatProperties DEF TypeOK
  <2> QED
    BY <1>1, <1>2, <1>3, <2>1, ConcatEmptySeq DEF Waiting
<1>5. Outcome' = [Outcome EXCEPT ![Head(Waiting)] = "executed"]
  <2>1. \A t \in Tickets : t # finishing
    BY <1>1 DEF Tickets
  <2>2. Outcome = [t \in Tickets |-> result[t]]
    BY <2>1 DEF Outcome
  <2> QED
    BY <1>1, <1>3, <2>2 DEF Outcome
<1>6. result[Head(batch)] = "none"
  <2>1. 1 \in 1..Len(Waiting) /\ Head(Waiting) = Waiting[1]
    BY <1>2, <1>3, WaitingIs, EmptySeq, LenProperties
  <2>2. Outcome[Head(Waiting)] = "none"
    BY <2>1 DEF QueueInv, QueueOrder
  <2> QED
    BY <1>1, <1>3, <2>2 DEF Outcome, Tickets
<1>7. LeftOver'
  BY <1>1, <1>2, <1>6 DEF LeftOver
<1> QED
  BY <1>1, <1>3, <1>4, <1>5, <1>7 DEF Leaves

LEMMA CompleteQueues ==
    ASSUME QueueInv, CompleteCommand
    PROVE  Stays /\ open' = open /\ LeftOver'
<1> TypeOK /\ LeftOver
  BY DEF QueueInv, IInv
<1>1. /\ finishing' = NoTicket
      /\ result' = [result EXCEPT ![finishing] = IF @ = "none" THEN "executed" ELSE @]
      /\ UNCHANGED <<batch, commands, cancelled, accepted, open>>
  BY DEF CompleteCommand, CompleteTicket, shared
<1>2. ASSUME NEW t \in Tickets PROVE Outcome'[t] = Outcome[t]
  <2>1. CASE t = finishing
    BY <1>1, <2>1 DEF Outcome, LeftOver, TypeOK, Tickets
  <2>2. CASE t # finishing
    BY <1>1, <2>2 DEF Outcome, TypeOK, Tickets
  <2> QED
    BY <2>1, <2>2
<1>3. Outcome' = Outcome
  BY <1>2 DEF Outcome
<1> QED
  BY <1>1, <1>3 DEF Stays, Waiting, LeftOver

LEMMA CloseQueues ==
    ASSUME QueueInv, CloseDispatcher
    PROVE  Stays /\ ~open' /\ LeftOver'
<1> TypeOK /\ LocalsShape /\ LeftOver
  BY DEF QueueInv, IInv
<1>1. /\ open /\ batch = <<>> /\ finishing = NoTicket
      /\ open' = FALSE /\ cancelled' = commands /\ commands' = <<>>
      /\ UNCHANGED <<batch, finishing, result, accepted>>
  BY DEF CloseDispatcher, LocalsShape, QueueInv, IInv, ClosedIsQuiescent
<1>2. Waiting = commands
  <2>1. <<>> \o commands = commands
    BY ConcatEmptySeq DEF TypeOK
  <2> QED
    BY <1>1, <2>1, OpenWaits
<1>3. Waiting' = commands
  <2>1. <<>> \o <<>> = <<>> /\ <<>> \o commands = commands
    BY EmptySeq, ConcatEmptySeq DEF TypeOK
  <2> QED
    BY <1>1, <2>1 DEF Waiting
<1> QED
  BY <1>1, <1>2, <1>3 DEF Stays, Outcome, LeftOver

LEMMA CancelQueues ==
    ASSUME QueueInv, CancelCommand
    PROVE  /\ Stays \/ Leaves("cancelled")
           /\ open' = open /\ LeftOver'
<1> TypeOK /\ LeftOver
  BY DEF QueueInv, IInv
<1>1. UNCHANGED <<batch, commands, finishing, accepted, open>>
  BY DEF CancelCommand, shared
<1>2. CASE cancelled = <<>>
  BY <1>1, <1>2, SameQueue DEF CancelCommand, LeftOver
<1>3. CASE cancelled # <<>>
  <2>1. /\ ~open /\ batch = <<>> /\ commands = <<>> /\ finishing = NoTicket
        /\ Waiting = cancelled
    BY <1>3, WaitingIs DEF LeftOver, QueueInv, IInv, ClosedIsQuiescent
  <2>2. /\ cancelled' = Tail(cancelled)
        /\ result' = [result EXCEPT ![Head(cancelled)] = IF @ = "none" THEN "cancelled" ELSE @]
    BY <1>3 DEF CancelCommand, CompleteTicket
  <2>3. Head(cancelled) \in Tickets /\ Tail(cancelled) \in Seq(Tickets)
    BY <1>3, HeadTailProperties DEF TypeOK
  <2>4. Waiting' = cancelled'
    <3>1. <<>> \o <<>> = <<>> /\ <<>> \o cancelled' = cancelled'
      BY <2>2, <2>3, EmptySeq, ConcatEmptySeq
    <3> QED
      BY <1>1, <2>1, <3>1 DEF Waiting
  <2>5. result[Head(cancelled)] = "none"
    <3>1. 1 \in 1..Len(Waiting) /\ Head(Waiting) = Waiting[1]
      BY <1>3, <2>1, WaitingIs, EmptySeq, LenProperties
    <3>2. Outcome[Head(Waiting)] = "none"
      BY <3>1 DEF QueueInv, QueueOrder
    <3> QED
      BY <2>1, <2>3, <3>2 DEF Outcome, Tickets
  <2>6. Outcome' = [Outcome EXCEPT ![Head(Waiting)] = "cancelled"]
    <3>1. Outcome = result /\ Outcome' = result'
      <4>1. \A t \in Tickets : t # finishing /\ t # finishing'
        BY <1>1, <2>1 DEF Tickets
      <4> QED
        BY <2>2, <4>1 DEF Outcome, TypeOK
    <3>2. result' = [result EXCEPT ![Head(cancelled)] = "cancelled"]
      BY <2>2, <2>5 DEF TypeOK
    <3> QED
      BY <2>1, <3>1, <3>2
  <2>7. LeftOver'
    BY <1>1, <2>1 DEF LeftOver
  <2> QED
    BY <1>1, <1>3, <2>1, <2>2, <2>4, <2>6, <2>7 DEF Leaves
<1> QED
  BY <1>2, <1>3

\* Every step is one of the queue.
LEMMA NextQueues ==
    ASSUME QueueInv, [Next]_vars
    PROVE  QueueStep /\ TicketsFresh' /\ LeftOver'
<1> TypeOK /\ TicketsFresh /\ LeftOver
  BY DEF QueueInv, IInv
<1>1. ASSUME UNCHANGED <<batch, commands, cancelled, finishing, result, accepted, open>>
      PROVE  QueueStep /\ LeftOver'
  BY <1>1, SameQueue DEF QueueStep, LeftOver
<1>2. ASSUME UiStep \/ Input PROVE TicketsFresh'
  <2>1. UNCHANGED <<pc, call, minted, accepted>>
    BY <1>2, UiStepIdle DEF QueueInv, IInv
  <2> QED
    BY <2>1 DEF TicketsFresh, Scheduling
<1>3. ASSUME UNCHANGED vars PROVE QueueStep /\ TicketsFresh' /\ LeftOver'
  BY <1>1, <1>3 DEF vars, shared, locals, TicketsFresh, Scheduling
<1>4. ASSUME NEW t \in Threads, CallStep(t) PROVE QueueStep /\ TicketsFresh' /\ LeftOver'
  <2>1. QueueStep /\ TicketsFresh'
    <3>1. ASSUME NEW op \in Ops, NEW ticket \in Tickets \cup {NoTicket}, Enter(t, op, ticket)
          PROVE  QueueStep /\ TicketsFresh'
      BY <3>1, EnterQueues
    <3> QED
      BY <1>4, <3>1, CommitQueues, QuietCallQueues DEF CallStep
  <2>2. UNCHANGED <<cancelled, finishing, result, open>>
    BY <1>4 DEF CallStep, Enter, ScheduleWake, Commit, WaitReturns, shared, locals
  <2> QED
    BY <2>1, <2>2 DEF LeftOver
<1>5. ASSUME NEW t \in Threads, NEW ticket \in Tickets, Wait(t, ticket)
      PROVE  QueueStep /\ TicketsFresh' /\ LeftOver'
  <2>1. UNCHANGED <<cancelled, finishing, result, open>>
    BY <1>5 DEF Wait, shared, locals
  <2> QED
    BY <1>5, <2>1, QuietCallQueues DEF LeftOver
<1>6. ASSUME \/ Awake \/ TakeEvent \/ ConsumeDispatcherWakeEvent \/ DispatchEvent
             \/ NothingPending \/ ConsumeFrameRequest \/ ConsumeExitRequest \/ Render
             \/ FinishTick \/ Input
      PROVE  QueueStep /\ LeftOver'
  <2>1. UNCHANGED <<batch, commands, cancelled, finishing, result, accepted, open>>
    BY <1>6 DEF Awake, TakeEvent, ConsumeDispatcherWakeEvent, DispatchEvent, NothingPending,
       ConsumeFrameRequest, ConsumeExitRequest, Render, FinishTick, Input, shared, locals
  <2> QED
    BY <1>1, <2>1
<1>7. ASSUME Drain \/ Requeue PROVE QueueStep /\ LeftOver'
  <2>1. Stays /\ open' = open
    BY <1>7, DrainQueues, RequeueQueues
  <2>2. UNCHANGED <<cancelled, finishing, result>>
    BY <1>7 DEF Drain, Requeue
  <2> QED
    BY <2>1, <2>2 DEF QueueStep, LeftOver
<1>8. ASSUME RetireCommand \/ CompleteCommand \/ CloseDispatcher \/ CancelCommand
      PROVE  QueueStep /\ LeftOver'
  BY <1>8, RetireQueues, CompleteQueues, CloseQueues, CancelQueues DEF QueueStep
<1>9. ASSUME UiStep PROVE QueueStep /\ LeftOver'
  BY <1>6, <1>7, <1>8, <1>9 DEF UiStep
<1> QED
  BY <1>2, <1>3, <1>4, <1>5, <1>6, <1>9 DEF Next, Terminated

LEMMA OrderKept ==
    ASSUME TypeOK, TypeOK', QueueOrder, QueueStep
    PROVE  QueueOrder'
<1>1. /\ Waiting \in Seq(Tickets) /\ Len(Waiting) \in Nat
      /\ accepted \subseteq Tickets
      /\ Outcome \in [Tickets -> Results]
  BY WaitingIs, LenProperties DEF TypeOK, Outcome
<1>2. ASSUME NEW t \in Tickets, Accepts(t) PROVE QueueOrder'
  <2>1. /\ Len(Waiting') = Len(Waiting) + 1
        /\ \A i \in 1..Len(Waiting) : Waiting'[i] = Waiting[i]
        /\ Waiting'[Len(Waiting) + 1] = t
    BY <1>1, <1>2, AppendProperties DEF Accepts
  <2>2. t \notin accepted /\ accepted' = accepted \cup {t} /\ Outcome' = Outcome
    BY <1>2 DEF Accepts
  <2>3. \A i \in 1..Len(Waiting) :
            Waiting[i] \in accepted /\ Waiting[i] # t /\ Outcome[Waiting[i]] = "none"
    BY <2>2 DEF QueueOrder
  <2>4. Outcome[t] = "none"
    BY <1>2, <2>2 DEF QueueOrder
  <2>5. \A i \in 1..Len(Waiting') : i \in 1..Len(Waiting) \/ i = Len(Waiting) + 1
    BY <1>1, <2>1
  <2>6. \A i \in 1..Len(Waiting') :
            Waiting'[i] \in accepted' /\ Outcome'[Waiting'[i]] = "none"
    BY <2>1, <2>2, <2>3, <2>4, <2>5
  <2>7. \A i, j \in 1..Len(Waiting') : Waiting'[i] = Waiting'[j] => i = j
    BY <2>1, <2>3, <2>5 DEF QueueOrder
  <2>8. \A u \in Tickets \ accepted' : Outcome'[u] = "none"
    BY <2>2 DEF QueueOrder
  <2> QED
    BY <2>6, <2>7, <2>8 DEF QueueOrder, Tickets
<1>3. ASSUME NEW reason \in {"executed", "cancelled"}, Leaves(reason) PROVE QueueOrder'
  <2> DEFINE h == Head(Waiting)
  <2>1. /\ h \in Tickets /\ Len(Waiting') = Len(Waiting) - 1
        /\ \A i \in 1..Len(Waiting') : Waiting'[i] = Waiting[i + 1]
        /\ 1 \in 1..Len(Waiting) /\ h = Waiting[1]
    BY <1>1, <1>3, HeadTailProperties, EmptySeq DEF Leaves
  <2>2. /\ accepted' = accepted
        /\ \A u \in Tickets : u # h => Outcome'[u] = Outcome[u]
    BY <1>1, <1>3 DEF Leaves
  <2>3. \A i \in 1..Len(Waiting') : i + 1 \in 1..Len(Waiting) /\ i + 1 # 1
    BY <1>1, <2>1
  <2>4. ASSUME NEW i \in 1..Len(Waiting')
        PROVE  Waiting'[i] \in accepted' /\ Outcome'[Waiting'[i]] = "none"
    <3>1. Waiting'[i] = Waiting[i + 1] /\ i + 1 \in 1..Len(Waiting) /\ i + 1 # 1
      BY <2>1, <2>3
    <3>2. Waiting[i + 1] \in accepted /\ Outcome[Waiting[i + 1]] = "none"
      BY <3>1 DEF QueueOrder
    <3>3. Waiting[i + 1] # h
      BY <2>1, <3>1 DEF QueueOrder
    <3> QED
      BY <1>1, <2>2, <3>1, <3>2, <3>3
  <2>5. ASSUME NEW i \in 1..Len(Waiting'), NEW j \in 1..Len(Waiting'), Waiting'[i] = Waiting'[j]
        PROVE  i = j
    <3>1. Waiting[i + 1] = Waiting[j + 1] /\ i + 1 \in 1..Len(Waiting) /\ j + 1 \in 1..Len(Waiting)
      BY <2>1, <2>3, <2>5
    <3>2. i + 1 = j + 1
      BY <3>1 DEF QueueOrder
    <3> QED
      BY <1>1, <2>1, <3>2
  <2>6. h \in accepted
    BY <2>1 DEF QueueOrder
  <2>7. \A u \in Tickets \ accepted' : Outcome'[u] = "none"
    BY <2>2, <2>6 DEF QueueOrder
  <2> QED
    BY <2>4, <2>5, <2>7 DEF QueueOrder, Tickets
<1>4. ASSUME Stays PROVE QueueOrder'
  BY <1>4 DEF Stays, QueueOrder, Tickets
<1> QED
  BY <1>2, <1>3, <1>4 DEF QueueStep

LEMMA QueueInvInit ==
    ASSUME Init
    PROVE  QueueInv
<1>1. IInv
  BY IInvInit
<1>2. Waiting = <<>> /\ Len(Waiting) = 0
  <2>1. <<>> \o <<>> = <<>>
    BY EmptySeq, ConcatEmptySeq
  <2> QED
    BY <2>1, EmptySeq DEF Init, Waiting
<1>3. QueueOrder
  BY <1>2 DEF Init, QueueOrder, Outcome, Tickets
<1>4. TicketsFresh /\ LeftOver
  BY DEF Init, TicketsFresh, LeftOver, Scheduling
<1> QED
  BY <1>1, <1>3, <1>4 DEF QueueInv

LEMMA QueueInvNext ==
    ASSUME QueueInv, [Next]_vars
    PROVE  QueueInv'
<1>1. IInv'
  BY IInvNext DEF QueueInv
<1>2. QueueStep /\ TicketsFresh' /\ LeftOver'
  BY NextQueues
<1>3. QueueOrder'
  BY <1>1, <1>2, OrderKept DEF QueueInv, IInv
<1> QED
  BY <1>1, <1>2, <1>3 DEF QueueInv

\* The inductive invariant of the queue: no ticket waits twice, waits with an
\* outcome, or is accepted again.
THEOREM QueueInvHolds == Spec => []QueueInv
<1>1. Init => QueueInv
  BY QueueInvInit
<1>2. QueueInv /\ [Next]_vars => QueueInv'
  BY QueueInvNext
<1> QED
  BY <1>1, <1>2, PTL DEF Spec

\* Through wake events, batches, budgets, requeues and the close, the commands
\* the dispatcher accepts are one FIFO, each executed once while it is open or
\* cancelled once after.
THEOREM DispatcherImplementsCommandQueue == Spec => ImplementsCommandQueue
<1>1. Init => Queue!Init
  <2> SUFFICES ASSUME Init PROVE Queue!Init
    OBVIOUS
  <2>1. Waiting = <<>>
    BY EmptySeq, ConcatEmptySeq DEF Init, Waiting
  <2>2. Outcome = [t \in Tickets |-> "none"]
    BY DEF Init, Outcome, Tickets
  <2> QED
    BY <2>1, <2>2 DEF Init, Waiting, Outcome, Queue!Init, Queue!Tickets, Tickets
<1>2. QueueInv /\ [Next]_vars => [Queue!Next]_(Queue!vars)
  <2> SUFFICES ASSUME QueueInv, QueueInv', QueueStep
               PROVE  Queue!Next \/ UNCHANGED Queue!vars
    BY NextQueues, QueueInvNext
  <2>1. ASSUME NEW t \in Tickets, Accepts(t) PROVE Queue!Accept(t)
    BY <2>1 DEF Accepts, Waiting, Outcome, Queue!Accept
  <2>2. ASSUME NEW reason \in {"executed", "cancelled"}, Leaves(reason) PROVE Queue!Next
    <3>1. Outcome[Head(Waiting)] = "none"
      <4>1. 1 \in 1..Len(Waiting) /\ Head(Waiting) = Waiting[1]
        BY <2>2, WaitingIs, EmptySeq, LenProperties DEF Leaves, QueueInv, IInv
      <4> QED
        BY <4>1 DEF QueueInv, QueueOrder
    <3>2. Queue!Leave(reason)
      BY <2>2, <3>1 DEF Leaves, Waiting, Outcome, Queue!Leave
    <3> QED
      BY <2>2, <3>2 DEF Leaves, Queue!Next, Queue!Execute, Queue!Cancel
  <2>3. ASSUME Stays, open' => open PROVE Queue!Next \/ UNCHANGED Queue!vars
    <3>1. open \in BOOLEAN /\ open' \in BOOLEAN
      BY DEF QueueInv, IInv, TypeOK
    <3> QED
      BY <2>3, <3>1 DEF Stays, Waiting, Outcome, Queue!Next, Queue!Close, Queue!vars
  <2> QED
    BY <2>1, <2>2, <2>3 DEF QueueStep, Queue!Next, Queue!Tickets, Tickets
<1> QED
  BY <1>1, <1>2, QueueInvHolds, PTL DEF Spec, ImplementsCommandQueue, Queue!Spec
=============================================================================
