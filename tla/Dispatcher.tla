----------------------------- MODULE Dispatcher -----------------------------
(***************************************************************************)
(* UiDispatcher (src/src/ui_dispatcher.cpp) at the granularity of its      *)
(* critical sections, with the threads that use it: worker threads that    *)
(* post commands, request frames or the exit and wait for tickets, and the *)
(* UI thread that runs the SDL main-callback loop (src/src/ui_main.cpp):   *)
(* wait for an event, hand every event to UiApp::DispatchEvent, then call  *)
(* UiApp::Tick.  A call to MutateAndArm is one to three steps:             *)
(*                                                                         *)
(*    Enter     first critical section: reject, mutate at once, or reserve *)
(*              a wake generation and leave with wake_scheduling set       *)
(*    Schedule  SDL_PeepEvents(ADDEVENT), outside the mutex                *)
(*    Commit    second critical section: mutate and stop scheduling        *)
(*                                                                         *)
(* A wait on wake_condition is the guard of the step that follows it.  An  *)
(* SDL event is the wake generation it carries, or OrdinaryEvent.          *)
(***************************************************************************)
EXTENDS Naturals, Sequences

CONSTANTS
    Workers,          \* threads other than the UI thread
    UI,               \* the thread UiApp::Initialize ran on
    MaxTickets,       \* bound on the calls of Post
    MaxPending,       \* UiCommandQueueConfig::max_pending
    MaxPerTick,       \* UiCommandQueueConfig::max_commands_per_tick
    LastGeneration,   \* 2^32 - 1 in the code; 0 is never a generation
    SdlCapacity,      \* events the SDL queue holds
    MaxRequests       \* bound on the calls of RequestFrame and RequestExit

ASSUME ThreadsAssumption == UI \notin Workers
ASSUME BoundsAssumption ==
    /\ MaxTickets \in Nat
    /\ MaxRequests \in Nat
    /\ SdlCapacity \in Nat
    /\ MaxPending \in Nat \ {0}
    /\ MaxPerTick \in Nat \ {0}
    /\ LastGeneration \in Nat \ {0}

VARIABLES
    \* UiDispatcherState, guarded by its mutex
    commands, pending_count, next_wake_generation, armed_wake_generation,
    open, wake_scheduling, frame_requested, exit_requested,
    \* UiCommandTicketState::result of every ticket, and the tickets made so far
    result, minted,
    \* the SDL event queue
    sdl,
    \* one call of MutateAndArm or UiCommandTicket::Wait per thread
    pc, call, requests,
    \* locals of the UI thread
    ui, batch, finishing, cancelled, taken, mode,
    \* history: the tickets Post returned
    accepted

shared == <<commands, pending_count, next_wake_generation,
            armed_wake_generation, open, wake_scheduling, frame_requested,
            exit_requested>>
locals == <<batch, finishing, cancelled, taken, mode>>
vars == <<shared, result, minted, sdl, pc, call, requests, ui, locals, accepted>>

Threads == Workers \cup {UI}
Tickets == 1..MaxTickets
NoTicket == 0
Generations == 1..LastGeneration
NotArmed == 0
OrdinaryEvent == 0
Events == Generations \cup {OrdinaryEvent}
Ops == {"post", "frame", "exit", "arm"}
Results == {"none", "executed", "cancelled"}
Modes == {"poll", "waitevent"}     \* UiLoopMode; rate-limited is "poll"

\* Points of the UI thread where it runs the application's code (an event
\* hook, a command, UiElement::Update), which may use the dispatcher itself.
Callbacks == {"hook", "execute", "render"}

UiPoints == Callbacks \cup
    {"wait", "dispatch", "consume", "handled", "drain", "complete", "requeue",
     "rearm", "frame", "exit", "finish", "close", "cancel", "stopped"}

NoCall == [op |-> "arm", ticket |-> NoTicket, generation |-> NotArmed,
           scheduled |-> FALSE]
Calls == [op : Ops, ticket : Tickets \cup {NoTicket},
          generation : Generations \cup {NotArmed}, scheduled : BOOLEAN]

Init ==
    /\ commands = <<>>
    /\ pending_count = 0
    /\ next_wake_generation = 1
    /\ armed_wake_generation = NotArmed
    /\ open = TRUE
    /\ wake_scheduling = FALSE
    /\ frame_requested = TRUE
    /\ exit_requested = FALSE
    /\ result = [t \in Tickets |-> "none"]
    /\ minted = 0
    /\ sdl = <<>>
    /\ pc = [t \in Threads |-> "idle"]
    /\ call = [t \in Threads |-> NoCall]
    /\ requests = 0
    /\ ui = "wait"
    /\ batch = <<>>
    /\ finishing = NoTicket
    /\ cancelled = <<>>
    /\ taken = OrdinaryEvent
    /\ mode = "poll"
    /\ accepted = {}

-----------------------------------------------------------------------------
(* MutateAndArm and the three operations built on it                       *)

ReserveWithoutSkippingZero ==
    next_wake_generation' = (next_wake_generation + 1) % (LastGeneration + 1)

ReserveWakeGeneration ==
    next_wake_generation' =
        IF next_wake_generation = LastGeneration THEN 1
                                                 ELSE next_wake_generation + 1

HasCapacityOffByOne == pending_count <= MaxPending

HasCapacity == pending_count < MaxPending

\* The mutators of Post, RequestFrame, RequestExit and ArmWake.
Mutate(op, ticket) ==
    /\ op = "post" => HasCapacity
    /\ commands' = IF op = "post" THEN Append(commands, ticket) ELSE commands
    /\ pending_count' = IF op = "post" THEN pending_count + 1 ELSE pending_count
    /\ accepted' = IF op = "post" THEN accepted \cup {ticket} ELSE accepted
    /\ frame_requested' = (frame_requested \/ op # "arm")
    /\ exit_requested' = (exit_requested \/ op = "exit")

\* QueueFull, or an allocation that throws: both leave the queue as it was.
MutateFails(op) ==
    /\ op = "post"
    /\ UNCHANGED <<commands, pending_count, accepted, frame_requested,
                   exit_requested>>

\* The call of thread t returns.  Only Drain acts on the result: without a
\* wake for the commands it leaves behind, Tick fails and the loop ends.
Return(t, op, succeeded) ==
    /\ pc' = [pc EXCEPT ![t] = "idle"]
    /\ call' = [call EXCEPT ![t] = NoCall]
    /\ ui' = IF op = "arm" THEN (IF succeeded THEN "frame" ELSE "close") ELSE ui

\* The ticket or the request a call uses up, and where the call may be made.
MayCall(t, op, ticket) ==
    /\ pc[t] = "idle"
    /\ t = UI => ui \in (IF op = "arm" THEN {"rearm"} ELSE Callbacks)
    /\ \/ op = "post" /\ minted < MaxTickets /\ ticket = minted + 1
          /\ minted' = ticket /\ UNCHANGED requests
       \/ op \in {"frame", "exit"} /\ requests < MaxRequests /\ ticket = NoTicket
          /\ requests' = requests + 1 /\ UNCHANGED minted
       \/ op = "arm" /\ t = UI /\ commands # <<>> /\ ticket = NoTicket
          /\ UNCHANGED <<minted, requests>>

MayEnterAnyTime == TRUE

\* The wait on wake_condition.
MayEnter == ~wake_scheduling \/ ~open

Enter(t, op, ticket) ==
    /\ MayCall(t, op, ticket)
    /\ MayEnter
    /\ \/ /\ ~open
          /\ Return(t, op, FALSE)
          /\ UNCHANGED <<shared, accepted>>
       \/ /\ open /\ armed_wake_generation # NotArmed
          /\ \/ Mutate(op, ticket) /\ Return(t, op, TRUE)
             \/ MutateFails(op) /\ Return(t, op, FALSE)
          /\ UNCHANGED <<next_wake_generation, armed_wake_generation, open,
                         wake_scheduling>>
       \/ /\ open /\ armed_wake_generation = NotArmed
          /\ ReserveWakeGeneration
          /\ armed_wake_generation' = next_wake_generation
          /\ wake_scheduling' = TRUE
          /\ pc' = [pc EXCEPT ![t] = "schedule"]
          /\ call' = [call EXCEPT ![t] =
                 [op |-> op, ticket |-> ticket,
                  generation |-> next_wake_generation, scheduled |-> FALSE]]
          /\ UNCHANGED <<commands, pending_count, open, frame_requested,
                         exit_requested, ui, accepted>>
    /\ UNCHANGED <<result, sdl, locals>>

\* SDL may refuse the event whether or not its queue is full.
ScheduleWake(t) ==
    /\ pc[t] = "schedule"
    /\ pc' = [pc EXCEPT ![t] = "commit"]
    /\ \/ /\ Len(sdl) < SdlCapacity
          /\ sdl' = Append(sdl, call[t].generation)
          /\ call' = [call EXCEPT ![t].scheduled = TRUE]
       \/ UNCHANGED <<sdl, call>>
    /\ UNCHANGED <<shared, result, minted, requests, ui, locals, accepted>>

DisarmForgotten(generation) == UNCHANGED armed_wake_generation

Disarm(generation) ==
    armed_wake_generation' =
        IF armed_wake_generation = generation THEN NotArmed
                                              ELSE armed_wake_generation

Commit(t) ==
    /\ pc[t] = "commit"
    /\ \/ /\ open /\ call[t].scheduled
          /\ Mutate(call[t].op, call[t].ticket)
          /\ Return(t, call[t].op, TRUE)
          /\ UNCHANGED armed_wake_generation
       \/ /\ open /\ call[t].scheduled
          /\ MutateFails(call[t].op)
          /\ Disarm(call[t].generation)
          /\ Return(t, call[t].op, FALSE)
       \/ /\ ~open \/ ~call[t].scheduled
          /\ Disarm(call[t].generation)
          /\ Return(t, call[t].op, FALSE)
          /\ UNCHANGED <<commands, pending_count, frame_requested,
                         exit_requested, accepted>>
    /\ wake_scheduling' = FALSE
    /\ UNCHANGED <<next_wake_generation, open, result, minted, sdl, requests,
                   locals>>

-----------------------------------------------------------------------------
(* UiCommandTicket::Wait                                                   *)

WaitBlocksOnAnyThread(t, ticket) == result[ticket] = "none"

\* On the UI thread a pending ticket is reported as WouldDeadlock instead.
WaitBlocks(t, ticket) == result[ticket] = "none" /\ t # UI

Wait(t, ticket) ==
    /\ pc[t] = "idle"
    /\ t = UI => ui \in Callbacks
    /\ ticket \in accepted
    /\ WaitBlocks(t, ticket)
    /\ pc' = [pc EXCEPT ![t] = "waiting"]
    /\ call' = [call EXCEPT ![t].ticket = ticket]
    /\ UNCHANGED <<shared, result, minted, sdl, requests, ui, locals, accepted>>

WaitReturns(t) ==
    /\ pc[t] = "waiting"
    /\ result[call[t].ticket] # "none"
    /\ pc' = [pc EXCEPT ![t] = "idle"]
    /\ call' = [call EXCEPT ![t] = NoCall]
    /\ UNCHANGED <<shared, result, minted, sdl, requests, ui, locals, accepted>>

\* CompleteTicket: only the first result is kept.
CompleteTicket(ticket, outcome) ==
    result' = [result EXCEPT ![ticket] = IF @ = "none" THEN outcome ELSE @]

-----------------------------------------------------------------------------
(* The SDL main-callback loop and UiApp::DispatchEvent                     *)

\* Input the operating system delivers when SDL pumps, between iterations.
Input ==
    /\ ui = "wait"
    /\ Len(sdl) < SdlCapacity
    /\ sdl' = Append(sdl, OrdinaryEvent)
    /\ UNCHANGED <<shared, result, minted, pc, call, requests, ui, locals,
                   accepted>>

\* ApplyLoopRate: with "waitevent" the loop sleeps until there is an event.
Awake ==
    /\ ui = "wait"
    /\ mode = "waitevent" => sdl # <<>>
    /\ ui' = "dispatch"
    /\ UNCHANGED <<shared, result, minted, sdl, pc, call, requests, locals,
                   accepted>>

\* Every event is taken off the SDL queue before it is dispatched; Tick
\* follows when there is none left.
TakeEvent ==
    /\ ui = "dispatch"
    /\ IF sdl = <<>>
       THEN ui' = "drain" /\ UNCHANGED <<sdl, taken>>
       ELSE ui' = "consume" /\ taken' = Head(sdl) /\ sdl' = Tail(sdl)
    /\ UNCHANGED <<shared, result, minted, pc, call, requests, batch,
                   finishing, cancelled, mode, accepted>>

ConsumeDispatcherWakeEvent ==
    /\ ui = "consume"
    /\ taken # OrdinaryEvent
    /\ Disarm(taken)
    /\ taken' = OrdinaryEvent
    /\ ui' = "dispatch"
    /\ UNCHANGED <<commands, pending_count, next_wake_generation, open,
                   wake_scheduling, frame_requested, exit_requested, result,
                   minted, sdl, pc, call, requests, batch, finishing,
                   cancelled, mode, accepted>>

\* Any other event goes to the event hooks, which may use the dispatcher; it
\* ends in Exit, in a hook's error or in a frame request that needs no wake.
DispatchEvent ==
    /\ pc[UI] = "idle"
    /\ \/ ui = "consume" /\ taken = OrdinaryEvent /\ ui' = "hook"
          /\ UNCHANGED frame_requested
       \/ ui = "hook" /\ ui' = "close" /\ UNCHANGED frame_requested
       \/ ui = "hook" /\ ui' = "dispatch" /\ open /\ frame_requested' = TRUE
    /\ UNCHANGED <<commands, pending_count, next_wake_generation,
                   armed_wake_generation, open, wake_scheduling,
                   exit_requested, result, minted, sdl, pc, call, requests,
                   locals, accepted>>

-----------------------------------------------------------------------------
(* DrainDispatcher, first thing in UiApp::Tick                             *)

Watermark == IF Len(commands) < MaxPerTick THEN Len(commands) ELSE MaxPerTick

Drain ==
    /\ ui = "drain"
    /\ MayEnter
    /\ IF open
       THEN /\ armed_wake_generation' = NotArmed
            /\ batch' = SubSeq(commands, 1, Watermark)
            /\ commands' = SubSeq(commands, Watermark + 1, Len(commands))
            /\ ui' = IF commands = <<>> THEN "rearm" ELSE "execute"
       ELSE /\ ui' = "close"
            /\ UNCHANGED <<armed_wake_generation, batch, commands>>
    /\ UNCHANGED <<pending_count, next_wake_generation, open, wake_scheduling,
                   frame_requested, exit_requested, result, minted, sdl, pc,
                   call, requests, finishing, cancelled, taken, mode, accepted>>

\* The command returned or threw; its slot is given back before its ticket
\* completes.
RetireCommand ==
    /\ ui = "execute"
    /\ pc[UI] = "idle"
    /\ finishing' = Head(batch)
    /\ batch' = Tail(batch)
    /\ pending_count' = pending_count - 1
    /\ ui' = "complete"
    /\ UNCHANGED <<commands, next_wake_generation, armed_wake_generation, open,
                   wake_scheduling, frame_requested, exit_requested, result,
                   minted, sdl, pc, call, requests, cancelled, taken, mode,
                   accepted>>

\* The loop goes on unless the batch or the execution budget is exhausted.
CompleteCommand ==
    /\ ui = "complete"
    /\ CompleteTicket(finishing, "executed")
    /\ finishing' = NoTicket
    /\ \/ ui' = IF batch = <<>> THEN "rearm" ELSE "execute"
       \/ batch # <<>> /\ ui' = "requeue"
    /\ UNCHANGED <<shared, minted, sdl, pc, call, requests, batch, cancelled,
                   taken, mode, accepted>>

RequeuedBehind == commands \o batch

\* What the budget left over goes back to the front, in order.
Requeued == batch \o commands

Requeue ==
    /\ ui = "requeue"
    /\ commands' = Requeued
    /\ batch' = <<>>
    /\ ui' = "rearm"
    /\ UNCHANGED <<pending_count, next_wake_generation, armed_wake_generation,
                   open, wake_scheduling, frame_requested, exit_requested,
                   result, minted, sdl, pc, call, requests, finishing,
                   cancelled, taken, mode, accepted>>

\* HasPendingCommands is false; otherwise the UI thread enters ArmWake.
NothingPending ==
    /\ ui = "rearm"
    /\ pc[UI] = "idle"
    /\ commands = <<>>
    /\ ui' = "frame"
    /\ UNCHANGED <<shared, result, minted, sdl, pc, call, requests, locals,
                   accepted>>

-----------------------------------------------------------------------------
(* The rest of UiApp::Tick                                                 *)

ConsumeFrameRequest ==
    /\ ui = "frame"
    /\ pc[UI] = "idle"
    /\ frame_requested' = FALSE
    /\ ui' = "exit"
    /\ UNCHANGED <<commands, pending_count, next_wake_generation,
                   armed_wake_generation, open, wake_scheduling,
                   exit_requested, result, minted, sdl, pc, call, requests,
                   locals, accepted>>

\* Without an exit request the tick renders, or skips the frame (nothing to
\* draw, or minimized) and returns the loop rate of the frame policy.
ConsumeExitRequest ==
    /\ ui = "exit"
    /\ exit_requested' = FALSE
    /\ \/ exit_requested /\ ui' = "close" /\ UNCHANGED mode
       \/ ~exit_requested /\ ui' = "render" /\ UNCHANGED mode
       \/ ~exit_requested /\ ui' = "wait" /\ mode' \in Modes
    /\ UNCHANGED <<commands, pending_count, next_wake_generation,
                   armed_wake_generation, open, wake_scheduling,
                   frame_requested, result, minted, sdl, pc, call, requests,
                   batch, finishing, cancelled, taken, accepted>>

\* Element updates and the renderer are done: an error ends the loop, the
\* frame demand OneMoreFrame is RequestFrameWithoutWake.
Render ==
    /\ ui = "render"
    /\ pc[UI] = "idle"
    /\ \/ ui' = "close" /\ UNCHANGED frame_requested
       \/ ui' = "finish" /\ open /\ frame_requested' = TRUE
       \/ ui' = "finish" /\ UNCHANGED frame_requested
    /\ UNCHANGED <<commands, pending_count, next_wake_generation,
                   armed_wake_generation, open, wake_scheduling,
                   exit_requested, result, minted, sdl, pc, call, requests,
                   locals, accepted>>

PendingCommandsOnly == commands # <<>> \/ exit_requested

HasPendingDispatcherWork ==
    commands # <<>> \/ frame_requested \/ exit_requested

FinishTick ==
    /\ ui = "finish"
    /\ mode' \in (IF HasPendingDispatcherWork THEN {"poll"} ELSE Modes)
    /\ ui' = "wait"
    /\ UNCHANGED <<shared, result, minted, sdl, pc, call, requests, batch,
                   finishing, cancelled, taken, accepted>>

DropWakeOnly ==
    /\ armed_wake_generation' = NotArmed
    /\ UNCHANGED <<frame_requested, exit_requested>>

DropRequests ==
    /\ armed_wake_generation' = NotArmed
    /\ frame_requested' = FALSE
    /\ exit_requested' = FALSE

\* Reached from an exit, from a failed Tick or DispatchEvent (SDL_AppQuit
\* calls UiApp::Shutdown) and never during a frame.
CloseDispatcher ==
    /\ ui = "close"
    /\ ~wake_scheduling
    /\ ui' = "cancel"
    /\ IF open
       THEN /\ open' = FALSE
            /\ DropRequests
            /\ cancelled' = commands
            /\ commands' = <<>>
            /\ pending_count' = pending_count - Len(commands)
       ELSE UNCHANGED <<open, armed_wake_generation, frame_requested,
                        exit_requested, cancelled, commands, pending_count>>
    /\ UNCHANGED <<next_wake_generation, wake_scheduling, result, minted, sdl,
                   pc, call, requests, batch, finishing, taken, mode, accepted>>

CancelCommand ==
    /\ ui = "cancel"
    /\ IF cancelled = <<>>
       THEN ui' = "stopped" /\ UNCHANGED <<result, cancelled>>
       ELSE /\ CompleteTicket(Head(cancelled), "cancelled")
            /\ cancelled' = Tail(cancelled)
            /\ UNCHANGED ui
    /\ UNCHANGED <<shared, minted, sdl, pc, call, requests, batch, finishing,
                   taken, mode, accepted>>

-----------------------------------------------------------------------------

CallStep(t) ==
    \/ \E op \in Ops, ticket \in Tickets \cup {NoTicket} : Enter(t, op, ticket)
    \/ ScheduleWake(t)
    \/ Commit(t)
    \/ WaitReturns(t)

UiStep ==
    \/ Awake \/ TakeEvent \/ ConsumeDispatcherWakeEvent \/ DispatchEvent
    \/ Drain \/ RetireCommand \/ CompleteCommand \/ Requeue \/ NothingPending
    \/ ConsumeFrameRequest \/ ConsumeExitRequest \/ Render \/ FinishTick
    \/ CloseDispatcher \/ CancelCommand

\* The loop has ended and no worker is inside a call.
Terminated ==
    /\ ui = "stopped"
    /\ \A t \in Threads : pc[t] = "idle"
    /\ UNCHANGED vars

Next ==
    \/ \E t \in Threads : CallStep(t)
    \/ \E t \in Threads, ticket \in Tickets : Wait(t, ticket)
    \/ UiStep
    \/ Input
    \/ Terminated

Spec == Init /\ [][Next]_vars

\* The operating system schedules every thread: the UI thread takes its next
\* step and a worker finishes the call it is in.  A worker need not call.
FinishCall(t) == ScheduleWake(t) \/ Commit(t) \/ WaitReturns(t)

Fairness ==
    /\ WF_vars(UiStep \/ CallStep(UI))
    /\ \A t \in Workers : WF_vars(FinishCall(t))

FairSpec == Spec /\ Fairness

-----------------------------------------------------------------------------
(* Properties                                                              *)

\* The type of every variable; in particular the generation counter skips 0
\* when it wraps, and pending_count never goes below zero.
TypeOK ==
    /\ commands \in Seq(Tickets)
    /\ batch \in Seq(Tickets)
    /\ cancelled \in Seq(Tickets)
    /\ pending_count \in Nat
    /\ next_wake_generation \in Generations
    /\ armed_wake_generation \in Generations \cup {NotArmed}
    /\ open \in BOOLEAN
    /\ wake_scheduling \in BOOLEAN
    /\ frame_requested \in BOOLEAN
    /\ exit_requested \in BOOLEAN
    /\ result \in [Tickets -> Results]
    /\ minted \in 0..MaxTickets
    /\ sdl \in Seq(Events)
    /\ pc \in [Threads -> {"idle", "schedule", "commit", "waiting"}]
    /\ call \in [Threads -> Calls]
    /\ requests \in 0..MaxRequests
    /\ ui \in UiPoints
    /\ finishing \in Tickets \cup {NoTicket}
    /\ taken \in Events
    /\ mode \in Modes
    /\ accepted \in SUBSET Tickets

Scheduling(t) == pc[t] \in {"schedule", "commit"}

\* wake_scheduling works as a lock around the unlocked SDL call: it is set
\* exactly while one thread is between the two critical sections of
\* MutateAndArm, and no dispatcher closes under such a thread.
OneScheduler ==
    /\ wake_scheduling <=> \E t \in Threads : Scheduling(t)
    /\ \A t, u \in Threads : Scheduling(t) /\ Scheduling(u) => t = u
    /\ wake_scheduling => open

WakeInFlight(generation) ==
    \/ \E i \in 1..Len(sdl) : sdl[i] = generation
    \/ taken = generation

\* An armed generation always has its event on the way to the UI thread, so a
\* caller that finds one armed may leave its work to that event.
ArmedWakeIsInFlight ==
    /\ armed_wake_generation # NotArmed /\ ~wake_scheduling
           => WakeInFlight(armed_wake_generation)
    /\ \A t \in Threads :
           /\ Scheduling(t) =>
                  armed_wake_generation \in {NotArmed, call[t].generation}
           /\ Scheduling(t) /\ call[t].scheduled
                  /\ armed_wake_generation # NotArmed
              => WakeInFlight(armed_wake_generation)

\* Points of the UI thread between draining and its next wake event, where
\* nothing disarms the generation a thread is scheduling.
AfterDrain == {"wait", "execute", "complete", "requeue", "rearm", "frame",
               "exit", "render", "finish"}

UnseenWork == commands # <<>> \/ frame_requested \/ exit_requested

Reserved == armed_wake_generation # NotArmed /\ ~wake_scheduling

\* Work the UI thread has looked for and will not look for again before it
\* sleeps is covered by an armed wake event, whatever the workers do between
\* the checks of a Tick.
LeftWorkIsReserved ==
    /\ ui \in AfterDrain => \A t \in Threads :
           Scheduling(t) => armed_wake_generation = call[t].generation
    /\ ui = "frame" /\ commands # <<>> => Reserved
    /\ ui = "exit" /\ (commands # <<>> \/ frame_requested) => Reserved
    /\ ui = "wait" /\ mode = "waitevent" /\ UnseenWork => Reserved

\* The protocol of the wake event between the mutex, the SDL queue and the
\* points of Tick: the part of the inductive invariant NoLostWake rests on.
WakeProtocol == OneScheduler /\ ArmedWakeIsInFlight /\ LeftWorkIsReserved

\* No lost wake: the SDL loop never sleeps on an empty event queue while
\* there are commands or requests, unless a thread is about to add the event.
NoLostWake ==
    ui = "wait" /\ mode = "waitevent" /\ sdl = <<>> /\ UnseenWork
        => wake_scheduling

\* pending_count, the number max_pending limits, counts the queued commands
\* and those of the batch DrainDispatcher has yet to finish, through partial
\* batches, requeues and the close.
PendingCountExact ==
    /\ pending_count = Len(commands) + Len(batch)
    /\ pending_count <= MaxPending

\* Once closed the dispatcher holds no work: nothing is queued, armed or
\* flagged, and the UI thread only has cancelled tickets left to complete.
ClosedIsQuiescent ==
    ~open => /\ commands = <<>> /\ batch = <<>> /\ finishing = NoTicket
             /\ armed_wake_generation = NotArmed
             /\ ~frame_requested /\ ~exit_requested
             /\ ui \in {"cancel", "stopped"}

\* What a call of MutateAndArm carries between its steps.
CallShape(t) ==
    Scheduling(t) =>
        /\ call[t].generation \in Generations
        /\ call[t].op = "post" => call[t].ticket \in Tickets
        /\ t = UI => ui \in Callbacks \cup {"rearm"}
        /\ call[t].op = "arm" => t = UI /\ ui = "rearm"
        /\ t = UI /\ ui = "rearm" => call[t].op = "arm"

\* The locals of the UI thread at each of its points.
LocalsShape ==
    /\ ui = "execute" => batch # <<>>
    /\ batch # <<>> => ui \in {"execute", "complete", "requeue"}
    /\ taken # OrdinaryEvent => ui = "consume"
    /\ finishing # NoTicket => ui = "complete"
    /\ \A t \in Threads : CallShape(t)

\* The inductive invariant.
IInv ==
    /\ TypeOK
    /\ LocalsShape
    /\ WakeProtocol
    /\ PendingCountExact
    /\ ClosedIsQuiescent

\* The dispatcher implements the abstract queue: FIFO order across batches
\* and requeues, each command executed once or cancelled once, none executed
\* after the close.
Queue == INSTANCE CommandQueue WITH
    queue <- batch \o commands \o cancelled,
    outcome <- [t \in Tickets |-> IF t = finishing THEN "executed" ELSE result[t]],
    closed <- ~open

ImplementsCommandQueue == Queue!Spec

\* Every ticket Post returned eventually completes, by execution or by
\* cancellation, so a thread in UiCommandTicket::Wait returns.
TicketsComplete ==
    \A ticket \in Tickets : ticket \in accepted ~> result[ticket] # "none"

\* An accepted exit request eventually closes the dispatcher although the
\* loop may be asleep when it is made.
ExitIsHonoured == exit_requested ~> ~open

\* An accepted frame request eventually reaches a Tick (or the close).
FrameRequestIsServed == frame_requested ~> ~frame_requested
=============================================================================
