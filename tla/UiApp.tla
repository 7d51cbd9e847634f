------------------------------- MODULE UiApp -------------------------------
(***************************************************************************)
(* The lifecycle of UiApp (src/src/ui_app.cpp) and its element registry    *)
(* (src/src/ui_element_registry.cpp) under re-entrancy.  Everything runs   *)
(* on the UI thread, but UiApp calls the application back (event hooks,    *)
(* dispatcher commands, UiElement::Update, element destructors) and that   *)
(* code may call any operation of UiApp again.  The C++ call stack is the  *)
(* variable stack; the application runs when it is empty or when its top   *)
(* is at one of the UserPoints.                                            *)
(***************************************************************************)
EXTENDS Naturals, Sequences, FiniteSets

CONSTANTS MaxElements,  \* bound on the elements ever made
          MaxDepth      \* bound on the call stack

ASSUME UiAppAssumption == MaxElements \in Nat /\ MaxDepth \in Nat

VARIABLES
    lifecycle,               \* UiLifecycleState
    frame_active, imgui_frame_active, event_dispatch_active,
    dispatcher,              \* "none", "open" or "closed"
    exit_requested,          \* of the dispatcher
    m_elements, m_pending_elements, m_next_id, m_updating,
    stack,
    made,                    \* history: number of elements ever added
    destroyed,               \* history: destructor runs per element
    interrupted              \* history: an Update failed since the last Commit

flags == <<lifecycle, frame_active, imgui_frame_active, event_dispatch_active>>
loop == <<dispatcher, exit_requested>>
registry == <<m_elements, m_pending_elements, m_next_id, m_updating>>
history == <<made, destroyed, interrupted>>
vars == <<flags, loop, registry, stack, history>>

Lifecycles == {"Empty", "Initializing", "Ready", "ExitRequested",
               "ShuttingDown", "Failed"}
Actions == {"Pass", "Consume", "Exit"}
UserPoints == {"before", "after", "command", "updating", "destroying",
               "clearing"}
TickPoints == {"tick", "command", "update", "updating", "render"}
DispatchPoints == {"before", "after"}

\* An element is identified by its position in the order of creation; the
\* registry's identifiers start again at 1 after a shutdown.
Element(serial, id) ==
    [serial |-> serial, id |-> id, remove_requested |-> FALSE]
Elements == [serial : 1..MaxElements, id : 1..MaxElements,
             remove_requested : BOOLEAN]

Frame(at) == [at |-> at, index |-> 0, doomed |-> <<>>, action |-> "Pass"]
Top == stack[Len(stack)]
Below == SubSeq(stack, 1, Len(stack) - 1)
Calls(frame) == stack' = Append(stack, frame)
Goes(frame) == stack' = Append(Below, frame)
Returns == stack' = Below
At(point) == stack # <<>> /\ Top.at = point

\* The application's own code has control and may call UiApp.
InUserCode ==
    /\ Len(stack) < MaxDepth
    /\ (stack # <<>> => Top.at \in UserPoints)

Init ==
    /\ lifecycle = "Empty"
    /\ frame_active = FALSE
    /\ imgui_frame_active = FALSE
    /\ event_dispatch_active = FALSE
    /\ dispatcher = "none"
    /\ exit_requested = FALSE
    /\ m_elements = <<>>
    /\ m_pending_elements = <<>>
    /\ m_next_id = 1
    /\ m_updating = FALSE
    /\ stack = <<>>
    /\ made = 0
    /\ destroyed = [serial \in 1..MaxElements |-> 0]
    /\ interrupted = FALSE

CloseDispatcher ==
    /\ dispatcher' = IF dispatcher = "open" THEN "closed" ELSE dispatcher
    /\ exit_requested' = FALSE

-----------------------------------------------------------------------------
(* Initialize and Shutdown                                                 *)

\* A failure after Initializing is rolled back by Cleanup(Failed), which
\* finds no element and saves nothing.
Initialize ==
    /\ InUserCode
    /\ lifecycle = "Empty"
    /\ \/ lifecycle' = "Ready" /\ dispatcher' = "open" /\ UNCHANGED m_next_id
       \/ lifecycle' = "Failed" /\ UNCHANGED dispatcher /\ m_next_id' = 1
    /\ exit_requested' = FALSE
    /\ frame_active' = FALSE
    /\ imgui_frame_active' = FALSE
    /\ event_dispatch_active' = FALSE
    /\ UNCHANGED <<m_elements, m_pending_elements, m_updating, stack, history>>

MayShutdownInHook == ~frame_active

MayShutdown == ~frame_active /\ ~event_dispatch_active

\* Cleanup up to the destructors UiElementRegistry::Clear runs.
Shutdown ==
    /\ InUserCode
    /\ MayShutdown
    /\ lifecycle \notin {"ShuttingDown", "Empty"}
    /\ lifecycle' = "ShuttingDown"
    /\ CloseDispatcher
    /\ m_updating' = TRUE
    /\ m_elements' = <<>>
    /\ m_pending_elements' = <<>>
    /\ Calls([Frame("clearing") EXCEPT !.doomed = m_elements \o m_pending_elements])
    /\ UNCHANGED <<frame_active, imgui_frame_active, event_dispatch_active,
                   m_next_id, history>>

CountDestroyed(serial) ==
    destroyed' = [destroyed EXCEPT ![serial] = @ + 1]

\* Clear repeats while the destructors add elements, then Cleanup releases
\* everything else and reaches its final state.
ClearStep ==
    /\ At("clearing")
    /\ IF Top.doomed # <<>>
       THEN /\ CountDestroyed(Head(Top.doomed).serial)
            /\ Goes([Top EXCEPT !.doomed = Tail(@)])
            /\ UNCHANGED <<flags, loop, registry, made, interrupted>>
       ELSE IF m_elements \o m_pending_elements # <<>>
       THEN /\ Goes([Top EXCEPT !.doomed = m_elements \o m_pending_elements])
            /\ m_elements' = <<>>
            /\ m_pending_elements' = <<>>
            /\ UNCHANGED <<flags, loop, m_next_id, m_updating, history>>
       ELSE /\ Returns
            /\ m_next_id' = 1
            /\ m_updating' = FALSE
            /\ lifecycle' = "Empty"
            /\ dispatcher' = "none"
            /\ frame_active' = FALSE
            /\ imgui_frame_active' = FALSE
            /\ event_dispatch_active' = FALSE
            /\ interrupted' = FALSE
            /\ UNCHANGED <<exit_requested, m_elements, m_pending_elements,
                           made, destroyed>>

-----------------------------------------------------------------------------
(* The element registry                                                    *)

SizeAsId == Len(m_elements) + Len(m_pending_elements) + 1

FreshId == m_next_id

AddElement ==
    /\ InUserCode
    /\ lifecycle = "Ready"
    /\ made < MaxElements
    /\ made' = made + 1
    /\ m_next_id' = m_next_id + 1
    /\ IF m_updating
       THEN /\ m_pending_elements' =
                   Append(m_pending_elements, Element(made + 1, FreshId))
            /\ UNCHANGED m_elements
       ELSE /\ m_elements' = Append(m_elements, Element(made + 1, FreshId))
            /\ UNCHANGED m_pending_elements
    /\ UNCHANGED <<flags, loop, m_updating, stack, destroyed, interrupted>>

Marked(entries, id) ==
    [i \in DOMAIN entries |->
        IF entries[i].id = id THEN [entries[i] EXCEPT !.remove_requested = TRUE]
                              ELSE entries[i]]

HasEntry(entries, id) == \E i \in DOMAIN entries : entries[i].id = id

AlwaysCommitsAtOnce == TRUE

\* Storage must not move while Update iterates over it.
CommitsAtOnce == ~m_updating

RemoveElement(id) ==
    /\ InUserCode
    /\ lifecycle = "Ready"
    /\ HasEntry(m_elements, id) \/ HasEntry(m_pending_elements, id)
    /\ IF HasEntry(m_elements, id)
       THEN /\ m_elements' = Marked(m_elements, id)
            /\ UNCHANGED m_pending_elements
       ELSE /\ m_pending_elements' = Marked(m_pending_elements, id)
            /\ UNCHANGED m_elements
    /\ IF CommitsAtOnce THEN Calls(Frame("commit")) ELSE UNCHANGED stack
    /\ UNCHANGED <<flags, loop, m_next_id, m_updating, history>>

\* The entries at the positions of S, in their order.
Subsequence(entries, S) ==
    LET order == CHOOSE f \in [1..Cardinality(S) -> S] :
                     \A i, j \in DOMAIN f : i < j => f[i] < f[j]
    IN  [k \in DOMAIN order |-> entries[order[k]]]

\* What Commit detaches, and the two ways it sorts it.
ElementsOnly == m_elements
Everything == m_elements \o m_pending_elements
Kept == {i \in DOMAIN Everything : ~Everything[i].remove_requested}
Removed == {i \in DOMAIN Everything : Everything[i].remove_requested}

\* The survivors become the registry; then the removed elements are destroyed.
Commit ==
    /\ At("commit")
    /\ IF Removed # {}
       THEN /\ m_updating' = TRUE
            /\ Goes([Frame("destroying") EXCEPT !.doomed = Subsequence(Everything, Removed)])
       ELSE Returns /\ UNCHANGED m_updating
    /\ m_elements' = Subsequence(Everything, Kept)
    /\ m_pending_elements' = <<>>
    /\ interrupted' = FALSE
    /\ UNCHANGED <<flags, loop, m_next_id, made, destroyed>>

HasRemovals == \E i \in DOMAIN m_elements : m_elements[i].remove_requested

MoreToCommit == m_pending_elements # <<>> \/ HasRemovals

\* One destructor returns; after the last the loop looks for what they asked.
CommitStep ==
    /\ At("destroying")
    /\ IF Top.doomed # <<>>
       THEN /\ CountDestroyed(Head(Top.doomed).serial)
            /\ Goes([Top EXCEPT !.doomed = Tail(@)])
            /\ UNCHANGED m_updating
       ELSE /\ m_updating' = FALSE
            /\ IF MoreToCommit THEN Goes(Frame("commit")) ELSE Returns
            /\ UNCHANGED destroyed
    /\ UNCHANGED <<flags, loop, m_elements, m_pending_elements, m_next_id, made,
                   interrupted>>

-----------------------------------------------------------------------------
(* Tick                                                                    *)

\* UiDispatcher::RequestExit, from any thread.
RequestExit ==
    /\ dispatcher = "open"
    /\ exit_requested' = TRUE
    /\ UNCHANGED <<flags, dispatcher, registry, stack, history>>

ReentrantTick == lifecycle = "Ready"

MayTick == lifecycle = "Ready" /\ ~frame_active

Tick ==
    /\ InUserCode
    /\ MayTick
    /\ frame_active' = TRUE
    /\ Calls(Frame("tick"))
    /\ UNCHANGED <<lifecycle, imgui_frame_active, event_dispatch_active, loop,
                   registry, history>>

\* DrainDispatcher runs the application's commands one after another.
RunCommand ==
    /\ At("tick")
    /\ Goes([Top EXCEPT !.at = "command"])
    /\ UNCHANGED <<flags, loop, registry, history>>

CommandReturns ==
    /\ At("command")
    /\ Goes([Top EXCEPT !.at = "tick"])
    /\ UNCHANGED <<flags, loop, registry, history>>

\* FrameActivityGuard
LeaveTick == Returns /\ frame_active' = FALSE

\* Display metrics, draining or PrepareBeforeFrame failed, or the frame policy
\* asks for no frame.
TickWithoutFrame ==
    /\ At("tick")
    /\ LeaveTick
    /\ UNCHANGED <<lifecycle, imgui_frame_active, event_dispatch_active, loop,
                   registry, history>>

TickExits ==
    /\ At("tick")
    /\ exit_requested
    /\ lifecycle' = "ExitRequested"
    /\ CloseDispatcher
    /\ LeaveTick
    /\ UNCHANGED <<imgui_frame_active, event_dispatch_active, registry, history>>

\* NewFrame and the dockspace.  When the dockspace fails the frame is opened and
\* ended within one call without callbacks: TickWithoutFrame.
StartFrame ==
    /\ At("tick")
    /\ ~exit_requested
    /\ imgui_frame_active' = TRUE
    /\ m_updating' = TRUE
    /\ Goes([Top EXCEPT !.at = "update", !.index = 1])
    /\ UNCHANGED <<lifecycle, frame_active, event_dispatch_active, loop,
                   m_elements, m_pending_elements, m_next_id, history>>

\* UiElementRegistry::Update, one entry at a time.
UpdateNext ==
    /\ At("update")
    /\ Top.index <= Len(m_elements)
    /\ IF m_elements[Top.index].remove_requested
       THEN Goes([Top EXCEPT !.index = @ + 1])
       ELSE Goes([Top EXCEPT !.at = "updating"])
    /\ UNCHANGED <<flags, loop, registry, history>>

\* UiElement::Update returns whether the element stays.
UpdateReturns(keep_alive) ==
    /\ At("updating")
    /\ m_elements' = IF keep_alive THEN m_elements
                     ELSE [m_elements EXCEPT ![Top.index].remove_requested = TRUE]
    /\ Goes([Top EXCEPT !.at = "update", !.index = @ + 1])
    /\ UNCHANGED <<flags, loop, m_pending_elements, m_next_id, m_updating, history>>

\* UiElement::Update fails or throws: no Commit, the ImGui frame is abandoned.
UpdateFails ==
    /\ At("updating")
    /\ m_updating' = FALSE
    /\ imgui_frame_active' = FALSE
    /\ interrupted' = TRUE
    /\ LeaveTick
    /\ UNCHANGED <<lifecycle, event_dispatch_active, loop, m_elements,
                   m_pending_elements, m_next_id, made, destroyed>>

UpdateEnds ==
    /\ At("update")
    /\ Top.index > Len(m_elements)
    /\ m_updating' = FALSE
    /\ stack' = Append(Append(Below, [Top EXCEPT !.at = "render"]), Frame("commit"))
    /\ UNCHANGED <<flags, loop, m_elements, m_pending_elements, m_next_id, history>>

FailedButOpen == lifecycle' = "Failed" /\ UNCHANGED loop

FailFrame == lifecycle' = "Failed" /\ CloseDispatcher

Render ==
    /\ At("render")
    /\ imgui_frame_active' = FALSE
    /\ FailFrame \/ UNCHANGED <<lifecycle, loop>>
    /\ LeaveTick
    /\ UNCHANGED <<event_dispatch_active, registry, history>>

-----------------------------------------------------------------------------
(* DispatchEvent                                                           *)

DispatchEvent ==
    /\ InUserCode
    /\ lifecycle = "Ready"
    /\ ~frame_active
    /\ ~event_dispatch_active
    /\ event_dispatch_active' = TRUE
    /\ Calls(Frame("before"))
    /\ UNCHANGED <<lifecycle, frame_active, imgui_frame_active, loop, registry,
                   history>>

\* A hook that fails or throws abandons the event.
HookFails ==
    /\ At("before") \/ At("after")
    /\ Returns
    /\ event_dispatch_active' = FALSE
    /\ UNCHANGED <<lifecycle, frame_active, imgui_frame_active, loop, registry,
                   history>>

\* before_imgui answers; an event it passes on may be a request to quit.
BeforeHookReturns(answer, quits) ==
    /\ At("before")
    /\ Goes([Top EXCEPT !.at = "after",
                        !.action = IF answer = "Pass" /\ quits THEN "Exit"
                                   ELSE answer])
    /\ UNCHANGED <<flags, loop, registry, history>>

\* after_imgui may raise the action but never lower it.
Raised(action, answer) ==
    IF answer = "Exit" \/ (answer = "Consume" /\ action = "Pass") THEN answer
    ELSE action

\* The event ends: Exit stops the application, anything else asks the
\* dispatcher for a frame (an error when a nested Tick closed it).
AfterHookReturns(answer) ==
    /\ At("after")
    /\ IF Raised(Top.action, answer) = "Exit"
       THEN lifecycle' = "ExitRequested" /\ CloseDispatcher
       ELSE UNCHANGED <<lifecycle, loop>>
    /\ Returns
    /\ event_dispatch_active' = FALSE
    /\ UNCHANGED <<frame_active, imgui_frame_active, registry, history>>

-----------------------------------------------------------------------------
Next ==
    \/ Initialize \/ Shutdown \/ ClearStep
    \/ AddElement \/ (\E id \in 1..MaxElements : RemoveElement(id))
    \/ Commit \/ CommitStep
    \/ RequestExit \/ Tick \/ RunCommand \/ CommandReturns
    \/ TickWithoutFrame \/ TickExits \/ StartFrame \/ UpdateNext
    \/ (\E keep_alive \in BOOLEAN : UpdateReturns(keep_alive))
    \/ UpdateFails \/ UpdateEnds \/ Render
    \/ DispatchEvent \/ HookFails
    \/ (\E answer \in Actions, quits \in BOOLEAN : BeforeHookReturns(answer, quits))
    \/ (\E answer \in Actions : AfterHookReturns(answer))

Spec == Init /\ [][Next]_vars

-----------------------------------------------------------------------------
(* Properties                                                              *)

Count(points) == Cardinality({i \in DOMAIN stack : stack[i].at \in points})

\* The activity flags say what the call stack says: at most one Tick and one
\* DispatchEvent, no event dispatched inside a frame, and an ImGui frame is
\* open exactly while elements update or wait to be rendered; other threads can
\* post commands exactly while the application is Ready.
FlagsMatchStack ==
    /\ Count(TickPoints) = IF frame_active THEN 1 ELSE 0
    /\ Count(DispatchPoints) = IF event_dispatch_active THEN 1 ELSE 0
    /\ Count({"update", "updating", "render"}) = IF imgui_frame_active THEN 1 ELSE 0
    /\ \A i, j \in DOMAIN stack :
           stack[i].at \in TickPoints /\ stack[j].at \in DispatchPoints => j < i
    /\ dispatcher = "open" <=> lifecycle = "Ready"

\* Every variable keeps its type, no element is destroyed twice (a second run of
\* a destructor would use freed storage of the registry), and the flags match.
TypeOK ==
    /\ lifecycle \in Lifecycles
    /\ frame_active \in BOOLEAN
    /\ imgui_frame_active \in BOOLEAN
    /\ event_dispatch_active \in BOOLEAN
    /\ dispatcher \in {"none", "open", "closed"}
    /\ exit_requested \in BOOLEAN
    /\ m_elements \in Seq(Elements)
    /\ m_pending_elements \in Seq(Elements)
    /\ m_next_id \in 1..MaxElements + 1
    /\ m_updating \in BOOLEAN
    /\ \A i \in DOMAIN stack :
           /\ stack[i].at \in TickPoints \cup UserPoints \cup {"commit"}
           /\ stack[i].doomed \in Seq(Elements)
           /\ stack[i].action \in Actions
    /\ made \in 0..MaxElements
    /\ destroyed \in [1..MaxElements -> 0..1]
    /\ interrupted \in BOOLEAN
    /\ FlagsMatchStack

Occurrences(entries, serial) ==
    Cardinality({i \in DOMAIN entries : entries[i].serial = serial})

\* Live elements have different identifiers below the next one, whatever was
\* removed or shut down in between.
UniqueIds ==
    LET all == Everything
    IN  \A i, j \in DOMAIN all :
            /\ all[i].id < m_next_id
            /\ all[i].id = all[j].id => i = j

\* Every element ever added is in exactly one place: registered, pending,
\* waiting for its destructor in one of the nested Commit or Clear calls, or
\* destroyed once.  Commit and Clear move the storage out before they run
\* destructors, and these may call Commit or Clear again.  Live elements have
\* different identifiers below the next one.
OwnedOnceOrDestroyed ==
    /\ UniqueIds
    /\ \A serial \in 1..made :
           LET waiting == {i \in DOMAIN stack : Occurrences(stack[i].doomed, serial) > 0}
           IN  /\ \A i \in waiting : Occurrences(stack[i].doomed, serial) = 1
               /\ Occurrences(m_elements, serial) + Occurrences(m_pending_elements, serial)
                      + Cardinality(waiting) + destroyed[serial] = 1

Updating == \E i \in DOMAIN stack : stack[i].at \in {"update", "updating"}

\* While Update iterates over m_elements nothing, however deeply nested, adds,
\* moves or destroys an entry of it ("registry storage is stable").
ElementsStay ==
    Updating =>
        /\ [i \in DOMAIN m_elements |-> m_elements[i].serial]'
              = [i \in DOMAIN m_elements |-> m_elements[i].serial]
        /\ UNCHANGED destroyed
IterationIsStable == [][ElementsStay]_vars

\* Nothing UiApp owns is torn down under a Tick or DispatchEvent that is still
\* on the call stack and goes on to use it.
NoCleanupUnderneath ==
    Count(TickPoints \cup DispatchPoints) > 0 =>
        lifecycle \notin {"Empty", "ShuttingDown"} /\ dispatcher # "none"

\* Once no call is in progress every addition and removal has been carried
\* out, unless the last frame's Update failed and left them to the next one.
CommittedWhenIdle ==
    stack = <<>> /\ ~interrupted => m_pending_elements = <<>> /\ ~HasRemovals

\* README.md:179 draws Failed -> ShuttingDown as the only way out of Failed.
FailedOnlyShutsDown ==
    [][lifecycle = "Failed" => lifecycle' \in {"Failed", "ShuttingDown"}]_vars
=============================================================================
