# Verification of Uni.GUI

TLA+ models of Uni.GUI (an SDL3 / Dear ImGui application framework with a node
editor), the TLC configurations that check them on small instances, and TLAPS
proofs of what matters most for every size of the system. Paths are those of
the repository; `src/ui_app.cpp` below means `src/ui_app.cpp` of the repository
root.

| module | kind | what it is |
|---|---|---|
| `CommandQueue` | abstract specification | what a dispatcher promises its callers |
| `Dispatcher` | model | `UiDispatcher`, tickets, the SDL event queue and the callback loop |
| `DispatcherProofs` | proofs | the wake protocol and the FIFO refinement for any number of threads |
| `UiApp` | model | application lifecycle and element registry under re-entrancy |
| `UiAppProofs` | proofs | ownership and the guards for any number of elements and any nesting |
| `AssetStore` | model | byte assets and the fonts made from them |
| `TextureStore` | model | texture handles, their data, the frame and the renderer |
| `EditHistory` | abstract specification | what an undo history promises |
| `CommandStack` | model | undo, redo, deferral and the transaction commit check |
| `CommandStackProofs` | proofs | the invariant of any number of command stacks nested in each other's callbacks; a stack implements `EditHistory` for every limit |
| `GraphHierarchy` | model | graphs that call and own each other, edited by transactions, and what Commit checks of them |
| `GraphHierarchyProofs` | proofs | what Commit checks is enough, and not too much, for any number of graphs |
| `ElementDocument` | operators | the mutators of `GraphDocument` and `GraphPresentation` for one graph, and what makes it valid |
| `ElementTransaction` | operators | the operations of a transaction on top of them: protection first |
| `GraphElements` | model | the commands on nodes, pins, links, routes and groups, with undo and redo |
| `ElementCommandProofs` | proofs | the commands on what a graph already has: names, protection, groups, routes, links, dynamic pins |
| `GraphElementsProofs` | proofs | the other commands, and the history: commands keep any document valid, can be undone and redone exactly and spare what is protected |
| `RouteSequence` | model | the chunked sequence that keeps the points of a route |
| `RouteSequenceProofs` | proofs | a version holds the points of the list for any capacity; differences are exact |
| `GraphClipboard` | model | copy, prepare, paste and the undo of a paste |
| `GraphAssets` | model | the registry of shared graphs and its subscribers |
| `RegistryCatalog` | model | node types and conversions, updates, and what an invocation has read of them |
| `RegistryProofs` | proofs | fonts follow their assets, texture data outlives its users, the shared graphs and the catalog of node types stay sound, subscribers learn of every change and a current command reads the same |
| `MCDispatcher`, `MCUiApp`, `MCCommandStack`, `MCGraphHierarchy`, `MCGraphElements`, `MCRouteSequence` | instances | what TLC runs |
| `MCComponents` | instances | the components that share no state, one at a time |

Check a run with `tlc -config MCDispatcherSafety.cfg MCDispatcher`, the proofs
with `tlapm` on the eight `*Proofs.tla`. `PROJECT.json` maps every definition to the
source lines it stands for, every property to a seeded bug that breaks it, and
every hazard to the properties that watch it.

## 1. The system

Two layers share one library.

**Application layer.** `UiApp` owns the SDL window, the renderer, the ImGui and
ImPlot contexts, the elements the application draws, fonts, textures and dock
layouts. It belongs to the thread that called `Initialize` and every operation
checks that. `UiDispatcher` is the one part other threads may touch: they post
commands, request a frame or the exit, and wake the SDL loop with an SDL event.
`ui_main.cpp` connects both to SDL's main callbacks: sleep or poll according to
the loop rate, hand each event to `DispatchEvent`, call `Tick`.

**Node editor.** A `GraphDocument` holds graphs of nodes, pins and links, a
`GraphPresentation` their positions and groups. Both change only through a
`GraphTransaction` which snapshots them, stages mutations, validates and
publishes. A `CommandStack` runs commands inside transactions, asks policies
for authorization, defers, replaces, undoes and redoes. `RegistryCatalog` holds
the node and pin types, `GraphAssetRegistry` shared subgraphs, the editor draws
and turns input into commands, `Workspace` ties one of each together.

| component | state | operations | interacts through |
|---|---|---|---|
| Dispatcher (`ui_dispatcher.cpp`) | command queue, pending count, armed wake generation, request flags, tickets | Post, RequestFrame, RequestExit, Wait, Drain, Close | mutex and condition variables, SDL events, `UiApp::Tick` |
| UiApp (`ui_app.cpp`) | lifecycle, frame / event activity flags | Initialize, Shutdown, Tick, DispatchEvent | callbacks: event hooks, commands, `UiElement::Update`, destructors |
| Element registry (`ui_element_registry.cpp`) | elements, pending additions, removal marks | Add, Remove, Update, Commit, Clear | runs the application's `Update` and destructors |
| Dock layouts (`ui_dock_layout.cpp`) | definitions, saved snapshots, active and pending layout, dirty flag | Define, Remove, Activate, Load, Save | file system, ImGui's ini state, `Tick` |
| Assets and fonts (`ui_asset_manager.cpp`) | assets by key, fonts by id, default font | Upsert, Remove, CreateFont, RemoveFont | ImGui's font atlas |
| Textures (`ui_texture.cpp`) | store of texture data, handles | Create, Update, Destroy | renderer, two frames later |
| Graph document / presentation | graphs, nodes, pins, links; positions, groups; revisions and allocation epochs | transaction mutators, Commit | transactions only |
| Command stack (`nodes/commands/command_stack.cpp`) | undo, redo, pending operation, binding, limit, busy | Execute, Undo, Redo, Resume, Cancel, Clear | Command::Apply/Revert, policies, factories |
| Registry catalog (`ui_nodes_registry_core.h`) | immutable generations, leases | update transactions | invocation leases, dependency records of pending operations |
| Graph assets (`ui_nodes_graph_asset.cpp`) | records, dependencies and their reverse index, subscriptions | Write, Unregister, Subscribe | change callbacks |
| Node editor (`nodes/editor/`) | selection, pointer state, geometry cache | one frame | executes commands |
| Workspace (`workspace.h`) | document, presentation, stack, editor | Save, Load, Draw | exclusive operation of its stack |

What is hard here is not arithmetic but *who runs when*:

- **threads**: the dispatcher releases its mutex around the SDL call, and the
  loop sleeps on a queue the dispatcher does not own;
- **re-entrancy**: everything else runs on one thread, but nearly every
  operation calls application code in the middle of its work, and that code may
  call any operation again;
- **deferral**: an authorized command may wait for approval across any number
  of other operations, then commit the state it staged long ago;
- **limits and wrap-around**: generations, revisions, identifiers, history
  limits, queue capacity.

Per component, the properties that make it correct: the dispatcher loses no
wake-up and no ticket and answers in FIFO order; the element registry owns each
element exactly once and destroys it exactly once, wherever destruction is
triggered; `UiApp` never tears down what a caller still uses and closes the
dispatcher whenever it stops being Ready; a command stack's history is a path
through the states the document had, fits the document while it is bound to it,
and no edit overwrites another; a graph document never refers to something that
does not exist; the asset registry stays acyclic and its reverse index exact; a
saved layout comes back as it was left.

## 2. Dispatcher

`Dispatcher.tla` follows `ui_dispatcher.cpp` at the granularity of critical
sections, which is the granularity at which threads can see each other.

| in the model | in the code |
|---|---|
| `Enter`, `ScheduleWake`, `Commit` | the three parts of `MutateAndArm`: first critical section, `SDL_PeepEvents` without the mutex, second critical section |
| `Mutate(op)` | the mutators `Post`, `RequestFrame`, `RequestExit`, `ArmWake` pass to it |
| `Wait`, `WaitReturns`, `CompleteTicket` | `UiCommandTicket::Wait` and its condition variable |
| `Awake`, `TakeEvent`, `ConsumeDispatcherWakeEvent`, `DispatchEvent` | SDL's loop with the hint of `ApplyLoopRate`, `UiApp::DispatchEvent` |
| `Drain`, `RetireCommand`, `CompleteCommand`, `Requeue`, `NothingPending` | `DrainDispatcher` at the start of `Tick` |
| `ConsumeFrameRequest`, `ConsumeExitRequest`, `Render`, `FinishTick` | the rest of `Tick` where it touches the dispatcher |
| `CloseDispatcher`, `CancelCommand` | `CloseDispatcher` |

A wait on a condition variable is the guard of the step that follows it. A
command is its ticket. The application's code runs at the points `Callbacks`
and may use the dispatcher there, on the UI thread, as workers may at any time.

`CommandQueue.tla` is the promise: a FIFO of at most `MaxPending` accepted
commands, each leaving once, executed while open or cancelled after. Under the
mapping `queue <- batch \o commands \o cancelled`, `ImplementsCommandQueue`
says that the batches, the requeue and the close are invisible to callers.

**Runs.** `dispatcher_safety` (2 workers, 3 commands, capacity 2, batches of 2,
generations 1..2, SDL queue of 2, one request): 281 568 states. Three commands
with capacity two reach `QueueFull`; two per tick and a budget that may end
earlier leave a remainder to requeue; two generations wrap within the run; the
SDL queue fills up and also refuses events at will. `dispatcher_liveness` has
one command less.

**Fairness.** Only weak fairness: of the UI thread as a whole and of a worker
that is inside a call. A worker need not start a call, and an operating system
that runs every runnable thread gives no more: `std::mutex` and condition
variables promise no strong fairness. The number of calls is bounded, so a
thread that waits for `wake_scheduling` is not overtaken forever in the
instance; this is where the bound carries weight, and the README of the code
promises nothing else. Input arrives only while SDL pumps between two
iterations, so events cannot keep the loop from reaching `Tick`.

**Proved** (`DispatcherProofs.tla`, all constants arbitrary):

1. `TypeOK` and the shape of the locals (`LocalsShape`) are inductive together
   with the rest; on their own they are not, because `pending_count - 1` stays a
   natural number only thanks to the exact count.
2. `WakeProtocol`, the heart: `OneScheduler` (the flag `wake_scheduling` is a
   lock around the unlocked SDL call), `ArmedWakeIsInFlight` (an armed
   generation always has its event in the SDL queue or in the hands of the UI
   thread), `LeftWorkIsReserved` (work the UI thread looked at and left behind
   is covered by an armed event). The third is what makes the invariant
   inductive: without it the state "asleep with work" has a predecessor in
   which nothing looks wrong.
3. `NoLostWake` follows: the loop asleep, work present and no event queued
   would need an armed generation without event.
4. `PendingCountExact` and `ClosedIsQuiescent` from the same invariant.
5. `ImplementsCommandQueue`: the dispatcher is a FIFO. `QueueInv` adds to the
   invariant that what waits in `batch \o commands \o cancelled` was accepted,
   waits once and has no outcome (`QueueOrder`), that a ticket between the two
   critical sections of its `Post` is new (`TicketsFresh`), and that only a
   closed dispatcher has commands left to cancel (`LeftOver`). Every action is
   then an accept, a leave at the head or a stutter (`QueueStep`). The order
   could break where a budget leaves a rest, which must go back in front of what
   was posted meanwhile, and in the close, which must find no batch in progress.

Each action has one step in the proof and each conjunct it can disturb one
below. The assumptions are the two ASSUMEs of `Dispatcher`. Liveness is
model-checked only.

## 3. UiApp and the element registry

`UiApp.tla` makes the C++ call stack a variable. Application code has control
when the stack is empty or its top is at a callback (`UserPoints`: before and
after hook, command, `UiElement::Update`, destructors run by Commit and by
Clear); there it may call every operation again. Everything between two
callbacks is one step. A frame of the stack carries the locals that survive the
callback: the index of `Update`, the entries waiting for their destructor, the
event action. The stack is cut at `MaxDepth`; with three elements seven frames
are the deepest nesting that occurs, so the bound does not cut anything.

Left out because no property here depends on it: textures, fonts, display
metrics, settings, the choice whether to render (a tick may end without frame).

**Runs.** In `components` with three elements: 158 044 states, five
properties. Three elements are enough for: one being destroyed, whose
destructor removes a second and adds a third. `uiapp_failed_is_left` shows a
divergence from the documented lifecycle, see findings.

**What is asked.** An element is owned in exactly one place or destroyed once
(`OwnedOnceOrDestroyed`); nothing is torn down under a caller
(`NoCleanupUnderneath`); once no call is in progress nothing waits for removal
or addition (`CommittedWhenIdle`); elements do not move while `Update` iterates
over them (`IterationIsStable`); the guards and flags say what the stack says
(`TypeOK`).

**Proved** (`UiAppProofs.tla`, any `MaxElements` and `MaxDepth`): all five. None
is inductive; `Inv` is `Shape` (types) and:

- `Flags`, `Teardown`, `Iteration`: which calls may be under which. A flag such
  as `m_updating` is one bit, the stack may hold any number of calls that set and
  clear it; that at most one `Update` is there and nothing lasting is above it
  is what lets the bit stand for the call.
- `Promised`: an addition or a removal mark that waits is waited for, by the
  `Update`, the `Commit` or the destructor loop in progress, unless an `Update`
  failed.
- `Ownership`: registered, pending, dead and waiting for a destructor are
  disjoint and together all elements made. The last are spread over the frames
  of the stack, for `Commit` and `Clear` move the entries into a local before
  they destroy them; two such loops may be nested, and `DoomedOnce` says that no
  two frames hold the same element.
- `Identifiers`: two live elements never have the same one.

The stack is described by a few predicates of a set of points (`In`, `Once`,
`OnTop`, `Under`); one lemma per way the stack changes says what becomes of
them, so that no step argues about positions in a sequence.

## 4. Command stack

`CommandStack.tla` models `Execute`, `Undo` (both modes), `Redo`, `Resume`
(both modes), `Cancel`, `Clear`, `SetHistoryLimit` and the exclusive operation
with every callback as a point where calls of *other* stacks may run; the stack
itself is busy there. A document stands for a `GraphDocument` together with its
`GraphPresentation`; a command is what it does to the content, recorded as the
entry `[before, after]`. What policies answer, whether `TryMerge` merges and
which step fails is nondeterministic. Revisions, allocation epochs and deferred
identifiers are bounded by their own maximum (`LastRevision`, `LastEpoch`,
`LastDeferredId`), so the exhaustion paths of the code are the bounds of the
model and no extra bound is needed.

`EditHistory.tla` is the promise: a timeline of states with a cursor. The
mapping reads the timeline off the undo and redo sequences;
`ImplementsEditHistory` checks every stack against it. A new edit may push any
number of the oldest states out, not one: `SetHistoryLimit` cuts undo and redo
separately, so redo can make the undo history longer than the limit
(`commandstack_limit_exceeded`), and the next `Execute` erases all that is too
much. With limits 0 and 2 and four revisions no run is long enough to see two
states go at once; the proof for every limit is.

**Runs.** `commandstack_two_stacks`: two stacks on one document, limits 0 and 2,
one replacement, four revisions, two epochs, three contents, 438 420 states up
to renaming. Two stacks are needed for any lost update, and three contents to
see one: with two, the edit that overwrites and the edit it overwrites end in
the same content; limit 2 for histories on both sides of the cursor; limit 0
for the unbound stack. The sessions start (`OpenedDocuments`) from a document
whose identifiers are used up, with all revisions to come, and from one with
identifiers and one revision left: an identifier may be reserved directly around
one commit, and the exhaustion of either counter occurs. The part "history" of
`components` has one stack that is offered two documents and two catalogs and
two deferred identifiers. `commandstack_limit_exceeded` is a finding.

**What is asked.** A history that is bound fits its document
(`HistoryFitsDocument`); the command an undo, a redo or a pending operation
stands for is still the last of its history when the call goes on after a
callback (`CommandStaysLast`); no commit overwrites an edit it has not seen
(`NoLostUpdate`); identifiers of deferred operations are fresh, so that a late
`Resume` or `Cancel` never reaches another operation (`DeferredIdIsFresh`).

**Proved** (`CommandStackProofs.tla`; any stacks, documents, catalogs, contents
and limits, calls nested to any depth):

1. The invariant `Inv` (`StacksStayInOrder`), and from it `TypeOK`,
   `CommandStaysLast`, `HistoryFitsDocument` and `NoLostUpdate`.
2. `ImplementsEditHistory`. `Line(u, now, r)` is the history `u`, `r` read as
   states through the present one; a lemma for each rewriting of the two
   sequences (append, amend, move over, cut) says which abstract action it is,
   and `StepIsEdit` that a step makes at most one of them, in one stack.
3. `DeferredIdsAreFresh`: identifiers are given out in order, storing the
   operation may fail or not, and the counter stops at 0 instead of starting
   again (`Spent`). The part "history" of `components` checks the same step by
   step.

None of the checked properties is inductive. `Inv` is `Shape` (types) and:

- `Job`, what holds of a command from the call that starts it to its commit,
  over every callback and for as long as it stays pending: a document that is
  still at the revision of the baseline still has its content, the command was
  made from that content, the stack is still unbound or bound to that very
  baseline, and an undo or redo is still the last entry. At the commit the
  check of the revision turns this into "the document is as the command found
  it": no edit is lost and the history still fits.
- `HistoryOf`, which speaks of a stack whose document has moved on: its history
  is joined but need not fit, and fits again never, because revisions only
  grow. `HistoryFitsDocument` alone would allow a document to come back to an
  old revision with other content.
- `Matches`, between a call and the pending operation of its stack: only the
  call that asks the policy again runs with one, and it is the same operation.
  Without it a pending undo could be overtaken by the commit of another.
- `Alone`: one call of a stack at a time, never during an exclusive operation.
  It makes the commit of one stack leave the jobs of the others alone, whose
  histories and bindings it does not touch.

The assumptions are those of `CommandStack`: `CommandStackAssumption` and
`NoneAssumption` (an absent binding is not a binding).

**Fairness.** None: every call returns when the application's callbacks do,
which the code cannot promise. Only safety is stated.

## 5. Graph hierarchy

A transaction stages mutations on a copy of the document and journals the
identifiers they touch. Each mutator checks a part of the structure, `Commit`
drops from the journal what equals the baseline again and checks what is left
and its neighbours; only loading a file runs `ValidateStructure` over
everything. Whether the parts add up to the whole is the question of
`GraphHierarchy.tla`.

| in the model | in the code |
|---|---|
| `SetRootGraph`, `AddGraph`, `RemoveGraph`, `ReplaceGraph`, `AddNode`, `RemoveNode`, `SetPins`, `SetNodeSubgraph`, `AddIntergraphLink`, `RemoveIntergraphLink` | the mutators of `GraphDocument` with their journaling in `GraphTransaction`; restoring is adding |
| `SetGraphInterface` | `SetGraphInterfaceCommand::Apply`, several `ReplaceGraph` that make sense together only |
| `SetNodePresentation` | the same of `GraphTransaction`; of groups and links nothing is kept |
| `RejectedReplacement` | a `ReplaceGraph` that fails after it stored its baseline |
| `ChangedNodes` and the like, `Accepted` | `FinalizeJournal`, the validation in `Commit` |
| `ValidateStructure` | the same, in named parts |

Whether a graph has an index entry is read off the document: the incremental
indexes (`callers`, `dependencies`) are represented by what they index.

**Profile.** `GraphTransaction` is public, and an application's own commands
may use mutators in ways the library's do not. `Liberties` says which of them
a run allows. With none, everything below holds. With each of them alone a
document that `ValidateStructure` refuses is committed: `lifetime` leaves a call
to a graph of the wrong lifetime, `hide` an orphaned presentation, `forward` (a
replaced graph that calls one which `AddGraph` adds later) a cycle,
`interface` call sites or an added node out of step, `regain` two owners (a
graph drops its owner of another, a third graph with an owner of it is added,
the first is replaced by what it was), `reuse` and `prune` see the findings; for
these two a `CompoundCommand` of library commands is enough. Only those two
are kept as runs. The commands of the library keep to the profile one by one:
`ReplaceGraph` is called by `SetNodeSubgraphCommand` and `SetGraphInterfaceCommand`
(`nodes/commands/hierarchy.cpp`), with a copy of the graph as it is and its call
sites brought in step, or at undo and redo with one captured that way; and an
owned reference is never taken from a node.

**Runs.** `hierarchy_commits`: two graphs, three nodes of which one may have a
presentation, one channel, transactions of up to two mutations, of one where
proxies or the channel take part (`MaxJoined`): 115 408 states up to renaming.
Two mutations are needed for anything the journal may forget (a mutation that
reverts an earlier one), three nodes for a graph with both boundary nodes and a
call site of it, two graphs for a call; calls and a channel together close the
cycles of two graphs. Every commit starts a new transaction, so documents of
any size these sets allow are reached. The proof below found what these bounds
do not reach: the counterexample to `regain` needs three graphs and three
mutations.

`OnlyInvalidIsRefused` is the converse of the rest, that no valid document is
refused; it excludes a node identifier that moves to another graph (`Moved`),
which the code refuses when the node has a presentation or a graph was replaced.

**Proved** (`GraphHierarchyProofs.tla`; any sets of graphs, nodes, channels and
roles, transactions of any length): in the profile (`Liberties = {}`), `TypeOK`,
`OwnersMatchLifetimes`, `InterfacesInSync` and `ChannelsSound`, which together
are `ValidateStructure(document)`; with any liberties, `OnlyInvalidIsRefused`.

The invariant relates the staged document to the journal, which is all `Commit`
has to go by. It has two kinds of conjuncts. Some parts of `ValidateStructure`
every mutator keeps by itself: `Placed`, `Referring`, `Unforked`, `ValidRoot` and
`ValidDependencies` hold of the staged document at all times. The others may be
broken in the middle of a transaction, and the invariant says where the journal
then points:

- `Journal`, `Seen`: what differs from the baseline is journaled, by element or
  by a baseline of its graph (`Kept`), and such a baseline itself differs from the
  document only where the journal says so. It may: it is the graph as it was when
  it was first replaced, after other mutations.
- `Fits`, `Synced`: a call that does not fit the lifetime of its target, and pins
  out of step, are journaled.
- `Excl`: two owners of one graph are either both new to the journal or one of
  them is named by it. This is what `regain` breaks.
- `ShownKept`: a presentation without node is one the journal shows.
- `NoMoves`: no node identifier changes its graph. This is `reuse`.

`CommittedIsValid` turns it into the theorem: of what the journal names after
`FinalizeJournal`, `Accepted` has looked at it; the rest is as in the committed
document, which is valid because it was committed before. The conjuncts were
checked as invariants first, on this instance and on larger ones of three graphs
or of three mutations (up to 305 543 states).

## 6. Elements of one graph

What a command does to nodes, pins, links, route points and groups is written
in three layers, as in the code: `ElementDocument` has the mutators, each of
which gives the document it leads to or `None`; `ElementTransaction` asks first
whether anything protects what they touch, in the document the transaction
began with or in the staged one; `GraphElements` has the commands.

| in the model | in the code |
|---|---|
| `Applied`, `Reverted` of an entry of the history | `Apply` and `Revert` of its class in `nodes/commands/` |
| `command`, `saved` of an entry | its arguments, and what it captured at its first `Apply` |
| `done`, `undone` | the two histories of `CommandStack` |
| `trail` | history variable: the documents in between |

A command keeps what it needs to be undone, never a document; redo applies the
command again with what it kept the first time. Whether that suffices around
any other commands is `HistoryReplays`: undo and redo lead exactly to the
documents of the trail. `DocumentSound` says that all these documents pass
`ValidateGraph` and `ValidatePresentationMaps`, though each mutator checks only
what it changes; `ProtectedStay` that a command which touches many elements,
executed or done again, respects the protection of every one.

**Run.** `elements_commands`: three nodes, two links, two groups, two route
points, two dynamic pins, all kinds of commands, histories of two commands
(`MaxCommands`, undone ones included), from three documents (`Imported`): two
linked nodes in a group, two apart with other types, one with dynamic pins;
40 410 states. Two commands are what a first `Apply` and something in its way
need; a third would only be a second obstacle. `Behind = FALSE` keeps dynamic
pins before the last static pin, where nothing goes wrong; `elements_pin_order`
has them behind it, a finding.

**Proved** (`ElementCommandProofs.tla`, `GraphElementsProofs.tla`): the three
properties, for any finite sets of nodes, links, groups and route points, any
documents that a session may start from, any of the features and any length of
the history, under `~Behind`.

1. What makes a document valid is cut into what nodes, links and the presentation
   each need (`GoodGraph`, `NodesGood`, `LinksGood`, `GoodIs`), so that a mutator
   has to be followed only in the part it writes. With it, `StaticLast`: a node
   that may have two static pins ends with one. It is what makes `ProjectPins`
   reversible (`ProjectedOrder`: the static pins go into the places of those that
   were there, and none is left over in the middle), and the only place where
   `~Behind` is used; `elements_pin_order` is the counterexample without it.
2. `XIs`, one for each operation of a transaction: what it leads to, what it asked of
   protection, and, in the other direction, when a transaction that does not
   enforce protection never refuses it. The second half is what undo stands on:
   `Revert` may not fail, so each restoring operation is shown to be possible in the
   document that the command left (`ConnectsAgain`: a link of a valid document can
   be put back wherever the other links are a part of the old ones; route points
   have one owner, `OwnsPoints`, so that what was shown of several links can be
   put back in any order).
3. A command on many elements is a fold over a set. `FoldsExist` and `SubsetInduct`
   give each fold a relation that holds after every subset (`LostLinks`, `PutBack`,
   `Relinked`, `Regrouped` and others), so that the order of the iteration, which
   the code takes from hash maps, does not matter.
4. `Undoes(d, c)`: what c leads to is valid, `Revert` with what was captured gives d
   back, and, unless c changes protection, everything protected in d is as it was
   (`Spared`). `XUndoes` shows it for each kind of command, `FCovered` for every
   command of a feature.
5. The inductive invariant `Replayable` (`HistoryKept`) is about the whole history,
   not the current document: every document of the trail is valid, and every entry,
   done or undone, leads from its document to the next one and back, sparing what is
   protected. The properties speak of the two entries next to the current
   document; after an undo these are others, which is why they are not
   inductive. `DocumentStaysSound`, `HistoryAlwaysReplays` and `ProtectionStays`
   follow from it.

**Routes.** The list of points that commands see is kept by
`PersistentRoutePointSequence` in chunks which versions of a route share, with
an index from points to chunks, a size and a fingerprint, each updated by hand.
`RouteSequence` has its insertion, move, removal, split, merge and
`DifferenceIds`. Part "route" of `components` (chunks of two, four points,
15 992 states) compares it with a plain list (`RouteConsistent`) and
`DifferenceIds` with the difference of the lists (`DifferenceExact`), which
`SetLink` relies on to update the owners of points. `route_structure` is a
finding.

**Proved** (`RouteSequenceProofs.tla`): `RouteConsistent` and `DifferenceExact`,
for any capacity of a chunk from two, any number of points and any last chunk id.

1. A version is `Good` when it has a chunk, by_id has the same chunks in the order
   of their ids, all below the next one, each chunk is of a legal size, the index of
   a point is the id of the chunk it is in and 0 without one, no point occurs twice,
   and size and fingerprint are those of the points. `Holds(r, s)` adds that the
   points are the sequence s.
2. `FromVectorGood`, `InsertHolds`, `MoveHolds` and `RemoveHolds`: each operation of
   the class takes a version that holds a list to one that holds the list changed
   likewise. For a split (`InsertSplits`) the order of two writes to the index
   matters, first the new point, then the new half; for a removal (`RemnantIs`,
   `NamesDiffer`, `RemnantIndexed`) that a group of chunks is named after one of its
   own, whose index is left alone, so that names differ and lookups stay right.
3. `DifferenceIs`: of any two versions that hold lists, `DifferenceIds` is the
   difference of the lists. It asks nothing of how the versions are related: a chunk
   id may have been given twice, after an undo, for different chunks, and a point be
   in chunks of different ids; what goes from one chunk to another is in both halves
   of the chunk-by-chunk difference, and the last step takes it out of both.
4. `RouteInv`: the current version holds `list`, the kept one what it was kept with,
   and the id that is given next is in neither. It is inductive, and by 2 and 3
   gives the two properties.

The folds (`FlattenSeq`, the walk over the chunks in `Remove`) are recursive
functions; what they compute is proved by induction over a set of numbers or of
sequences (`Induct`, `SeqInduct`), which needs no operator as a parameter.

## 7. Clipboard

`GraphClipboard` follows a fragment from `CaptureGraphFragment` through the
checks and renaming of `PrepareGraphFragmentPaste` to `Apply` and `Revert` of
`PasteGraphFragmentCommand`. Between the steps the document, its protection and
the registered node type may change, and the text may be one this program did
not write (`ReceiveText`). Pins are abstracted into their nodes, and JSON into
the fragment. The part "clipboard" of `components` opens a document of four
graphs, one that owns one that owns a third, and a called one, with a link, a
route point, a channel and groups, and allows one edit around the paste
(`MaxEdits`): 22 070 states. An accepted paste is an exact copy under new
identifiers and nothing else changed (`PasteIsACopy`); its undo succeeds and
gives back the document (`UndoRemovesPaste`); and what was prepared is pasted
unless something named is in the way (`PreparedIsPasted`): a paste protects
what it has just made, so the wrong order would lock it out of its own
elements.

## 8. Catalog and shared graphs

`RegistryCatalog` has the update transaction of `ui_nodes_registry_core.h`:
staged registrations of node types and conversions, the next state built aside
and published at once, the index of conversions by node type, generations,
revisions, registration identifiers and their exhaustion, leases that hold
updates off, and the recorder that remembers what a command read while it was
prepared. Three parts of `components` look at it: "writers" with updates of two
operations and three generations, "readers" with updates of one operation
around two reads, "rereaders" with one more generation, in which a recipe is
built twice. `CatalogSound`: registrations, conversions and index agree.
`CurrentMeansSameAnswers`: a command whose reads count as current would read
the same now. `RevisionsIdentify`: equal revisions mean equal content.

An update is a record of two lists, the operations on nodes and on conversions
in the order in which they were staged, and the callback set last: `Commit` goes
through each list on its own. The loops are recursive functions over the length
of a list.

**Proved** (`RegistryProofs.tla`; any node types, keys and queries,
updates of any length): the three properties.

- `CatalogSound` is inductive, the work is in the fold. Conversions may swap
  their keys within one update, so a registration may take the key of another
  whose own operation is still to come; in between the catalog is not sound.
  `Staged` is what holds after `n` operations: a registration displaced from its
  key still has its last operation ahead, which takes it elsewhere
  (`Displaced`), one whose last operation is done is where that put it
  (`Accounted`), and each has a recipe in the catalog or among the displaced.
  After the last operation none can be displaced. That each has a recipe also
  means that the code's error "Conversion staging lost its recipe" is
  unreachable.
- `RevisionsIdentify` comes from `Follows`, an order between any two published
  states: counters only grow, and where one stands still so does what it counts.
- `CurrentMeansSameAnswers` needs `RecorderInv`: every read has left its mark
  (`Recorded`) in the recorder, in a summary mark where its capacity was reached,
  and marks stay (`Grows`).

Statements about the folds are proved by induction over the number of operations
done (`Induct`), from the well-foundedness of the natural numbers.

`GraphAssets` has `Write`, `Unregister`, `Subscribe` and `Reset` of
`ui_nodes_graph_asset.cpp`. The callbacks of a change run one at a time after
the commit; they may subscribe and unsubscribe, and while they run no write is
taken. Part "registry" of `components`: three assets, two interfaces, two
generations and one subscriber, up to renaming of assets. `RegistrySound`: uses
are valid, acyclic, and the reverse index, which only sees differences, is their
inverse. `SubscribersUpToDate`: who rebuilds what its events name has the
registry as it is. `Dispatch` runs every callback for one event, then the next:
`calls` is that nested loop, events with the callbacks that wait for them. What
an asset reaches (`DependencyClosure`, `DependentClosure`) is the least closed set
of assets.

**Proved** (`RegistryProofs.tla`; any finite set of assets, any subscribers and
interfaces): both.

- `RegistrySound` together with the types (`Kept`) is inductive. `Write` validates
  the asset, the absence of a cycle through it, and its dependents as the reverse
  index knows them; the lemmas about closures say that this is enough: a new cycle
  passes through the asset that changed (`StaysAcyclic`), and who uses it is in
  the index (`Duality`).
- `SubscribersUpToDate` speaks of the end of the callbacks. `Told` is what holds
  between them: every subscriber either has an asset as it is or still has a
  callback for it (`Informed`), and no event has been overtaken by another change
  of its asset, which is so because no write is taken while callbacks run
  (`Truthful`).

## 9. Fonts and textures

`AssetStore` has `Upsert` (with the replacement that rebuilds every font of the
asset and rolls back when the atlas refuses one), `Remove`, `CreateFont`,
`SetDefaultFont` and `RemoveFont` of `UiAssetManager`. The atlas of Dear ImGui
is external; it may refuse any font, and a font object may come back at the
address of one that was removed. Two assets, three fonts and two generations
(9 886 states); `FontsFollowAssets` relates assets, fonts, atlas and default.

`TextureStore` has handles, data, draw lists, the list the backend sees and the
textures on the GPU through `NewFrame`, drawing, `Render` or `EndFrame`, the
renderer, and shutdown in between. Dear ImGui and the renderer backend are
external. Three textures (12 924 states).

**Proved** (`RegistryProofs.tla`):

- `FontsFollowAssets`, for any limits, keys and bytes. `AssetsKept` and `FontsKept`
  add that identifiers in use are below the next one, that the fallback font is
  of no asset and stays, and that the limit counts the fonts. The last has a
  purpose: a replacement builds the new fonts of an asset before it removes the
  old ones, and that the atlas has an object for each is a statement about numbers
  (`FreeIsLarge`).
- `TexturesOutliveTheirUsers`, for any set of textures: data outlives its handles,
  the draw lists that name it and its texture on the GPU, and no texture is left
  on the GPU without its data. By itself it is not inductive. `DrawnStays` adds
  that what is drawn stays registered until the lists are closed even if its
  handles go, and that `Render` shows the backend what is registered until the
  renderer runs; `OnGpuIsSeen` that the backend sees everything on the GPU, without
  which `Cleanup` could leave something behind; `EntriesKept` the fields of the
  entries.

## 10. Components in one run

`MCComponents` is the disjoint union of ten instances that share no state: the
variable `part` is chosen at the start, only that part moves, and the variables
of the others stay as they were initially, or `None`. A property of the run
speaks of one part; those of `CommandStack` and `GraphClipboard`
have a prefix (`History_`, `Clipboard_`), for their variables are `None` in the
other parts. Assets may be renamed (`Symmetry`). 386 942 states in all.
Deadlock is not checked: bounds let a part come to an end.

## 11. Findings

- `uiapp_failed_is_left` — `DispatchEvent` assigns `ExitRequested` after its
  hooks without looking at the lifecycle again. A `Tick` called by a hook may
  have failed to render and set `Failed`; the failure is then forgotten and
  `Shutdown` saves settings as after a normal exit. `README.md` draws
  `Failed -> ShuttingDown` as the only way out of `Failed`.
- `commandstack_limit_exceeded` — `SetHistoryLimit` trims undo and redo
  separately; `Redo` and `Resume` do not trim, so the undo history can exceed
  the limit. `docs/nodes/commands_and_transactions.md` calls it a limit on the
  history.
- `elements_pin_order` — `SetDescriptorPins` puts the pins a property resolves
  to into the places of the static pins that are there and appends the rest.
  When a property change removed the last static pin of a node with a dynamic
  pin behind it, undo puts the pin back after the dynamic one: the document is
  not the one before the command.
- `route_structure` — an insertion into a full chunk splits it and leaves the
  halves beside a small neighbour, which `ValidateStructure` of the sequence
  calls invalid; a graph with such a route cannot be saved or registered.
- `hierarchy_reused_id` — a graph that a transaction removes and adds again
  under its identifier counts as neither added nor replaced, and its owners are
  not counted: an owned graph without owner is committed, against
  `docs/nodes/hierarchy.md`.
- `hierarchy_pruned_graph` — a boundary node that a transaction adds with its
  graph and then removes leaves no trace in the journal; the graph is committed
  with one boundary node, which `ValidateStructure` calls invalid.

## 12. What is proved and what is only checked

| component | proved for all constants | only model-checked |
|---|---|---|
| dispatcher | type, wake protocol, no lost wake, exact count, close, FIFO refinement | the three liveness properties |
| UiApp and elements | all | |
| command stack | all, refinement of `EditHistory` included | |
| graph hierarchy | all in the profile; that nothing else is refused, in any | |
| catalog, shared graphs | all | |
| fonts, textures | all | |
| elements of one graph | all, where no dynamic pin is behind the static ones | |
| routes | all but the clause of the finding, which is false | |
| clipboard | | `PasteIsACopy`, `UndoRemovesPaste`, `PreparedIsPasted` |

Every theorem is about the specification that the runs check, under the ASSUMEs of
its module and no other hypothesis, with two exceptions: those about the graph
hierarchy say `Liberties = {}`, those about the elements `~Behind`; the findings
show that they need to. TLC evaluates the ASSUMEs. Liveness is beyond the prover.
The clipboard is what is left without proof: a paste is a chain of folds over the
parts of a fragment, each under the renaming of the one before. The induction this
takes is the one of `ElementCommandProofs`, for documents of many graphs.

Every bound is a CONSTANT of its module. The maxima of counters (`LastRevision`,
`LastEpoch`, `LastDeferredId`, `LastGeneration`, `LastRegistration`,
`LastChunkId`) are also maxima of the code, and the refusal at the maximum is
its; `MaxCommands`, `MaxMutations`, `MaxJoined`, `MaxShown`, `MaxEdits`,
`MaxStaged`, `MaxReads`, `MaxDepth`, `MaxGeneration`, `LastId`, `LastAssetId`
and `LastFontId` are of the model alone.

## 13. Not modelled, and what could follow

`PROJECT.json` lists every component. Out of reach of this method or without
state of their own: window and renderers (I/O), display scaling, geometry and
routing (floating point), reading and writing JSON and files, drawing, semantic
snapshots (immutable values). What could follow, most important first:

1. The pointer state machine of the editor and the selection that follows
   edits (`nodes/editor/input_state.cpp`).
2. `DockLayout`: layouts and their snapshots over failures of the file system.
3. `Workspace`: `Load`, which replaces document, presentation and history, with
   an error or a callback in the middle; the migration chain of
   `ui_nodes_io.cpp`.
4. Policies: the order in which the decisions of a batch are folded; today the
   outcome is any.
5. Graph assets and catalog under one command stack: a pending operation whose
   reads are the recorder of `RegistryCatalog` instead of a flag.
6. Proofs for the clipboard: that the renaming of a paste is one to one and that
   what it renames is a copy, from which its three properties follow. For the
   elements, `DocumentSound` without `~Behind`: undo may then lead to a document
   that no command was executed on, so that `Revert` has to be followed from
   documents it was not made for.
