---------------------------- MODULE CommandStack ----------------------------
(***************************************************************************)
(* Undo, redo and deferred authorization of the node editor                *)
(* (src/src/nodes/commands/command_stack.cpp), with the commit check of    *)
(* GraphTransaction (transaction.cpp, transaction_commit.cpp).             *)
(*                                                                         *)
(* Several command stacks may edit the same documents.  Every call runs on *)
(* one thread but calls the application back (Command::Apply and Revert,   *)
(* policies, replacement factories); that code may run calls of the other  *)
(* stacks to completion.  The variable active is the C++ call stack; each  *)
(* of its frames rests at a callback.                                      *)
(*                                                                         *)
(* A document stands for a GraphDocument and its GraphPresentation, its    *)
(* revision and allocation_epoch for the pairs of theirs.  A command is an *)
(* entry [before, after]: the contents it was first applied to and leaves. *)
(***************************************************************************)
EXTENDS Naturals, Sequences

CONSTANTS Stacks, Documents, Catalogs, Contents,
          Limits,           \* the history limits the application asks for
          max_replacements,
          LastRevision, LastEpoch, LastDeferredId,  \* numeric_limits::max()
          Opened,           \* what documents are when the stacks are made
          None              \* no binding, no pending operation

ASSUME CommandStackAssumption ==
    /\ Limits \subseteq Nat
    /\ max_replacements \in Nat
    /\ LastRevision \in Nat
    /\ LastEpoch \in Nat
    /\ LastDeferredId \in Nat \ {0}
    /\ Opened \subseteq [content : Contents, revision : 0..LastRevision,
                      epoch : 0..LastEpoch]

VARIABLES
    documents,         \* [content, revision, epoch] of each document
    undo, redo,        \* sequences of commands; the last is the next to run
    pending,           \* the deferred operation
    history_limit,
    next_deferred_id,
    binding,           \* the document, catalog and revision of the history
    busy, exclusive,   \* busy and m_exclusive_operation
    active,            \* the calls in progress, innermost last
    issued             \* history: the deferred identifiers given out

vars == <<documents, undo, redo, pending, history_limit, next_deferred_id,
          binding, busy, exclusive, active, issued>>

Entries == [before : Contents, after : Contents]
States == [content : Contents, revision : 0..LastRevision, epoch : 0..LastEpoch]
Bindings == [document : Documents, catalog : Catalogs, revision : 0..LastRevision]
Kinds == {"execute", "undo", "redo"}
Pendings == [kind : Kinds, id : 1..LastDeferredId, command : Entries,
             document : Documents, catalog : Catalogs, baseline : States,
             current : BOOLEAN]
\* No binding and no pending operation is told from one.
ASSUME NoneAssumption == None \notin Bindings \cup Pendings

Frames == [stack : Stacks, kind : Kinds, document : Documents,
           catalog : Catalogs, baseline : States, command : Entries,
           at : {"apply", "restore", "authorize", "replace", "reauthorize"},
           depth : 0..max_replacements]

Last(s) == s[Len(s)]
Front(s) == SubSeq(s, 1, Len(s) - 1)
\* What remains when the oldest entries beyond the limit are erased.
LastOf(s, limit) ==
    IF Len(s) > limit THEN SubSeq(s, Len(s) - limit + 1, Len(s)) ELSE s

Top == Last(active)
At(points) == active # <<>> /\ Top.at \in points
Goes(frame) == active' = Append(Front(active), frame)

Init ==
    /\ documents \in [Documents -> Opened]
    /\ undo = [s \in Stacks |-> <<>>]
    /\ redo = [s \in Stacks |-> <<>>]
    /\ pending = [s \in Stacks |-> None]
    /\ history_limit \in [Stacks -> Limits]
    /\ next_deferred_id = [s \in Stacks |-> 1]
    /\ binding = [s \in Stacks |-> None]
    /\ busy = [s \in Stacks |-> FALSE]
    /\ exclusive = [s \in Stacks |-> FALSE]
    /\ active = <<>>
    /\ issued = [s \in Stacks |-> {}]

-----------------------------------------------------------------------------
(* Checks                                                                  *)

BoundToRevision(s, document, catalog) ==
    binding[s] # None => binding[s].revision = documents[document].revision

BoundToDocument(s, document, catalog) ==
    binding[s] # None =>
        binding[s].document = document /\ binding[s].catalog = catalog

\* ValidateBinding
BoundTo(s, document, catalog) ==
    /\ BoundToRevision(s, document, catalog)
    /\ BoundToDocument(s, document, catalog)

\* GraphTransaction::RebindOwners: revisions and allocation epochs.
RebindOwners(document, baseline) ==
    /\ documents[document].revision = baseline.revision
    /\ documents[document].epoch = baseline.epoch

\* GraphDocument::CanCommit and GraphPresentation::CanCommit.
CanCommitAnything(document, baseline, content) ==
    documents[document].revision # LastRevision

CanCommitPastTheLast(document, baseline, content) ==
    /\ documents[document].revision = baseline.revision
    /\ documents[document].epoch = baseline.epoch

CanCommit(document, baseline, content) ==
    /\ documents[document].revision = baseline.revision
    /\ documents[document].epoch = baseline.epoch
    /\ (content # baseline.content => documents[document].revision # LastRevision)

\* CommitFrom: a revision for a change, nothing otherwise.
Publish(document, baseline, content) ==
    documents' = IF content = baseline.content THEN documents
                 ELSE [documents EXCEPT ![document].content = content,
                                        ![document].revision = @ + 1]

-----------------------------------------------------------------------------
(* Entering and leaving a call                                             *)

\* Pending operations block Execute, Undo and Redo.
MayStart(s) == ~busy[s] /\ pending[s] = None

Frame(s, kind, document, catalog, at, command) ==
    [stack |-> s, kind |-> kind, document |-> document, catalog |-> catalog,
     baseline |-> documents[document], command |-> command, at |-> at,
     depth |-> 0]

Enter(s, frame) ==
    /\ busy' = [busy EXCEPT ![s] = TRUE]
    /\ active' = Append(active, frame)
    /\ UNCHANGED <<documents, undo, redo, pending, history_limit,
                   next_deferred_id, binding, exclusive, issued>>

\* BusyGuard
Leave ==
    /\ busy' = [busy EXCEPT ![Top.stack] = FALSE]
    /\ active' = Front(active)

Execute(s, document, catalog) ==
    /\ MayStart(s)
    /\ BoundTo(s, document, catalog)
    /\ LET content == documents[document].content
       IN  Enter(s, Frame(s, "execute", document, catalog, "apply",
                          [before |-> content, after |-> content]))

\* UndoPolicyMode::RestoreHistory goes from Revert straight to the commit,
\* RespectCurrentPolicy asks the policy.
Undo(s, document, catalog, at) ==
    /\ MayStart(s)
    /\ undo[s] # <<>>
    /\ BoundTo(s, document, catalog)
    /\ Enter(s, Frame(s, "undo", document, catalog, at, Last(undo[s])))

Redo(s, document, catalog) ==
    /\ MayStart(s)
    /\ redo[s] # <<>>
    /\ BoundTo(s, document, catalog)
    /\ Enter(s, Frame(s, "redo", document, catalog, "apply", Last(redo[s])))

\* Apply, Revert, a policy, a factory or the validation in Commit fails, a
\* policy denies, or a limit is exceeded: the staged state is discarded.
Fail ==
    /\ active # <<>>
    /\ Leave
    /\ UNCHANGED <<documents, undo, redo, pending, history_limit,
                   next_deferred_id, binding, exclusive, issued>>

\* Command::Apply or Revert staged its result; the policy is asked next.
Staged(content) ==
    /\ At({"apply"})
    /\ (Top.kind # "execute" => content = Top.command.after)
    /\ Goes([Top EXCEPT !.at = "authorize", !.command.after = content])
    /\ UNCHANGED <<documents, undo, redo, pending, history_limit,
                   next_deferred_id, binding, busy, exclusive, issued>>

-----------------------------------------------------------------------------
(* Committing                                                              *)

Result(kind, command) == IF kind = "undo" THEN command.before ELSE command.after

Bind(s, document, catalog, revision) ==
    binding' = [binding EXCEPT ![s] = [document |-> document, catalog |-> catalog,
                                       revision |-> revision]]

Amended(entries, newer) == [entries EXCEPT ![Len(entries)].after = newer.after]

\* Execute's history after a commit; merges is the answer of TryMerge.
RecordExecute(s, document, catalog, command, merges) ==
    LET merged == merges /\ undo[s] # <<>>
    IN  IF command.after = command.before
        THEN /\ undo' = IF merged THEN [undo EXCEPT ![s] = Amended(@, command)]
                        ELSE undo
             /\ UNCHANGED <<redo, binding>>
        ELSE /\ redo' = [redo EXCEPT ![s] = <<>>]
             /\ IF history_limit[s] = 0
                THEN UNCHANGED undo /\ binding' = [binding EXCEPT ![s] = None]
                ELSE /\ Bind(s, document, catalog, documents'[document].revision)
                     /\ undo' = [undo EXCEPT ![s] =
                           IF merged THEN Amended(@, command)
                           ELSE LastOf(Append(@, command), history_limit[s])]

RecordMove(s, kind, document, catalog) ==
    /\ IF kind = "undo"
       THEN /\ redo' = [redo EXCEPT ![s] = Append(@, Last(undo[s]))]
            /\ undo' = [undo EXCEPT ![s] = Front(@)]
       ELSE /\ undo' = [undo EXCEPT ![s] = Append(@, Last(redo[s]))]
            /\ redo' = [redo EXCEPT ![s] = Front(@)]
    /\ Bind(s, document, catalog, documents'[document].revision)

KeepsRedo(s, kind, document, catalog, command, merges) ==
    IF kind = "execute"
    THEN /\ undo' = [undo EXCEPT ![s] = LastOf(Append(@, command), history_limit[s])]
         /\ Bind(s, document, catalog, documents'[document].revision)
         /\ UNCHANGED redo
    ELSE RecordMove(s, kind, document, catalog)

RecordHistory(s, kind, document, catalog, command, merges) ==
    IF kind = "execute" THEN RecordExecute(s, document, catalog, command, merges)
    ELSE RecordMove(s, kind, document, catalog)

Commit(s, kind, document, catalog, baseline, command, merges) ==
    /\ CanCommit(document, baseline, Result(kind, command))
    /\ Publish(document, baseline, Result(kind, command))
    /\ RecordHistory(s, kind, document, catalog, command, merges)

\* RestoreHistory: Revert returned, no policy is asked.
Restored ==
    /\ At({"restore"})
    /\ Commit(Top.stack, "undo", Top.document, Top.catalog, Top.baseline,
              Top.command, FALSE)
    /\ Leave
    /\ UNCHANGED <<pending, history_limit, next_deferred_id, exclusive, issued>>

\* The policy allowed every operation and the batch.
Allowed(merges) ==
    /\ At({"authorize"})
    /\ RebindOwners(Top.document, Top.baseline)
    /\ Commit(Top.stack, Top.kind, Top.document, Top.catalog, Top.baseline,
              Top.command, merges)
    /\ Leave
    /\ UNCHANGED <<pending, history_limit, next_deferred_id, exclusive, issued>>

-----------------------------------------------------------------------------
(* Replacement and deferral                                                *)

\* Only Execute accepts a replacement, and only so many times.
Replaced ==
    /\ At({"authorize"})
    /\ RebindOwners(Top.document, Top.baseline)
    /\ Top.kind = "execute"
    /\ Top.depth < max_replacements
    /\ Goes([Top EXCEPT !.at = "replace"])
    /\ UNCHANGED <<documents, undo, redo, pending, history_limit,
                   next_deferred_id, binding, busy, exclusive, issued>>

\* The factory made another command, which is applied to fresh snapshots.
MakeCommand ==
    /\ At({"replace"})
    /\ RebindOwners(Top.document, Top.baseline)
    /\ LET content == documents[Top.document].content
       IN  Goes([Top EXCEPT !.at = "apply", !.depth = @ + 1,
                           !.baseline = documents[Top.document],
                           !.command = [before |-> content, after |-> content]])
    /\ UNCHANGED <<documents, undo, redo, pending, history_limit,
                   next_deferred_id, binding, busy, exclusive, issued>>

\* The identifier after the last is 0, which ends the allocation for good.
ReusedId(id) == id
AfterId(id) == (id + 1) % (LastDeferredId + 1)

\* Storing the operation may fail after its identifier is spent.
Deferred(stored) ==
    /\ At({"authorize"})
    /\ RebindOwners(Top.document, Top.baseline)
    /\ LET s == Top.stack
           id == next_deferred_id[s]
       IN  /\ id # 0
           /\ next_deferred_id' = [next_deferred_id EXCEPT ![s] = AfterId(id)]
           /\ issued' = [issued EXCEPT ![s] = @ \cup {id}]
           /\ pending' = IF ~stored THEN pending ELSE [pending EXCEPT ![s] =
                 [kind |-> Top.kind, id |-> id, command |-> Top.command,
                  document |-> Top.document, catalog |-> Top.catalog,
                  baseline |-> Top.baseline, current |-> TRUE]]
    /\ Leave
    /\ UNCHANGED <<documents, undo, redo, history_limit, binding, exclusive>>

\* The guards of Resume.
MayResumeWhileBusy(s, id, document) ==
    /\ pending[s] # None
    /\ pending[s].id = id
    /\ pending[s].document = document
    /\ pending[s].current
    /\ RebindOwners(document, pending[s].baseline)

MayResume(s, id, document) ==
    /\ ~busy[s]
    /\ MayResumeWhileBusy(s, id, document)

CommitPending(s, merges) ==
    /\ Commit(s, pending[s].kind, pending[s].document, pending[s].catalog,
              pending[s].baseline, pending[s].command, merges)
    /\ pending' = [pending EXCEPT ![s] = None]

\* ResumeMode::CommitPrepared
Resume(s, id, document, merges) ==
    /\ MayResume(s, id, document)
    /\ CommitPending(s, merges)
    /\ UNCHANGED <<history_limit, next_deferred_id, busy, exclusive, active, issued>>

\* ResumeMode::Reauthorize asks the policy again; a new deferral or a denial
\* (Fail) leaves the operation pending.
Reauthorize(s, id, document) ==
    /\ MayResume(s, id, document)
    /\ Enter(s, [Frame(s, pending[s].kind, document, pending[s].catalog,
                       "reauthorize", pending[s].command)
                    EXCEPT !.baseline = pending[s].baseline])

Reauthorized(merges) ==
    /\ At({"reauthorize"})
    /\ RebindOwners(Top.document, Top.baseline)
    /\ CommitPending(Top.stack, merges)
    /\ Leave
    /\ UNCHANGED <<history_limit, next_deferred_id, exclusive, issued>>

Cancel(s, id) ==
    /\ ~busy[s]
    /\ pending[s] # None
    /\ pending[s].id = id
    /\ pending' = [pending EXCEPT ![s] = None]
    /\ UNCHANGED <<documents, undo, redo, history_limit, next_deferred_id,
                   binding, busy, exclusive, active, issued>>

-----------------------------------------------------------------------------
(* The rest of the interface, and the application                          *)

MayChangeWhilePending(s) == ~busy[s]

\* Clear and SetHistoryLimit do nothing while busy or pending.
MayChange(s) == ~busy[s] /\ pending[s] = None

UnboundOrNot(s) == binding[s]

\* ResetBinding
Unbound(s) == None

Clear(s) ==
    /\ MayChange(s)
    /\ undo' = [undo EXCEPT ![s] = <<>>]
    /\ redo' = [redo EXCEPT ![s] = <<>>]
    /\ binding' = [binding EXCEPT ![s] = Unbound(s)]
    /\ UNCHANGED <<documents, pending, history_limit, next_deferred_id, busy,
                   exclusive, active, issued>>

SetHistoryLimit(s, limit) ==
    /\ MayChange(s)
    /\ history_limit' = [history_limit EXCEPT ![s] = limit]
    /\ undo' = [undo EXCEPT ![s] = LastOf(@, limit)]
    /\ redo' = [redo EXCEPT ![s] = LastOf(@, limit)]
    /\ binding' = IF undo'[s] = <<>> /\ redo'[s] = <<>>
                  THEN [binding EXCEPT ![s] = Unbound(s)] ELSE binding
    /\ UNCHANGED <<documents, pending, next_deferred_id, busy, exclusive, active,
                   issued>>

BeginExclusiveOperation(s) ==
    /\ ~exclusive[s]
    /\ MayStart(s)
    /\ exclusive' = [exclusive EXCEPT ![s] = TRUE]
    /\ busy' = [busy EXCEPT ![s] = TRUE]
    /\ UNCHANGED <<documents, undo, redo, pending, history_limit,
                   next_deferred_id, binding, active, issued>>

EndExclusiveOperation(s) ==
    /\ exclusive[s]
    /\ exclusive' = [exclusive EXCEPT ![s] = FALSE]
    /\ busy' = [busy EXCEPT ![s] = FALSE]
    /\ UNCHANGED <<documents, undo, redo, pending, history_limit,
                   next_deferred_id, binding, active, issued>>

\* The application reserves an identifier of the live document.
AllocateId(document) ==
    /\ documents[document].epoch < LastEpoch
    /\ documents' = [documents EXCEPT ![document].epoch = @ + 1]
    /\ UNCHANGED <<undo, redo, pending, history_limit, next_deferred_id, binding,
                   busy, exclusive, active, issued>>

\* A registry update changes what a pending operation depends on.  The
\* invocation lease keeps it out of the calls in progress.
UpdateRegistry(catalog) ==
    /\ \A i \in DOMAIN active : active[i].catalog # catalog
    /\ \E s \in Stacks :
          /\ pending[s] # None
          /\ pending[s].catalog = catalog
          /\ pending' = [pending EXCEPT ![s].current = FALSE]
    /\ UNCHANGED <<documents, undo, redo, history_limit, next_deferred_id,
                   binding, busy, exclusive, active, issued>>

Next ==
    \/ \E s \in Stacks, document \in Documents, catalog \in Catalogs :
          \/ Execute(s, document, catalog)
          \/ \E at \in {"restore", "apply"} : Undo(s, document, catalog, at)
          \/ Redo(s, document, catalog)
    \/ Fail
    \/ \E content \in Contents : Staged(content)
    \/ Restored \/ Replaced \/ MakeCommand
    \/ \E stored \in BOOLEAN : Deferred(stored)
    \/ \E merges \in BOOLEAN : Allowed(merges) \/ Reauthorized(merges)
    \/ \E s \in Stacks, id \in 1..LastDeferredId :
          \/ \E document \in Documents :
                \/ \E merges \in BOOLEAN : Resume(s, id, document, merges)
                \/ Reauthorize(s, id, document)
          \/ Cancel(s, id)
    \/ \E s \in Stacks :
          \/ Clear(s)
          \/ \E limit \in Limits : SetHistoryLimit(s, limit)
          \/ BeginExclusiveOperation(s) \/ EndExclusiveOperation(s)
    \/ \E document \in Documents : AllocateId(document)
    \/ \E catalog \in Catalogs : UpdateRegistry(catalog)

Spec == Init /\ [][Next]_vars

-----------------------------------------------------------------------------
(* Properties                                                              *)

\* The whole history of a stack, oldest command first.
Path(s) ==
    [i \in 1..Len(undo[s]) + Len(redo[s]) |->
        IF i <= Len(undo[s]) THEN undo[s][i]
        ELSE redo[s][Len(undo[s]) + Len(redo[s]) - i + 1]]

\* Each command of a history starts from the content the one before it left,
\* so undo and redo replay exactly the states the user has seen, whatever
\* other stacks, merges, deferrals and limits did in between.
HistoryIsAPath ==
    \A s \in Stacks :
        \A i \in DOMAIN Path(s) :
            i > 1 => Path(s)[i].before = Path(s)[i - 1].after

\* A stack is bound to a document exactly while it owns history.
BoundExactlyWithHistory ==
    \A s \in Stacks : binding[s] # None <=> undo[s] \o redo[s] # <<>>

\* The history is a path, and while the stack's binding accepts its document the
\* next command to undo left the document as it is and the next to redo started
\* from it ("a conflict never silently rebases history").
HistoryFitsDocument ==
    /\ HistoryIsAPath
    /\ BoundExactlyWithHistory
    /\ \A s \in Stacks :
           binding[s] # None /\ BoundTo(s, binding[s].document, binding[s].catalog) =>
               LET content == documents[binding[s].document].content
               IN  /\ undo[s] # <<>> => Last(undo[s]).after = content
                   /\ redo[s] # <<>> => Last(redo[s]).before = content

Refers(s, kind, command) ==
    /\ kind = "undo" => undo[s] # <<>> /\ command = Last(undo[s])
    /\ kind = "redo" => redo[s] # <<>> /\ command = Last(redo[s])

\* Undo and Redo keep a reference to the last command across callbacks, and a
\* deferred one finds it again in Resume: it is still there, still the last.
CommandStaysLast ==
    /\ \A i \in DOMAIN active :
          Refers(active[i].stack, active[i].kind, active[i].command)
    /\ \A s \in Stacks :
          pending[s] # None => Refers(s, pending[s].kind, pending[s].command)

\* A stack never runs two calls at once, and busy says exactly when it runs one.
NoReentry ==
    \A s \in Stacks :
        LET calls == {i \in DOMAIN active : active[i].stack = s}
        IN  /\ \A i, j \in calls : i = j
            /\ busy[s] = (calls # {} \/ exclusive[s])
            /\ exclusive[s] => calls = {}

\* Every variable keeps its type, and the busy flags match the calls.
TypeOK ==
    /\ documents \in [Documents -> States]
    /\ \A s \in Stacks :
          /\ undo[s] \in Seq(Entries)
          /\ redo[s] \in Seq(Entries)
          /\ pending[s] \in Pendings \cup {None}
          /\ binding[s] \in Bindings \cup {None}
    /\ history_limit \in [Stacks -> Limits]
    /\ next_deferred_id \in [Stacks -> 0..LastDeferredId]
    /\ busy \in [Stacks -> BOOLEAN]
    /\ exclusive \in [Stacks -> BOOLEAN]
    /\ \A i \in DOMAIN active : active[i] \in Frames
    /\ issued \in [Stacks -> SUBSET (1..LastDeferredId)]
    /\ NoReentry

Source(kind, command) == IF kind = "undo" THEN command.after ELSE command.before

Turns(document, kind, command) ==
    /\ Source(kind, command) = documents[document].content
    /\ Result(kind, command) = documents'[document].content

\* No edit is lost: a document changes only by a command that was staged from
\* its present content, however long the command waited for callbacks or for
\* its authorization and whatever other stacks did meanwhile.
UpdateIsNotLost ==
    \A document \in Documents :
        documents'[document].content # documents[document].content =>
            \/ /\ active # <<>>
               /\ active' = Front(active)
               /\ Turns(document, Top.kind, Top.command)
            \/ \E s \in Stacks :
                  /\ pending[s] # None /\ pending'[s] = None
                  /\ Turns(document, pending[s].kind, pending[s].command)
NoLostUpdate == [][UpdateIsNotLost]_vars

\* An identifier of a deferred operation is never given out again: a late
\* Resume or Cancel cannot reach another operation than the one approved.
DeferredIdIsFresh ==
    \A s \in Stacks :
        pending[s] = None /\ pending'[s] # None => pending'[s].id \notin issued[s]
DeferredIdsAreFresh == [][DeferredIdIsFresh]_vars

\* The undo history is never longer than the limit the application set.
UndoWithinLimit == \A s \in Stacks : Len(undo[s]) <= history_limit[s]

Timeline(s) ==
    IF Path(s) = <<>> THEN <<>>
    ELSE [i \in 1..Len(Path(s)) + 1 |->
             IF i = 1 THEN Path(s)[1].before ELSE Path(s)[i - 1].after]

Edits(s) == INSTANCE EditHistory WITH
                timeline <- Timeline(s), cursor <- Len(undo[s]) + 1

\* The history of every stack is a timeline with a cursor: Edits(s)!Spec for
\* every s, written out because TLC takes no quantified specification.
ImplementsEditHistory ==
    /\ \A s \in Stacks : Edits(s)!Init
    /\ [][\A s \in Stacks :
             Edits(s)!Next \/ UNCHANGED <<Timeline(s), Len(undo[s])>>]_vars
=============================================================================
