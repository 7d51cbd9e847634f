---------------------------- MODULE MCComponents ----------------------------
(***************************************************************************)
(* Components that do not share state, each on a small instance of its     *)
(* own.  A behaviour runs one of them: `part' is chosen at the start, and  *)
(* the variables of the others stay as they are initially, or None.  What  *)
(* is checked is the disjoint union of their state graphs.                 *)
(***************************************************************************)
EXTENDS UiApp, AssetStore, TextureStore, GraphAssets, GraphClipboard, RegistryCatalog,
        RouteSequence

CONSTANTS
    Stacks, StackDocuments, Catalogs, StackContents,  \* CommandStack
    node_s, node_t, val_x, val_y, val_z               \* RegistryCatalog

VARIABLES
    part,
    \* CommandStack
    documents, undo, redo, pending, history_limit, next_deferred_id, binding,
    busy, exclusive, active, issued

history_vars == <<documents, undo, redo, pending, history_limit, next_deferred_id,
                  binding, busy, exclusive, active, issued>>

-----------------------------------------------------------------------------
(* The instances                                                           *)

History == INSTANCE CommandStack WITH
    Documents <- StackDocuments, Contents <- StackContents, Limits <- {0, 2},
    max_replacements <- 0, LastRevision <- 2, LastEpoch <- 1, LastDeferredId <- 2,
    Opened <- [content : StackContents, revision : {0}, epoch : {0}]

\* Commands read the catalog while they are prepared, and again later; between
\* the two others update it.  Rereaders see a recipe built twice.
ReadKeys == {<<val_x, val_y>>}
ReadSchemas == {[serves |-> ReadKeys, look |-> look] : look \in {1, 2}}
ReadRelations == {[accepts |-> {<<val_z, val_x>>}]}
ReadQueries == {<<val_z, val_y>>}
Rereaders == INSTANCE RegistryCatalog WITH
    NodeTypes <- {node_s}, Keys <- ReadKeys, Schemas <- ReadSchemas,
    Relations <- ReadRelations, Queries <- ReadQueries,
    MaxStaged <- 0, MaxReads <- 2, NodeDependencyCapacity <- 1,
    LastRevision <- 3, LastRegistration <- 1

\* Applications register node types and conversions, several in one update.
WrittenKeys == {<<val_x, val_y>>, <<val_y, val_x>>}
WrittenSchemas ==
    {[serves |-> WrittenKeys, look |-> 1], [serves |-> {<<val_x, val_y>>}, look |-> 1]}
Writers == INSTANCE RegistryCatalog WITH
    Keys <- WrittenKeys, Schemas <- WrittenSchemas, Relations <- {}, Queries <- {},
    NodeTypes <- {node_s}, MaxStaged <- 2, MaxReads <- 0, NodeDependencyCapacity <- 1,
    LastRevision <- 3, LastRegistration <- 2

Node(g, role, target, owns) ==
    [graph |-> g, role |-> role, target |-> target, owns |-> owns, version |-> 1,
     read_only |-> FALSE, pins_read_only |-> g = 1 /\ owns, locked |-> FALSE]
Link(g, output, input, points) ==
    [graph |-> g, output |-> output, input |-> input,
     read_only |-> FALSE, locked |-> FALSE, route |-> points]
Graph(lifetime) == [lifetime |-> lifetime, read_only |-> FALSE]

\* Graph 1 has a node that owns graph 2, which owns graph 4, joined by a
\* channel, and a node that calls graph 3.
OpenedDocument ==
    [root |-> 1, document |->
        [graphs |-> <<Graph("reusable"), Graph("owned"), Graph("reusable"), Graph("owned")>>,
         nodes |-> <<Node(1, "subgraph", 2, TRUE), Node(1, "subgraph", 3, FALSE),
                     Node(2, "proxy_output", None, FALSE), Node(2, "subgraph", 4, TRUE),
                     Node(4, "proxy_input", None, FALSE)>>,
         links |-> <<Link(2, 3, 4, {1})>>,
         groups |-> <<[graph |-> 1, members |-> {1}, locked |-> FALSE],
                      [graph |-> 2, members |-> {3}, locked |-> FALSE]>>,
         channels |-> <<[from |-> 3, to |-> 5]>>,
         next |-> [graphs |-> 5, nodes |-> 6, links |-> 2, groups |-> 3,
                   channels |-> 2, points |-> 2]]]

-----------------------------------------------------------------------------
(* One of them                                                             *)

HistoryOff ==
    /\ documents = None /\ undo = None /\ redo = None /\ pending = None
    /\ history_limit = None /\ next_deferred_id = None /\ binding = None /\ busy = None
    /\ exclusive = None /\ active = None /\ issued = None
ClipboardOff ==
    /\ source = None /\ type_version = None /\ clipboard = None
    /\ prepared = None /\ pasted = None /\ edits = None

PartNames == {"application", "history", "registry", "route", "writers",
          "readers", "rereaders", "clipboard", "fonts", "textures"}

PartsInit ==
    /\ part \in PartNames
    /\ Init /\ AssetsInit /\ StoreInit /\ TexturesInit /\ CatalogInit /\ RouteInit
    /\ IF part = "history" THEN History!Init ELSE HistoryOff
    /\ IF part = "clipboard" THEN ClipboardInit ELSE ClipboardOff

Step(p, next) == part = p /\ next /\ UNCHANGED part

PartsNext ==
    \/ /\ Step("application", Next)
       /\ UNCHANGED <<history_vars, assets_vars, routeVars,
                      catalog_vars, clipboard_vars, store_vars, texture_vars>>
    \/ /\ Step("history", History!Next)
       /\ UNCHANGED <<vars, assets_vars, routeVars,
                      catalog_vars, clipboard_vars, store_vars, texture_vars>>
    \/ /\ Step("registry", AssetsNext)
       /\ UNCHANGED <<vars, history_vars, routeVars,
                      catalog_vars, clipboard_vars, store_vars, texture_vars>>
    \/ /\ Step("route", RouteNext)
       /\ UNCHANGED <<vars, history_vars, assets_vars,
                      catalog_vars, clipboard_vars, store_vars, texture_vars>>
    \/ /\ Step("writers", Writers!CatalogNext)
       /\ UNCHANGED <<vars, history_vars, assets_vars,
                      routeVars, clipboard_vars, store_vars, texture_vars>>
    \/ /\ Step("readers", CatalogNext)
       /\ UNCHANGED <<vars, history_vars, assets_vars,
                      routeVars, clipboard_vars, store_vars, texture_vars>>
    \/ /\ Step("rereaders", Rereaders!CatalogNext)
       /\ UNCHANGED <<vars, history_vars, assets_vars,
                      routeVars, clipboard_vars, store_vars, texture_vars>>
    \/ /\ Step("clipboard", ClipboardNext)
       /\ UNCHANGED <<vars, history_vars, assets_vars,
                      routeVars, catalog_vars, store_vars, texture_vars>>
    \/ /\ Step("fonts", StoreNext)
       /\ UNCHANGED <<vars, history_vars, assets_vars,
                      routeVars, catalog_vars, clipboard_vars, texture_vars>>
    \/ /\ Step("textures", TexturesNext)
       /\ UNCHANGED <<vars, history_vars, assets_vars,
                      routeVars, catalog_vars, clipboard_vars, store_vars>>

PartsSpec ==
    PartsInit /\ [][PartsNext]_<<part, vars, history_vars, assets_vars,
                       routeVars, catalog_vars, clipboard_vars, store_vars, texture_vars>>

Symmetry == Permutations(Assets)

-----------------------------------------------------------------------------
(* Properties                                                              *)

\* CommandStack, offered two documents and two catalogs: a step leaves a history
\* that fits its document, and never reuses the identifier of a deferred operation.
History_StepsKeepHistory ==
    [][part = "history" => History!DeferredIdIsFresh /\ History!HistoryFitsDocument']_history_vars

\* GraphClipboard: an accepted paste adds an exact copy and changes nothing else.
Clipboard_PasteIsACopy == part = "clipboard" => PasteIsACopy
\* GraphClipboard: undo of a paste gives the document back.
Clipboard_UndoRemovesPaste == part = "clipboard" => UndoRemovesPaste
\* GraphClipboard: what was prepared can be pasted, protected parts and all.
Clipboard_PreparedIsPasted == part = "clipboard" => PreparedIsPasted
=============================================================================
