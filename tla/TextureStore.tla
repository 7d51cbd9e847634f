---------------------------- MODULE TextureStore ----------------------------
(***************************************************************************)
(* The managed textures of UiApp: handles the application owns, the store  *)
(* that owns their data, and the renderer that owns the copy on the GPU    *)
(* (ui_texture.cpp, ui_texture_internal.h and the frame of ui_app.cpp).    *)
(*                                                                         *)
(* Destroying a handle only marks its data: the draw lists of the frame    *)
(* under way may still name it.  Dear ImGui and the renderer backend turn  *)
(* the mark into a destroyed texture over the next frames, and only then   *)
(* the store lets go of the data.  Their part is external.                 *)
(***************************************************************************)
EXTENDS Naturals, FiniteSets

CONSTANTS Textures   \* the data objects: an address is used again once freed

VARIABLES
    store,       \* active and the entries: data -> [status, unwanted, registered]
    handles,     \* the data that live UiTexture handles point to
    phase,       \* "idle", "frame" (between NewFrame and Render), or "drawn"
    drawn,       \* the data named in the draw lists of the frame
    platform,    \* PlatformIO.Textures: what the backend sees, built by Render
    on_gpu       \* the data that has a texture of the renderer
texture_vars == <<store, handles, phase, drawn, platform, on_gpu>>

InRegistry(entries) == {t \in DOMAIN entries : entries[t].registered}
Entries == store.entries
Set(field, T, value) ==
    [t \in DOMAIN Entries |-> IF t \in T THEN [Entries[t] EXCEPT ![field] = value] ELSE Entries[t]]

\* UiTexture::Impl::IsUsable
IsUsable(t) ==
    /\ store.active
    /\ ~Entries[t].unwanted
    /\ Entries[t].status \notin {"want_destroy", "destroyed"}

TexturesInit ==
    /\ store = [active |-> TRUE, entries |-> <<>>]
    /\ handles = {} /\ drawn = {} /\ platform = {} /\ on_gpu = {}
    /\ phase = "idle"

\* CreateTexture, between frames or from an element's Update
CreateTexture(t) ==
    /\ store.active /\ phase # "drawn"
    /\ t \notin DOMAIN Entries
    /\ store' = [store EXCEPT !.entries =
            [u \in DOMAIN @ \cup {t} |->
                IF u = t THEN [status |-> "want_create", unwanted |-> FALSE, registered |-> TRUE]
                ELSE @[u]]]
    /\ handles' = handles \cup {t}
    /\ UNCHANGED <<phase, drawn, platform, on_gpu>>

\* UpdateRect: a texture not yet on the GPU is uploaded whole anyway.
Update(t) ==
    /\ IsUsable(t)
    /\ Entries[t].status = "ok"
    /\ store' = [store EXCEPT !.entries = Set("status", {t}, "want_updates")]
    /\ UNCHANGED <<handles, phase, drawn, platform, on_gpu>>

\* Destroy, the destructor, or a move over the handle
Destroy(t) ==
    /\ handles' = handles \ {t}
    /\ store' = IF store.active THEN [store EXCEPT !.entries = Set("unwanted", {t}, TRUE)]
                ELSE store
    /\ UNCHANGED <<phase, drawn, platform, on_gpu>>

\* GetRef, given to a draw call of the frame
Draw(t) ==
    /\ phase = "frame"
    /\ IsUsable(t)
    /\ drawn' = drawn \cup {t}
    /\ UNCHANGED <<store, handles, phase, platform, on_gpu>>

\* ImGui::NewFrame (external): what is unwanted is handed to the backend, or is
\* destroyed at once if the backend never saw it.
Announced(e, known) ==
    IF e.unwanted /\ e.registered /\ e.status \notin {"want_destroy", "destroyed"}
    THEN [e EXCEPT !.status = IF known THEN "want_destroy" ELSE "destroyed"]
    ELSE e

\* CollectDestroyedTexturesAfterNewFrame
CollectUnwanted(e, known) == [e EXCEPT !.registered = @ /\ ~e.unwanted]
Collect(e, known) ==
    [e EXCEPT !.registered = @ /\ ~(e.unwanted /\ e.status = "destroyed" /\ ~known)]

NewFrame ==
    /\ store.active /\ phase = "idle"
    /\ phase' = "frame"
    /\ store' = [store EXCEPT !.entries =
            [t \in DOMAIN @ |-> Collect(Announced(@[t], t \in on_gpu), t \in on_gpu)]]
    /\ UNCHANGED <<handles, drawn, platform, on_gpu>>

\* SubmitDockspace or an element's Update failed: no Render.
EndFrame ==
    /\ phase = "frame"
    /\ phase' = "idle" /\ drawn' = {}
    /\ platform' = InRegistry(Entries)
    /\ UNCHANGED <<store, handles, on_gpu>>

\* ImGui::Render closes the draw lists.
CloseDrawLists ==
    /\ phase = "frame"
    /\ phase' = "drawn"
    /\ platform' = InRegistry(Entries)
    /\ UNCHANGED <<store, handles, drawn, on_gpu>>

\* UiRenderer::Render (external): the backend updates every texture whose status
\* is not ok, and may keep one in flight another frame; then the draw lists are
\* submitted.  ReleaseDestroyedTexturesAfterRender frees what left the registry.
Served(e, held) ==
    CASE e.status \in {"want_create", "want_updates"} -> "ok"
      [] e.status = "want_destroy" /\ ~held -> "destroyed"
      [] OTHER -> e.status

RenderFrame(held) ==
    /\ phase = "drawn"
    /\ held \subseteq {t \in platform : Entries[t].status = "want_destroy"}
    /\ LET served == [t \in DOMAIN Entries |->
                        IF t \in platform
                        THEN [Entries[t] EXCEPT !.status = Served(Entries[t], t \in held)]
                        ELSE Entries[t]]
       IN  /\ on_gpu' = (on_gpu \ platform) \cup {t \in platform : served[t].status # "destroyed"}
           /\ store' = [store EXCEPT !.entries = [t \in InRegistry(served) |-> served[t]]]
    /\ phase' = "idle" /\ drawn' = {}
    /\ platform' = platform \cap DOMAIN store'.entries
    /\ UNCHANGED handles

\* Cleanup: ShutdownImgui destroys what the backend sees, then the entries go.
\* The handles that are left find no store any more and do nothing.
Cleanup ==
    /\ store.active /\ phase = "idle"
    /\ store' = [active |-> FALSE, entries |-> <<>>]
    /\ on_gpu' = on_gpu \ platform
    /\ handles' = {} /\ platform' = {}
    /\ UNCHANGED <<phase, drawn>>

\* Initialize makes a new store.
RestartTextures ==
    /\ ~store.active
    /\ store' = [store EXCEPT !.active = TRUE]
    /\ UNCHANGED <<handles, phase, drawn, platform, on_gpu>>

TexturesNext ==
    \/ \E t \in Textures : CreateTexture(t)
    \/ \E t \in handles : Update(t)
    \/ \E t \in handles : Destroy(t)
    \/ \E t \in handles : Draw(t)
    \/ NewFrame
    \/ EndFrame
    \/ CloseDrawLists
    \/ \E held \in SUBSET platform : RenderFrame(held)
    \/ Cleanup
    \/ RestartTextures

TexturesSpec == TexturesInit /\ [][TexturesNext]_texture_vars

-----------------------------------------------------------------------------
\* ui_texture.cpp, Destroy, and the frame of UiApp: whenever a handle is
\* destroyed or the application shut down, its data outlives every handle to
\* it, every draw list that names it and its texture on the GPU, which is in
\* turn never left behind; and the backend still has what a frame draws.
TexturesOutliveTheirUsers ==
    /\ handles \cup drawn \cup on_gpu \cup platform \subseteq DOMAIN Entries
    /\ \A t \in handles : IsUsable(t) /\ Entries[t].registered
    /\ phase = "drawn" =>
           \A t \in drawn : t \in platform /\ Entries[t].status \notin {"want_destroy", "destroyed"}
    /\ \A t \in on_gpu : Entries[t].registered /\ Entries[t].status # "destroyed"
=============================================================================
