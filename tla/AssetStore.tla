----------------------------- MODULE AssetStore -----------------------------
(***************************************************************************)
(* UiAssetManager: the byte assets of the application and the fonts made   *)
(* from them in the atlas of Dear ImGui (ui_asset_manager.cpp), behind the *)
(* calls of UiApp that reach it between two frames.                        *)
(*                                                                         *)
(* A font object is a number, taken again after its font was removed, as a *)
(* pointer is; an atlas font reads the bytes of its asset as long as it    *)
(* lives.  The atlas may reject the bytes for any one font.                *)
(***************************************************************************)
EXTENDS Naturals, FiniteSets

CONSTANTS AssetKeys, Buffers,      \* keys and the bytes a source can hold
          max_assets, max_fonts,   \* UiAssetLimits
          LastAssetId, LastFontId, \* bound: identifiers that are given out
          MaxGeneration,           \* bound: replacements of an asset
          Null

ASSUME AssetStoreAssumption == max_fonts \in Nat

VARIABLES assets,        \* m_assets with m_asset_keys: id -> [key, bytes, generation]
          fonts,         \* m_fonts: id -> [asset, font, removable]
          atlas,         \* the fonts of the atlas: object -> the bytes it reads
          next_asset_id, next_font_id,
          default_font_id,
          FontDefault    \* ImGuiIO::FontDefault; Null: the first font of the atlas
store_vars == <<assets, fonts, atlas, next_asset_id, next_font_id,
                default_font_id, FontDefault>>

AtlasFonts == 0..2 * max_fonts
Free == AtlasFonts \ DOMAIN atlas
Fallback == [asset |-> 0, font |-> 0, removable |-> FALSE]

\* Configure, after the fallback font was loaded
StoreInit ==
    /\ assets = <<>>
    /\ fonts = [f \in {1} |-> Fallback]
    /\ atlas = [o \in {0} |-> Null]
    /\ next_asset_id = 1 /\ next_font_id = 2
    /\ default_font_id = 1
    /\ FontDefault = Null

Holding(key) == {id \in DOMAIN assets : assets[id].key = key}
\* A map with one value put at every key of S.
PutAll(map, S, value) ==
    [x \in S \cup DOMAIN map |-> IF x \in S THEN value ELSE map[x]]

FontsOf(id) == {f \in DOMAIN fonts : fonts[f].asset = id}

UpsertNew(key, bytes) ==
    /\ Holding(key) = {}
    /\ Cardinality(DOMAIN assets) < max_assets
    /\ next_asset_id <= LastAssetId
    /\ assets' = PutAll(assets, {next_asset_id}, [key |-> key, bytes |-> bytes, generation |-> 1])
    /\ next_asset_id' = next_asset_id + 1
    /\ UNCHANGED <<fonts, atlas, next_font_id, default_font_id, FontDefault>>

\* The objects that AddFont made for the fonts of an asset, one for each.
Replacements(ids) ==
    CHOOSE r \in [ids -> Free] : \A f, g \in ids : f # g => r[f] # r[g]

\* One AddFont is refused: those made before it are removed again.
KeepMade(made, filled) == filled
Unwind(made, filled) == [o \in DOMAIN filled \ {made[f] : f \in DOMAIN made} |-> filled[o]]

UpsertRefused(id, bytes) ==
    \E ids \in (SUBSET FontsOf(id)) \ {FontsOf(id)} :
        LET made == Replacements(ids)
            filled == PutAll(atlas, {made[f] : f \in ids}, bytes)
        IN  /\ atlas' = Unwind(made, filled)
            /\ UNCHANGED <<assets, fonts, next_asset_id, next_font_id,
                           default_font_id, FontDefault>>

\* Every font of the asset is made anew and takes the place of the old one.
UpsertReplace(id, bytes) ==
    LET ids == FontsOf(id)
        made == Replacements(ids)
        filled == PutAll(atlas, {made[f] : f \in ids}, bytes)
        old == {fonts[f].font : f \in ids}
    IN  /\ assets[id].generation < MaxGeneration
        /\ fonts' = [f \in DOMAIN fonts |->
                        IF f \in ids THEN [fonts[f] EXCEPT !.font = made[f]] ELSE fonts[f]]
        /\ FontDefault' = IF default_font_id \in ids THEN made[default_font_id] ELSE FontDefault
        /\ atlas' = [o \in DOMAIN filled \ old |-> filled[o]]
        /\ assets' = [assets EXCEPT ![id].bytes = bytes, ![id].generation = @ + 1]
        /\ UNCHANGED <<next_asset_id, next_font_id, default_font_id>>

RemoveAsset(id) ==
    /\ FontsOf(id) = {}
    /\ assets' = [i \in DOMAIN assets \ {id} |-> assets[i]]
    /\ UNCHANGED <<fonts, atlas, next_asset_id, next_font_id, default_font_id, FontDefault>>

CreateFont(id, make_default) ==
    LET font == CHOOSE o \in Free : TRUE IN
    /\ Cardinality(DOMAIN fonts) < max_fonts
    /\ next_font_id <= LastFontId
    /\ atlas' = PutAll(atlas, {font}, assets[id].bytes)
    /\ fonts' = PutAll(fonts, {next_font_id}, [asset |-> id, font |-> font, removable |-> TRUE])
    /\ next_font_id' = next_font_id + 1
    /\ IF make_default THEN default_font_id' = next_font_id /\ FontDefault' = font
                       ELSE UNCHANGED <<default_font_id, FontDefault>>
    /\ UNCHANGED <<assets, next_asset_id>>

SetDefaultFont(f) ==
    /\ default_font_id' = f
    /\ FontDefault' = fonts[f].font
    /\ UNCHANGED <<assets, fonts, atlas, next_asset_id, next_font_id>>

RemoveFont(f) ==
    /\ fonts[f].removable
    /\ IF default_font_id = f THEN default_font_id' = 1 /\ FontDefault' = fonts[1].font
                              ELSE UNCHANGED <<default_font_id, FontDefault>>
    /\ atlas' = [o \in DOMAIN atlas \ {fonts[f].font} |-> atlas[o]]
    /\ fonts' = [g \in DOMAIN fonts \ {f} |-> fonts[g]]
    /\ UNCHANGED <<assets, next_asset_id, next_font_id>>

\* Cleanup clears the atlas before Reset drops the bytes, and the application
\* may be initialized again.
RestartAssets ==
    /\ assets' = <<>> /\ fonts' = [f \in {1} |-> Fallback]
    /\ atlas' = [o \in {0} |-> Null]
    /\ next_asset_id' = 1 /\ next_font_id' = 2
    /\ default_font_id' = 1 /\ FontDefault' = Null

StoreNext ==
    \/ \E key \in AssetKeys, bytes \in Buffers :
          \/ UpsertNew(key, bytes)
          \/ \E id \in Holding(key) : UpsertRefused(id, bytes)
          \/ \E id \in Holding(key) : UpsertReplace(id, bytes)
    \/ \E id \in DOMAIN assets : RemoveAsset(id)
    \/ \E id \in DOMAIN assets, make_default \in BOOLEAN : CreateFont(id, make_default)
    \/ \E f \in DOMAIN fonts : SetDefaultFont(f)
    \/ \E f \in DOMAIN fonts : RemoveFont(f)
    \/ RestartAssets

StoreSpec == StoreInit /\ [][StoreNext]_store_vars

-----------------------------------------------------------------------------
\* README.md, Assets And Fonts: a font keeps its identifier through every
\* replacement of its asset, also one the atlas refused half way: it is an
\* atlas font of its own that reads the bytes its asset holds now, the atlas
\* has no font but these, and the default font is one of them.
FontsFollowAssets ==
    /\ \A f \in DOMAIN fonts \ {1} :
          /\ fonts[f].asset \in DOMAIN assets
          /\ fonts[f].font \in DOMAIN atlas
          /\ atlas[fonts[f].font] = assets[fonts[f].asset].bytes
    /\ \A f, g \in DOMAIN fonts : f # g => fonts[f].font # fonts[g].font
    /\ DOMAIN atlas = {fonts[f].font : f \in DOMAIN fonts}
    /\ default_font_id \in DOMAIN fonts
    /\ FontDefault \in {fonts[default_font_id].font} \cup
                       (IF default_font_id = 1 THEN {Null} ELSE {})
=============================================================================
