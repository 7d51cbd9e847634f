--------------------------- MODULE RegistryProofs ---------------------------
(***************************************************************************)
(* What the application and the editor keep registered, for any number of  *)
(* everything.  Every font reads the bytes of its asset through any        *)
(* sequence of replacements, refusals, removals and restarts; the data of  *)
(* a texture outlives its handle, the draw list that uses it and its GPU   *)
(* texture; the registry of shared graphs stays sound and its subscribers  *)
(* learn of every change; the catalog of node types stays sound under      *)
(* updates of any length, its revisions identify what it holds, and a      *)
(* prepared command that still may run would read what it has read.        *)
(***************************************************************************)
EXTENDS AssetStore, TextureStore, GraphAssets, RegistryCatalog, SequenceTheorems,
        FiniteSetTheorems, WellFoundedInduction, TLAPS

-----------------------------------------------------------------------------
(* Assets and fonts                                                        *)

\* A set has an injection into every set that is at least as large.
LEMMA InjectionExists ==
    ASSUME NEW S, NEW T, IsFiniteSet(S), IsFiniteSet(T), Cardinality(S) <= Cardinality(T)
    PROVE  \E r \in [S -> T] : \A x, y \in S : x # y => r[x] # r[y]
<1> DEFINE n == Cardinality(S)
           m == Cardinality(T)
<1>1. n \in Nat /\ ExistsBijection(1..n, S) /\ m \in Nat /\ ExistsBijection(1..m, T)
  BY FS_CardinalityType
<1>2. n <= m
  OBVIOUS
<1> HIDE DEF n, m
<1>3. PICK f \in [1..n -> S] : \A x \in S : \E i \in 1..n : f[i] = x
  BY <1>1 DEF ExistsBijection, Bijection, Surjection
<1>4. PICK g \in [1..m -> T] : \A i, j \in 1..m : g[i] = g[j] => i = j
  BY <1>1 DEF ExistsBijection, Bijection, Injection, IsInjective
<1> DEFINE r == [x \in S |-> g[CHOOSE i \in 1..n : f[i] = x]]
<1>5. ASSUME NEW x \in S
      PROVE  LET i == CHOOSE i \in 1..n : f[i] = x IN i \in 1..m /\ f[i] = x
  BY <1>1, <1>2, <1>3
<1>6. r \in [S -> T]
  BY <1>4, <1>5
<1>7. \A x, y \in S : x # y => r[x] # r[y]
  BY <1>4, <1>5
<1> QED
  BY <1>6, <1>7

-----------------------------------------------------------------------------
(* The invariant of the store                                              *)

AssetRecords == [key : AssetKeys, bytes : Buffers, generation : Nat]
FontRecords == [asset : Nat, font : AtlasFonts, removable : BOOLEAN]

AssetsKept ==
    /\ next_asset_id \in Nat \ {0}
    /\ DOMAIN assets \subseteq 1..next_asset_id - 1
    /\ \A id \in DOMAIN assets : assets[id] \in AssetRecords

\* The fallback font is of no asset and stays; the limit counts the fonts.
FontsKept ==
    /\ next_font_id \in Nat \ {0}
    /\ DOMAIN fonts \subseteq 1..next_font_id - 1
    /\ \A f \in DOMAIN fonts : fonts[f] \in FontRecords
    /\ 1 \in DOMAIN fonts /\ fonts[1].asset = 0 /\ ~fonts[1].removable
    /\ IsFiniteSet(DOMAIN fonts) /\ Cardinality(DOMAIN fonts) <= max_fonts + 1

StoreInv == AssetsKept /\ FontsKept /\ FontsFollowAssets

\* Of the objects of the atlas as many are free as an asset has fonts, and one
\* more as long as a font may be created.
LEMMA FreeIsLarge ==
    ASSUME StoreInv
    PROVE  /\ IsFiniteSet(Free) /\ Cardinality(Free) \in Nat
           /\ Cardinality(DOMAIN fonts) \in Nat
           /\ Cardinality(Free) >= Cardinality(DOMAIN fonts) - 1
           /\ Cardinality(DOMAIN fonts) < max_fonts => Cardinality(Free) >= 1
<1> DEFINE F == DOMAIN fonts
           A == DOMAIN atlas
<1>1. /\ IsFiniteSet(F) /\ Cardinality(F) \in Nat /\ Cardinality(F) <= max_fonts + 1
      /\ max_fonts \in Nat
  BY FS_CardinalityType, AssetStoreAssumption DEF StoreInv, FontsKept
<1>2. A = {fonts[f].font : f \in F} /\ A \subseteq AtlasFonts
  BY DEF StoreInv, FontsFollowAssets, FontsKept, FontRecords
<1> DEFINE font == [f \in F |-> fonts[f].font]
<1>3. font \in Surjection(F, A)
  BY <1>2 DEF Surjection
<1>4. IsFiniteSet(A) /\ Cardinality(A) <= Cardinality(F) /\ Cardinality(A) \in Nat
  BY <1>1, <1>3, FS_Surjection, FS_CardinalityType
<1>5. IsFiniteSet(AtlasFonts) /\ Cardinality(AtlasFonts) = 2 * max_fonts + 1
  <2>1. 0 \in Int /\ 2 * max_fonts \in Int /\ 0 <= 2 * max_fonts
    BY <1>1
  <2>2. /\ IsFiniteSet(0..2 * max_fonts)
        /\ Cardinality(0..2 * max_fonts) = IF 0 > 2 * max_fonts THEN 0 ELSE 2 * max_fonts - 0 + 1
    BY <2>1, FS_Interval, Zenon
  <2> QED
    BY <1>1, <2>2 DEF AtlasFonts
<1>6. /\ IsFiniteSet(AtlasFonts \ A)
      /\ Cardinality(AtlasFonts \ A) = Cardinality(AtlasFonts) - Cardinality(AtlasFonts \cap A)
  BY <1>4, <1>5, FS_Difference
<1>7. AtlasFonts \cap A = A
  BY <1>2
<1>8. Cardinality(AtlasFonts \ A) \in Nat
  BY <1>6, FS_CardinalityType
<1> HIDE DEF F, A, font
<1> QED
  BY <1>1, <1>4, <1>5, <1>6, <1>7, <1>8 DEF Free, F, A

LEMMA ReplacementsAre ==
    ASSUME StoreInv, NEW id \in DOMAIN assets, NEW ids \in SUBSET FontsOf(id)
    PROVE  /\ Replacements(ids) \in [ids -> Free]
           /\ \A f, g \in ids : f # g => Replacements(ids)[f] # Replacements(ids)[g]
<1>1. ids \subseteq DOMAIN fonts \ {1}
  BY DEF FontsOf, StoreInv, AssetsKept, FontsKept
<1>2. /\ IsFiniteSet(DOMAIN fonts \ {1}) /\ Cardinality(DOMAIN fonts \ {1}) \in Nat
      /\ Cardinality(DOMAIN fonts) \in Nat
      /\ Cardinality(DOMAIN fonts \ {1}) = Cardinality(DOMAIN fonts) - 1
  BY FS_RemoveElement, FS_CardinalityType DEF StoreInv, FontsKept
<1>3. IsFiniteSet(ids) /\ Cardinality(ids) <= Cardinality(DOMAIN fonts \ {1})
      /\ Cardinality(ids) \in Nat
  BY <1>1, <1>2, FS_Subset, FS_CardinalityType
<1>4. /\ IsFiniteSet(Free) /\ Cardinality(Free) \in Nat
      /\ Cardinality(Free) >= Cardinality(DOMAIN fonts) - 1
  BY FreeIsLarge
<1>5. \E r \in [ids -> Free] : \A f, g \in ids : f # g => r[f] # r[g]
  <2>1. Cardinality(ids) <= Cardinality(Free)
    BY <1>2, <1>3, <1>4
  <2> QED
    BY <1>3, <1>4, <2>1, InjectionExists, Zenon
<1> QED
  BY <1>5 DEF Replacements

-----------------------------------------------------------------------------
(* The operations                                                          *)

LEMMA UpsertNewKeeps ==
    ASSUME StoreInv, NEW key \in AssetKeys, NEW bytes \in Buffers, UpsertNew(key, bytes)
    PROVE  StoreInv'
<1> DEFINE record == [key |-> key, bytes |-> bytes, generation |-> 1]
<1>1. /\ assets' = PutAll(assets, {next_asset_id}, record)
      /\ next_asset_id' = next_asset_id + 1
      /\ UNCHANGED <<fonts, atlas, next_font_id, default_font_id, FontDefault>>
  BY DEF UpsertNew
<1>2. record \in AssetRecords
  BY DEF AssetRecords
<1> HIDE DEF record
<1>3. /\ DOMAIN assets' = {next_asset_id} \cup DOMAIN assets
      /\ assets'[next_asset_id] = record
      /\ \A id \in DOMAIN assets : id # next_asset_id => assets'[id] = assets[id]
  BY <1>1 DEF PutAll
<1>4. next_asset_id \in Nat \ {0} /\ next_asset_id \notin DOMAIN assets
  BY DEF StoreInv, AssetsKept
<1>5. AssetsKept'
  <2>1. \A id \in DOMAIN assets' : assets'[id] \in AssetRecords
    BY <1>2, <1>3, <1>4 DEF StoreInv, AssetsKept
  <2>2. next_asset_id' \in Nat \ {0} /\ DOMAIN assets' \subseteq 1..next_asset_id' - 1
    BY <1>1, <1>3, <1>4 DEF StoreInv, AssetsKept
  <2> QED
    BY <2>1, <2>2 DEF AssetsKept
<1>6. FontsKept'
  BY <1>1 DEF StoreInv, FontsKept
<1>7. FontsFollowAssets'
  <2>1. \A id \in DOMAIN assets : id \in DOMAIN assets' /\ assets'[id] = assets[id]
    BY <1>3, <1>4
  <2>2. UNCHANGED <<fonts, atlas, default_font_id, FontDefault>>
    BY <1>1
  <2> QED
    BY <2>1, <2>2 DEF StoreInv, FontsFollowAssets
<1> QED
  BY <1>5, <1>6, <1>7 DEF StoreInv

LEMMA UpsertRefusedKeeps ==
    ASSUME StoreInv, NEW id \in DOMAIN assets, NEW bytes \in Buffers, UpsertRefused(id, bytes)
    PROVE  StoreInv'
<1>1. PICK ids \in (SUBSET FontsOf(id)) \ {FontsOf(id)} :
          LET made == Replacements(ids)
              filled == PutAll(atlas, {made[f] : f \in ids}, bytes)
          IN  /\ atlas' = Unwind(made, filled)
              /\ UNCHANGED <<assets, fonts, next_asset_id, next_font_id,
                             default_font_id, FontDefault>>
  BY DEF UpsertRefused
<1> DEFINE made == Replacements(ids)
           objects == {made[f] : f \in ids}
           filled == PutAll(atlas, objects, bytes)
<1>2. made \in [ids -> Free]
  BY ReplacementsAre
<1> HIDE DEF made
<1>3. objects \subseteq Free /\ objects \cap DOMAIN atlas = {}
  BY <1>2 DEF Free
<1>4. atlas' = [o \in DOMAIN filled \ objects |-> filled[o]]
  BY <1>1, <1>2 DEF Unwind, made
<1> HIDE DEF objects
<1>5. DOMAIN filled = objects \cup DOMAIN atlas
      /\ \A o \in DOMAIN atlas : o \notin objects => filled[o] = atlas[o]
  BY DEF PutAll
<1> HIDE DEF filled
<1>6. DOMAIN atlas' = DOMAIN atlas /\ \A o \in DOMAIN atlas : atlas'[o] = atlas[o]
  BY <1>3, <1>4, <1>5
<1>7. UNCHANGED <<assets, fonts, next_asset_id, next_font_id, default_font_id, FontDefault>>
  BY <1>1
<1> QED
  BY <1>6, <1>7 DEF StoreInv, AssetsKept, FontsKept, FontsFollowAssets

LEMMA UpsertReplaceKeeps ==
    ASSUME StoreInv, NEW id \in DOMAIN assets, NEW bytes \in Buffers, UpsertReplace(id, bytes)
    PROVE  StoreInv'
<1> DEFINE ids == FontsOf(id)
           made == Replacements(ids)
           objects == {made[f] : f \in ids}
           filled == PutAll(atlas, objects, bytes)
           old == {fonts[f].font : f \in ids}
<1>1. /\ fonts' = [f \in DOMAIN fonts |->
                     IF f \in ids THEN [fonts[f] EXCEPT !.font = made[f]] ELSE fonts[f]]
      /\ FontDefault' = IF default_font_id \in ids THEN made[default_font_id] ELSE FontDefault
      /\ atlas' = [o \in DOMAIN filled \ old |-> filled[o]]
      /\ assets' = [assets EXCEPT ![id].bytes = bytes, ![id].generation = @ + 1]
      /\ UNCHANGED <<next_asset_id, next_font_id, default_font_id>>
  BY DEF UpsertReplace
<1>2. /\ made \in [ids -> Free] /\ \A f, g \in ids : f # g => made[f] # made[g]
  BY ReplacementsAre
<1>3. /\ ids \subseteq DOMAIN fonts /\ 1 \notin ids
      /\ \A f \in DOMAIN fonts : f \in ids <=> fonts[f].asset = id
  BY DEF FontsOf, StoreInv, AssetsKept, FontsKept
<1> HIDE DEF made
<1>4. objects \subseteq Free /\ objects \cap DOMAIN atlas = {} /\ \A f \in ids : made[f] \in objects
  BY <1>2 DEF Free
<1> HIDE DEF objects, ids
<1>5. /\ DOMAIN filled = objects \cup DOMAIN atlas
      /\ \A o \in objects : filled[o] = bytes
      /\ \A o \in DOMAIN atlas : o \notin objects => filled[o] = atlas[o]
  BY DEF PutAll
<1> HIDE DEF filled
<1>6. /\ DOMAIN fonts' = DOMAIN fonts
      /\ \A f \in DOMAIN fonts :
             /\ fonts'[f].asset = fonts[f].asset /\ fonts'[f].removable = fonts[f].removable
             /\ f \in ids => fonts'[f].font = made[f]
             /\ f \notin ids => fonts'[f].font = fonts[f].font
             /\ fonts'[f] \in FontRecords
  <2>1. DOMAIN fonts' = DOMAIN fonts
    BY <1>1
  <2>2. ASSUME NEW f \in DOMAIN fonts
        PROVE  /\ fonts'[f].asset = fonts[f].asset /\ fonts'[f].removable = fonts[f].removable
               /\ f \in ids => fonts'[f].font = made[f]
               /\ f \notin ids => fonts'[f].font = fonts[f].font
               /\ fonts'[f] \in FontRecords
    <3>1. fonts[f] \in FontRecords
      BY DEF StoreInv, FontsKept
    <3>2. CASE f \in ids
      <4>1. made[f] \in AtlasFonts
        BY <1>2, <3>2 DEF Free
      <4>2. fonts'[f] = [fonts[f] EXCEPT !.font = made[f]]
        BY <1>1, <3>2
      <4> QED
        BY <3>1, <3>2, <4>1, <4>2 DEF FontRecords
    <3>3. CASE f \notin ids
      BY <1>1, <3>1, <3>3
    <3> QED
      BY <3>2, <3>3
  <2> QED
    BY <2>1, <2>2
<1>7. /\ DOMAIN assets' = DOMAIN assets
      /\ assets'[id].bytes = bytes
      /\ \A i \in DOMAIN assets : i # id => assets'[i] = assets[i]
      /\ \A i \in DOMAIN assets : assets'[i] \in AssetRecords
  <2>1. assets[id] \in AssetRecords
    BY DEF StoreInv, AssetsKept
  <2>2. assets'[id] = [assets[id] EXCEPT !.bytes = bytes, !.generation = @ + 1]
    BY <1>1
  <2>3. assets'[id] \in AssetRecords /\ assets'[id].bytes = bytes
    <3> DEFINE halfway == [assets[id] EXCEPT !.bytes = bytes]
    <3>1. halfway \in AssetRecords /\ halfway.bytes = bytes
      BY <2>1 DEF AssetRecords
    <3>2. assets'[id] = [halfway EXCEPT !.generation = @ + 1]
      BY <2>2
    <3> HIDE DEF halfway
    <3> QED
      BY <3>1, <3>2 DEF AssetRecords
  <2>4. DOMAIN assets' = DOMAIN assets /\ \A i \in DOMAIN assets : i # id => assets'[i] = assets[i]
    BY <1>1
  <2> QED
    BY <2>3, <2>4 DEF StoreInv, AssetsKept
<1>8. old \subseteq DOMAIN atlas /\ old \cap objects = {}
  BY <1>3, <1>4 DEF StoreInv, FontsFollowAssets
<1>9. /\ DOMAIN atlas' = (objects \cup DOMAIN atlas) \ old
      /\ \A o \in DOMAIN atlas' : atlas'[o] = filled[o]
  BY <1>1, <1>5
<1>10. \A f \in DOMAIN fonts : f \notin ids => fonts[f].font \notin old
  BY <1>3 DEF StoreInv, FontsFollowAssets
<1>11. \A f \in ids : fonts[f].font \in old
  OBVIOUS
<1> HIDE DEF old
<1>12. AssetsKept'
  BY <1>1, <1>7 DEF StoreInv, AssetsKept
<1>13. FontsKept'
  BY <1>1, <1>3, <1>6 DEF StoreInv, FontsKept
<1>14. \A f \in DOMAIN fonts \ {1} :
           /\ fonts'[f].asset \in DOMAIN assets'
           /\ fonts'[f].font \in DOMAIN atlas'
           /\ atlas'[fonts'[f].font] = assets'[fonts'[f].asset].bytes
  <2> SUFFICES ASSUME NEW f \in DOMAIN fonts \ {1}
               PROVE  /\ fonts'[f].asset \in DOMAIN assets'
                      /\ fonts'[f].font \in DOMAIN atlas'
                      /\ atlas'[fonts'[f].font] = assets'[fonts'[f].asset].bytes
    OBVIOUS
  <2>1. /\ fonts[f].asset \in DOMAIN assets /\ fonts[f].font \in DOMAIN atlas
        /\ atlas[fonts[f].font] = assets[fonts[f].asset].bytes
    BY DEF StoreInv, FontsFollowAssets
  <2>2. CASE f \in ids
    BY <1>3, <1>4, <1>5, <1>6, <1>7, <1>8, <1>9, <2>1, <2>2
  <2>3. CASE f \notin ids
    BY <1>3, <1>4, <1>5, <1>6, <1>7, <1>9, <1>10, <2>1, <2>3
  <2> QED
    BY <2>2, <2>3
<1>15. \A f \in DOMAIN fonts : f \notin ids => fonts[f].font \in DOMAIN atlas
  BY DEF StoreInv, FontsFollowAssets
<1>16. \A f, g \in DOMAIN fonts : f # g => fonts'[f].font # fonts'[g].font
  <2> SUFFICES ASSUME NEW f \in DOMAIN fonts, NEW g \in DOMAIN fonts, f # g
               PROVE  fonts'[f].font # fonts'[g].font
    OBVIOUS
  <2>1. fonts[f].font # fonts[g].font
    BY DEF StoreInv, FontsFollowAssets
  <2> QED
    BY <1>2, <1>4, <1>6, <1>15, <2>1
<1>17. DOMAIN atlas' = {fonts'[f].font : f \in DOMAIN fonts}
  <2>1. \A f \in DOMAIN fonts : fonts'[f].font \in DOMAIN atlas'
    BY <1>4, <1>6, <1>8, <1>9, <1>10, <1>15
  <2>2. ASSUME NEW o \in DOMAIN atlas' PROVE \E f \in DOMAIN fonts : fonts'[f].font = o
    <3>1. CASE o \in objects
      <4>1. PICK f \in ids : made[f] = o
        BY <3>1 DEF objects
      <4> QED
        BY <1>3, <1>6, <4>1
    <3>2. CASE o \in DOMAIN atlas \ old
      <4>1. PICK f \in DOMAIN fonts : fonts[f].font = o
        BY <3>2 DEF StoreInv, FontsFollowAssets
      <4> QED
        BY <1>6, <1>11, <3>2, <4>1
    <3> QED
      BY <1>9, <3>1, <3>2
  <2> QED
    BY <2>1, <2>2
<1>18. /\ default_font_id' \in DOMAIN fonts'
       /\ FontDefault' \in {fonts'[default_font_id'].font} \cup
                           (IF default_font_id' = 1 THEN {Null} ELSE {})
  BY <1>1, <1>6 DEF StoreInv, FontsFollowAssets
<1>19. FontsFollowAssets'
  BY <1>6, <1>14, <1>16, <1>17, <1>18 DEF FontsFollowAssets
<1> QED
  BY <1>12, <1>13, <1>19 DEF StoreInv

LEMMA RemoveAssetKeeps ==
    ASSUME StoreInv, NEW id \in DOMAIN assets, RemoveAsset(id)
    PROVE  StoreInv'
<1>1. /\ FontsOf(id) = {}
      /\ assets' = [i \in DOMAIN assets \ {id} |-> assets[i]]
      /\ UNCHANGED <<fonts, atlas, next_asset_id, next_font_id, default_font_id, FontDefault>>
  BY DEF RemoveAsset
<1>2. AssetsKept' /\ FontsKept'
  BY <1>1 DEF StoreInv, AssetsKept, FontsKept
<1>3. FontsFollowAssets'
  BY <1>1 DEF StoreInv, FontsFollowAssets, FontsOf
<1> QED
  BY <1>2, <1>3 DEF StoreInv

LEMMA CreateFontKeeps ==
    ASSUME StoreInv, NEW id \in DOMAIN assets, NEW make_default \in BOOLEAN,
           CreateFont(id, make_default)
    PROVE  StoreInv'
<1> DEFINE font == CHOOSE o \in Free : TRUE
           record == [asset |-> id, font |-> font, removable |-> TRUE]
<1>1. /\ Cardinality(DOMAIN fonts) < max_fonts
      /\ atlas' = PutAll(atlas, {font}, assets[id].bytes)
      /\ fonts' = PutAll(fonts, {next_font_id}, record)
      /\ next_font_id' = next_font_id + 1
      /\ IF make_default THEN default_font_id' = next_font_id /\ FontDefault' = font
                         ELSE UNCHANGED <<default_font_id, FontDefault>>
      /\ UNCHANGED <<assets, next_asset_id>>
  BY DEF CreateFont
<1>2. font \in Free
  <2>1. IsFiniteSet(Free) /\ Cardinality(Free) >= 1
    BY <1>1, FreeIsLarge
  <2>2. Free # {}
    BY <2>1, FS_EmptySet
  <2> QED
    BY <2>2
<1>3. font \in AtlasFonts /\ font \notin DOMAIN atlas
  BY <1>2 DEF Free
<1> HIDE DEF font
<1>4. record \in FontRecords /\ record.asset = id /\ record.font = font /\ record.removable
  BY <1>3 DEF FontRecords, StoreInv, AssetsKept
<1> HIDE DEF record
<1>5. /\ DOMAIN fonts' = {next_font_id} \cup DOMAIN fonts
      /\ fonts'[next_font_id] = record
      /\ \A f \in DOMAIN fonts : f # next_font_id => fonts'[f] = fonts[f]
  BY <1>1 DEF PutAll
<1>6. /\ DOMAIN atlas' = {font} \cup DOMAIN atlas
      /\ atlas'[font] = assets[id].bytes
      /\ \A o \in DOMAIN atlas : o # font => atlas'[o] = atlas[o]
  BY <1>1 DEF PutAll
<1>7. next_font_id \in Nat \ {0} /\ next_font_id \notin DOMAIN fonts /\ next_font_id # 1
  BY DEF StoreInv, FontsKept
<1>8. AssetsKept'
  BY <1>1 DEF StoreInv, AssetsKept
<1>9. FontsKept'
  <2>1. IsFiniteSet(DOMAIN fonts') /\ Cardinality(DOMAIN fonts') <= max_fonts + 1
    <3>1. /\ IsFiniteSet(DOMAIN fonts) /\ Cardinality(DOMAIN fonts) \in Nat
          /\ Cardinality(DOMAIN fonts) < max_fonts /\ max_fonts \in Nat
      BY <1>1, FS_CardinalityType, AssetStoreAssumption DEF StoreInv, FontsKept
    <3>2. /\ IsFiniteSet(DOMAIN fonts \cup {next_font_id})
          /\ Cardinality(DOMAIN fonts \cup {next_font_id}) = Cardinality(DOMAIN fonts) + 1
      BY <1>7, <3>1, FS_AddElement
    <3>3. DOMAIN fonts' = DOMAIN fonts \cup {next_font_id}
      BY <1>5
    <3> QED
      BY <3>1, <3>2, <3>3
  <2>2. \A f \in DOMAIN fonts' : fonts'[f] \in FontRecords
    BY <1>4, <1>5, <1>7 DEF StoreInv, FontsKept
  <2>3. next_font_id' \in Nat \ {0} /\ DOMAIN fonts' \subseteq 1..next_font_id' - 1
    BY <1>1, <1>5, <1>7 DEF StoreInv, FontsKept
  <2>4. 1 \in DOMAIN fonts' /\ fonts'[1].asset = 0 /\ ~fonts'[1].removable
    BY <1>5, <1>7 DEF StoreInv, FontsKept
  <2> QED
    BY <2>1, <2>2, <2>3, <2>4 DEF FontsKept
<1>10. \A f \in DOMAIN fonts : fonts'[f] = fonts[f] /\ fonts[f].font \in DOMAIN atlas
  BY <1>5, <1>7 DEF StoreInv, FontsFollowAssets
<1>11. \A f \in DOMAIN fonts' \ {1} :
           /\ fonts'[f].asset \in DOMAIN assets
           /\ fonts'[f].font \in DOMAIN atlas'
           /\ atlas'[fonts'[f].font] = assets[fonts'[f].asset].bytes
  BY <1>3, <1>4, <1>5, <1>6, <1>7, <1>10 DEF StoreInv, FontsFollowAssets
<1>12. \A f, g \in DOMAIN fonts' : f # g => fonts'[f].font # fonts'[g].font
  BY <1>3, <1>4, <1>5, <1>10 DEF StoreInv, FontsFollowAssets
<1>13. DOMAIN atlas' = {fonts'[f].font : f \in DOMAIN fonts'}
  <2>1. DOMAIN atlas = {fonts[f].font : f \in DOMAIN fonts}
    BY DEF StoreInv, FontsFollowAssets
  <2> QED
    BY <1>4, <1>5, <1>6, <1>10, <2>1
<1>14. /\ default_font_id' \in DOMAIN fonts'
       /\ FontDefault' \in {fonts'[default_font_id'].font} \cup
                           (IF default_font_id' = 1 THEN {Null} ELSE {})
  <2>1. CASE make_default
    BY <1>1, <1>4, <1>5, <2>1
  <2>2. CASE ~make_default
    <3>1. default_font_id' = default_font_id /\ FontDefault' = FontDefault
      BY <1>1, <2>2
    <3>2. default_font_id' \in DOMAIN fonts' /\ fonts'[default_font_id] = fonts[default_font_id]
      BY <1>5, <1>10, <3>1 DEF StoreInv, FontsFollowAssets
    <3> QED
      BY <3>1, <3>2 DEF StoreInv, FontsFollowAssets
  <2> QED
    BY <2>1, <2>2
<1>15. FontsFollowAssets'
  BY <1>1, <1>11, <1>12, <1>13, <1>14 DEF FontsFollowAssets
<1> QED
  BY <1>8, <1>9, <1>15 DEF StoreInv

LEMMA SetDefaultFontKeeps ==
    ASSUME StoreInv, NEW f \in DOMAIN fonts, SetDefaultFont(f)
    PROVE  StoreInv'
<1>1. AssetsKept' /\ FontsKept'
  BY DEF SetDefaultFont, StoreInv, AssetsKept, FontsKept
<1>2. FontsFollowAssets'
  BY DEF SetDefaultFont, StoreInv, FontsFollowAssets
<1> QED
  BY <1>1, <1>2 DEF StoreInv

LEMMA RemoveFontKeeps ==
    ASSUME StoreInv, NEW f \in DOMAIN fonts, RemoveFont(f)
    PROVE  StoreInv'
<1>1. /\ fonts[f].removable
      /\ IF default_font_id = f THEN default_font_id' = 1 /\ FontDefault' = fonts[1].font
                                ELSE UNCHANGED <<default_font_id, FontDefault>>
      /\ atlas' = [o \in DOMAIN atlas \ {fonts[f].font} |-> atlas[o]]
      /\ fonts' = [g \in DOMAIN fonts \ {f} |-> fonts[g]]
      /\ UNCHANGED <<assets, next_asset_id, next_font_id>>
  BY DEF RemoveFont
<1>2. f # 1
  BY <1>1 DEF StoreInv, FontsKept
<1>3. DOMAIN fonts' = DOMAIN fonts \ {f} /\ \A g \in DOMAIN fonts \ {f} : fonts'[g] = fonts[g]
  BY <1>1
<1>4. /\ DOMAIN atlas' = DOMAIN atlas \ {fonts[f].font}
      /\ \A o \in DOMAIN atlas \ {fonts[f].font} : atlas'[o] = atlas[o]
  BY <1>1
<1>5. AssetsKept'
  BY <1>1 DEF StoreInv, AssetsKept
<1>6. FontsKept'
  <2>1. IsFiniteSet(DOMAIN fonts') /\ Cardinality(DOMAIN fonts') <= max_fonts + 1
    <3>1. /\ IsFiniteSet(DOMAIN fonts) /\ Cardinality(DOMAIN fonts) \in Nat
          /\ Cardinality(DOMAIN fonts) <= max_fonts + 1 /\ max_fonts \in Nat
      BY FS_CardinalityType, AssetStoreAssumption DEF StoreInv, FontsKept
    <3>2. /\ IsFiniteSet(DOMAIN fonts \ {f})
          /\ Cardinality(DOMAIN fonts \ {f}) = Cardinality(DOMAIN fonts) - 1
      BY <3>1, FS_RemoveElement
    <3> QED
      BY <1>3, <3>1, <3>2
  <2> QED
    BY <1>1, <1>2, <1>3, <2>1 DEF StoreInv, FontsKept
<1>7. \A g \in DOMAIN fonts \ {f} : fonts[g].font # fonts[f].font
  BY DEF StoreInv, FontsFollowAssets
<1>8. FontsFollowAssets'
  <2>1. DOMAIN atlas' = {fonts'[g].font : g \in DOMAIN fonts'}
    <3>1. DOMAIN atlas = {fonts[g].font : g \in DOMAIN fonts}
      BY DEF StoreInv, FontsFollowAssets
    <3> QED
      BY <1>3, <1>4, <1>7, <3>1
  <2>2. /\ default_font_id' \in DOMAIN fonts'
        /\ FontDefault' \in {fonts'[default_font_id'].font} \cup
                            (IF default_font_id' = 1 THEN {Null} ELSE {})
    <3>1. 1 \in DOMAIN fonts' /\ fonts'[1] = fonts[1]
      BY <1>2, <1>3 DEF StoreInv, FontsKept
    <3>2. CASE default_font_id = f
      BY <1>1, <3>1, <3>2
    <3>3. CASE default_font_id # f
      <4>1. default_font_id' = default_font_id /\ FontDefault' = FontDefault
        BY <1>1, <3>3
      <4>2. default_font_id' \in DOMAIN fonts' /\ fonts'[default_font_id] = fonts[default_font_id]
        BY <1>3, <3>3, <4>1 DEF StoreInv, FontsFollowAssets
      <4> QED
        BY <4>1, <4>2 DEF StoreInv, FontsFollowAssets
    <3> QED
      BY <3>2, <3>3
  <2>3. \A g \in DOMAIN fonts' \ {1} :
            /\ fonts'[g].asset \in DOMAIN assets'
            /\ fonts'[g].font \in DOMAIN atlas'
            /\ atlas'[fonts'[g].font] = assets'[fonts'[g].asset].bytes
    BY <1>1, <1>3, <1>4, <1>7 DEF StoreInv, FontsFollowAssets
  <2>4. \A g, h \in DOMAIN fonts' : g # h => fonts'[g].font # fonts'[h].font
    BY <1>3 DEF StoreInv, FontsFollowAssets
  <2> QED
    BY <2>1, <2>2, <2>3, <2>4 DEF FontsFollowAssets
<1> QED
  BY <1>5, <1>6, <1>8 DEF StoreInv

\* Configure, also after a cleanup.
LEMMA ConfiguredIs ==
    ASSUME NEW a, NEW f, a = <<>>, f = [i \in {1} |-> Fallback]
    PROVE  /\ DOMAIN a = {} /\ DOMAIN f = {1} /\ f[1] = Fallback
           /\ Fallback \in FontRecords /\ Fallback.asset = 0 /\ Fallback.font = 0
           /\ ~Fallback.removable
           /\ IsFiniteSet(DOMAIN f) /\ Cardinality(DOMAIN f) <= max_fonts + 1
<1>1. Fallback \in FontRecords /\ Fallback.asset = 0 /\ Fallback.font = 0 /\ ~Fallback.removable
  BY AssetStoreAssumption DEF Fallback, FontRecords, AtlasFonts
<1>2. IsFiniteSet({1}) /\ Cardinality({1}) = 1
  BY FS_Singleton
<1>3. IsFiniteSet(DOMAIN f) /\ Cardinality(DOMAIN f) <= max_fonts + 1
  BY <1>2, AssetStoreAssumption
<1>4. DOMAIN a = {}
  OBVIOUS
<1> QED
  BY <1>1, <1>3, <1>4

LEMMA InitKept == StoreInit => StoreInv
<1> SUFFICES ASSUME StoreInit PROVE StoreInv
  OBVIOUS
<1>1. /\ DOMAIN assets = {} /\ DOMAIN fonts = {1} /\ fonts[1] = Fallback
      /\ Fallback \in FontRecords /\ Fallback.asset = 0 /\ Fallback.font = 0
      /\ ~Fallback.removable
      /\ IsFiniteSet(DOMAIN fonts) /\ Cardinality(DOMAIN fonts) <= max_fonts + 1
  BY ConfiguredIs DEF StoreInit
<1> QED
  BY <1>1 DEF StoreInit, StoreInv, AssetsKept, FontsKept, FontsFollowAssets

LEMMA RestartKeeps == RestartAssets => StoreInv'
<1> SUFFICES ASSUME RestartAssets PROVE StoreInv'
  OBVIOUS
<1>1. /\ DOMAIN assets' = {} /\ DOMAIN fonts' = {1} /\ fonts'[1] = Fallback
      /\ Fallback \in FontRecords /\ Fallback.asset = 0 /\ Fallback.font = 0
      /\ ~Fallback.removable
      /\ IsFiniteSet(DOMAIN fonts') /\ Cardinality(DOMAIN fonts') <= max_fonts + 1
  BY ConfiguredIs DEF RestartAssets
<1> QED
  BY <1>1 DEF RestartAssets, StoreInv, AssetsKept, FontsKept, FontsFollowAssets

\* README.md, Assets And Fonts: every font reads the bytes its asset holds, from an
\* atlas font of its own, and the atlas keeps no font beyond these, also after an
\* upsert that was refused half way (UiAssetManager::Upsert).
THEOREM FontsFollow == StoreSpec => []FontsFollowAssets
<1>1. StoreInit => StoreInv
  BY InitKept
<1>2. StoreInv /\ [StoreNext]_store_vars => StoreInv'
  <2> SUFFICES ASSUME StoreInv, [StoreNext]_store_vars PROVE StoreInv'
    OBVIOUS
  <2>1. ASSUME NEW key \in AssetKeys, NEW bytes \in Buffers, UpsertNew(key, bytes)
        PROVE  StoreInv'
    BY <2>1, UpsertNewKeeps
  <2>2. ASSUME NEW key \in AssetKeys, NEW bytes \in Buffers, NEW id \in Holding(key),
               UpsertRefused(id, bytes) \/ UpsertReplace(id, bytes)
        PROVE  StoreInv'
    <3>1. id \in DOMAIN assets
      BY DEF Holding
    <3> QED
      BY <2>2, <3>1, UpsertRefusedKeeps, UpsertReplaceKeeps
  <2>3. ASSUME NEW id \in DOMAIN assets, RemoveAsset(id) PROVE StoreInv'
    BY <2>3, RemoveAssetKeeps
  <2>4. ASSUME NEW id \in DOMAIN assets, NEW make_default \in BOOLEAN,
               CreateFont(id, make_default)
        PROVE  StoreInv'
    BY <2>4, CreateFontKeeps
  <2>5. ASSUME NEW f \in DOMAIN fonts, SetDefaultFont(f) PROVE StoreInv'
    BY <2>5, SetDefaultFontKeeps
  <2>6. ASSUME NEW f \in DOMAIN fonts, RemoveFont(f) PROVE StoreInv'
    BY <2>6, RemoveFontKeeps
  <2>7. CASE RestartAssets
    BY <2>7, RestartKeeps
  <2>8. CASE UNCHANGED store_vars
    BY <2>8 DEF store_vars, StoreInv, AssetsKept, FontsKept, FontsFollowAssets
  <2> QED
    BY <2>1, <2>2, <2>3, <2>4, <2>5, <2>6, <2>7, <2>8 DEF StoreNext
<1>3. StoreInv => FontsFollowAssets
  BY DEF StoreInv
<1> QED
  BY <1>1, <1>2, <1>3, PTL DEF StoreSpec

-----------------------------------------------------------------------------
(* Textures                                                                *)

Statuses == {"want_create", "want_updates", "ok", "want_destroy", "destroyed"}
EntryRecords == [status : Statuses, unwanted : BOOLEAN, registered : BOOLEAN]

EntriesKept ==
    /\ store = [active |-> store.active, entries |-> Entries]
    /\ store.active \in BOOLEAN
    /\ Entries \in [DOMAIN Entries -> EntryRecords]
    /\ phase \in {"idle", "frame", "drawn"}
    /\ ~store.active => phase = "idle"

\* The renderer has nothing that the backend does not see: what NewFrame takes
\* from the registry is not on the GPU any more, so that Cleanup, which destroys
\* what the backend sees, leaves nothing behind.
OnGpuIsSeen == on_gpu \subseteq platform

\* What the draw lists of a frame name stays in the registry and alive until the
\* lists are closed, although the handles may go; then the backend has it all.
DrawnStays ==
    /\ phase = "idle" => drawn = {}
    /\ phase = "frame" =>
           \A t \in drawn : Entries[t].registered /\ Entries[t].status \notin {"want_destroy", "destroyed"}
    /\ phase = "drawn" => platform \subseteq InRegistry(Entries)

TextureInv == EntriesKept /\ TexturesOutliveTheirUsers /\ OnGpuIsSeen /\ DrawnStays

\* Set changes one field of the entries of T and nothing else.
LEMMA SetStatus ==
    ASSUME EntriesKept, NEW T, NEW value \in Statuses
    PROVE  /\ Set("status", T, value) \in [DOMAIN Entries -> EntryRecords]
           /\ \A t \in DOMAIN Entries :
                 /\ Set("status", T, value)[t].status = IF t \in T THEN value ELSE Entries[t].status
                 /\ Set("status", T, value)[t].unwanted = Entries[t].unwanted
                 /\ Set("status", T, value)[t].registered = Entries[t].registered
  BY DEF EntriesKept, Set, EntryRecords

LEMMA SetUnwanted ==
    ASSUME EntriesKept, NEW T
    PROVE  /\ Set("unwanted", T, TRUE) \in [DOMAIN Entries -> EntryRecords]
           /\ \A t \in DOMAIN Entries :
                 /\ Set("unwanted", T, TRUE)[t].status = Entries[t].status
                 /\ t \notin T => Set("unwanted", T, TRUE)[t].unwanted = Entries[t].unwanted
                 /\ Set("unwanted", T, TRUE)[t].registered = Entries[t].registered
  BY DEF EntriesKept, Set, EntryRecords

\* The initial state has no texture at all.
LEMMA InitTextures == TexturesInit => TextureInv
  BY DEF TexturesInit, TextureInv, EntriesKept, Entries, TexturesOutliveTheirUsers, OnGpuIsSeen, DrawnStays,
         InRegistry

\* Every action keeps what texture data is needed for.
LEMMA StepTextures == TextureInv /\ [TexturesNext]_texture_vars => TextureInv'
<1> SUFFICES ASSUME TextureInv, [TexturesNext]_texture_vars
             PROVE  TextureInv'
    OBVIOUS
<1> USE DEF TextureInv
<1>1. ASSUME NEW t \in Textures, CreateTexture(t) PROVE TextureInv'
  <2>1. /\ Entries' = [u \in DOMAIN Entries \cup {t} |->
                         IF u = t THEN [status |-> "want_create", unwanted |-> FALSE,
                                        registered |-> TRUE]
                         ELSE Entries[u]]
        /\ store'.active = TRUE /\ store.active /\ phase # "drawn"
        /\ t \notin DOMAIN Entries
        /\ store' = [active |-> store'.active, entries |-> Entries']
    BY <1>1 DEF CreateTexture, Entries, EntriesKept
  <2>2. EntriesKept'
    BY <1>1, <2>1 DEF CreateTexture, EntriesKept, EntryRecords, Statuses
  <2>3. TexturesOutliveTheirUsers'
    BY <1>1, <2>1 DEF CreateTexture, TexturesOutliveTheirUsers, IsUsable
  <2>4. OnGpuIsSeen' /\ DrawnStays'
    BY <1>1, <2>1 DEF CreateTexture, OnGpuIsSeen, DrawnStays, TexturesOutliveTheirUsers
  <2> QED BY <2>2, <2>3, <2>4
<1>2. ASSUME NEW t \in handles, Update(t) PROVE TextureInv'
  <2>1. /\ Entries' = Set("status", {t}, "want_updates")
        /\ store'.active = store.active
        /\ store' = [active |-> store'.active, entries |-> Entries']
    BY <1>2 DEF Update, Entries, EntriesKept
  <2>2. /\ Entries' \in [DOMAIN Entries -> EntryRecords]
        /\ \A u \in DOMAIN Entries :
              /\ Entries'[u].status = IF u = t THEN "want_updates" ELSE Entries[u].status
              /\ Entries'[u].unwanted = Entries[u].unwanted
              /\ Entries'[u].registered = Entries[u].registered
    BY <2>1, SetStatus DEF Statuses
  <2>3. DOMAIN Entries' = DOMAIN Entries
    BY <2>2
  <2> QED
    BY <1>2, <2>1, <2>2, <2>3, ZenonT(60)
    DEF Update, EntriesKept, TexturesOutliveTheirUsers, IsUsable, OnGpuIsSeen, DrawnStays, InRegistry
<1>3. ASSUME NEW t \in handles, Destroy(t) PROVE TextureInv'
  <2>1. store.active
    BY DEF TexturesOutliveTheirUsers, IsUsable
  <2>2. /\ Entries' = Set("unwanted", {t}, TRUE)
        /\ store'.active = store.active
        /\ store' = [active |-> store'.active, entries |-> Entries']
    BY <1>3, <2>1 DEF Destroy, Entries, EntriesKept
  <2>3. /\ Entries' \in [DOMAIN Entries -> EntryRecords]
        /\ \A u \in DOMAIN Entries :
              /\ Entries'[u].status = Entries[u].status
              /\ u # t => Entries'[u].unwanted = Entries[u].unwanted
              /\ Entries'[u].registered = Entries[u].registered
    BY <2>2, SetUnwanted
  <2>4. DOMAIN Entries' = DOMAIN Entries
    BY <2>3
  <2> QED
    BY <1>3, <2>2, <2>3, <2>4
    DEF Destroy, EntriesKept, TexturesOutliveTheirUsers, IsUsable, OnGpuIsSeen, DrawnStays, InRegistry
<1>4. ASSUME NEW t \in handles, Draw(t) PROVE TextureInv'
  BY <1>4 DEF Draw, EntriesKept, Entries, TexturesOutliveTheirUsers, IsUsable, OnGpuIsSeen, DrawnStays,
              InRegistry
<1>5. CASE NewFrame
  <2> DEFINE New(t) == Collect(Announced(Entries[t], t \in on_gpu), t \in on_gpu)
  <2>1. /\ Entries' = [t \in DOMAIN Entries |-> New(t)]
        /\ store'.active = TRUE /\ phase' = "frame" /\ phase = "idle"
        /\ store' = [active |-> store'.active, entries |-> Entries']
    BY <1>5 DEF NewFrame, Entries, EntriesKept
  <2>2. ASSUME NEW t \in DOMAIN Entries
        PROVE  /\ New(t) \in EntryRecords
               /\ New(t).unwanted = Entries[t].unwanted
               /\ ~Entries[t].unwanted =>
                     New(t).status = Entries[t].status /\ New(t).registered = Entries[t].registered
               /\ t \in on_gpu => /\ New(t).registered = Entries[t].registered
                                  /\ Entries[t].status # "destroyed" => New(t).status # "destroyed"
    <3>1. Entries[t] \in EntryRecords
      BY DEF EntriesKept
    <3> QED BY <3>1 DEF Announced, Collect, EntryRecords, Statuses
  <2>3. /\ Entries' \in [DOMAIN Entries -> EntryRecords]
        /\ DOMAIN Entries' = DOMAIN Entries
        /\ \A t \in DOMAIN Entries : Entries'[t] = New(t)
    BY <2>1, <2>2
  <2> HIDE DEF New
  <2>4. EntriesKept'
    BY <2>1, <2>3 DEF EntriesKept
  <2>5. TexturesOutliveTheirUsers'
    BY <1>5, <2>1, <2>2, <2>3 DEF NewFrame, TexturesOutliveTheirUsers, IsUsable
  <2>6. OnGpuIsSeen' /\ DrawnStays'
    BY <1>5, <2>1 DEF NewFrame, OnGpuIsSeen, DrawnStays
  <2> QED BY <2>4, <2>5, <2>6
<1>6. CASE EndFrame
  BY <1>6 DEF EndFrame, EntriesKept, Entries, TexturesOutliveTheirUsers, IsUsable, OnGpuIsSeen,
              DrawnStays, InRegistry
<1>7. CASE CloseDrawLists
  BY <1>7 DEF CloseDrawLists, EntriesKept, Entries, TexturesOutliveTheirUsers, IsUsable, OnGpuIsSeen,
              DrawnStays, InRegistry
<1>8. ASSUME NEW held \in SUBSET platform, RenderFrame(held) PROVE TextureInv'
  <2> DEFINE served == [t \in DOMAIN Entries |->
                          IF t \in platform
                          THEN [Entries[t] EXCEPT !.status = Served(Entries[t], t \in held)]
                          ELSE Entries[t]]
  <2>1. ASSUME NEW t \in DOMAIN Entries
        PROVE  /\ served[t] \in EntryRecords
               /\ served[t].registered = Entries[t].registered
               /\ served[t].unwanted = Entries[t].unwanted
               /\ Entries[t].status \notin {"want_destroy", "destroyed"} =>
                     served[t].status \notin {"want_destroy", "destroyed"}
               /\ t \notin platform => served[t] = Entries[t]
    <3>1. Entries[t] \in EntryRecords
      BY DEF EntriesKept
    <3> QED BY <3>1 DEF Served, EntryRecords, Statuses
  <2>2. /\ on_gpu' = (on_gpu \ platform) \cup {t \in platform : served[t].status # "destroyed"}
        /\ store' = [store EXCEPT !.entries = [t \in InRegistry(served) |-> served[t]]]
        /\ phase = "drawn" /\ phase' = "idle" /\ drawn' = {}
        /\ platform' = platform \cap DOMAIN store'.entries
        /\ handles' = handles
    BY <1>8 DEF RenderFrame
  <2>3. /\ Entries' = [t \in InRegistry(served) |-> served[t]]
        /\ store'.active = store.active
        /\ store' = [active |-> store'.active, entries |-> Entries']
    BY <2>2 DEF Entries, EntriesKept
  <2>4. InRegistry(served) = InRegistry(Entries)
    BY <2>1 DEF InRegistry
  <2>5. /\ Entries' \in [InRegistry(Entries) -> EntryRecords]
        /\ DOMAIN Entries' = InRegistry(Entries)
        /\ \A t \in InRegistry(Entries) : t \in DOMAIN Entries /\ Entries'[t] = served[t]
    BY <2>1, <2>3, <2>4 DEF InRegistry
  <2> HIDE DEF served
  <2>6. EntriesKept'
    BY <2>2, <2>3, <2>5 DEF EntriesKept
  <2>7. platform \subseteq InRegistry(Entries) /\ platform' = platform
    <3>1. platform \subseteq InRegistry(Entries)
      BY <2>2 DEF DrawnStays
    <3> QED BY <3>1, <2>2, <2>5 DEF Entries
  <2>8. on_gpu' = {t \in platform : served[t].status # "destroyed"}
    BY <2>2 DEF OnGpuIsSeen
  <2>9. handles \subseteq InRegistry(Entries)
    BY DEF TexturesOutliveTheirUsers, InRegistry
  <2>10. TexturesOutliveTheirUsers'
    <3>1. (handles \cup drawn \cup on_gpu \cup platform \subseteq DOMAIN Entries)'
      BY <2>2, <2>5, <2>7, <2>8, <2>9
    <3>2. (\A t \in handles : IsUsable(t) /\ Entries[t].registered)'
      BY <2>1, <2>2, <2>3, <2>5, <2>9 DEF TexturesOutliveTheirUsers, IsUsable, InRegistry
    <3>3. (\A t \in on_gpu : Entries[t].registered /\ Entries[t].status # "destroyed")'
      BY <2>1, <2>5, <2>7, <2>8 DEF InRegistry
    <3> QED BY <2>2, <3>1, <3>2, <3>3 DEF TexturesOutliveTheirUsers
  <2>11. OnGpuIsSeen' /\ DrawnStays'
    BY <2>2, <2>7, <2>8 DEF OnGpuIsSeen, DrawnStays
  <2> QED BY <2>6, <2>10, <2>11
<1>9. CASE Cleanup
  BY <1>9 DEF Cleanup, EntriesKept, Entries, TexturesOutliveTheirUsers, IsUsable, OnGpuIsSeen,
              DrawnStays, InRegistry
<1>10. CASE RestartTextures
  BY <1>10 DEF RestartTextures, EntriesKept, Entries, TexturesOutliveTheirUsers, IsUsable, OnGpuIsSeen,
               DrawnStays, InRegistry
<1>11. CASE UNCHANGED texture_vars
  BY <1>11 DEF texture_vars, EntriesKept, Entries, TexturesOutliveTheirUsers, IsUsable, OnGpuIsSeen,
               DrawnStays, InRegistry
<1> QED
  BY <1>1, <1>2, <1>3, <1>4, <1>5, <1>6, <1>7, <1>8, <1>9, <1>10, <1>11 DEF TexturesNext

\* Texture data outlives every handle, draw list and GPU texture that uses it,
\* however creation, drawing, destruction and shutdown interleave (ui_texture.cpp,
\* and the frame of UiApp).
THEOREM TextureDataOutlivesItsUsers == TexturesSpec => []TexturesOutliveTheirUsers
<1>1. TextureInv => TexturesOutliveTheirUsers
  BY DEF TextureInv
<1> QED BY <1>1, InitTextures, StepTextures, PTL DEF TexturesSpec

-----------------------------------------------------------------------------
(* Shared graphs: what is reached                                          *)

Closed(next, S) == \A c \in S : next[c] \subseteq S

\* The closure is a closed set that holds what is next, and the smallest one.
LEMMA ClosureIs ==
    ASSUME NEW next \in [Assets -> SUBSET Assets], NEW a \in Assets
    PROVE  /\ Closure(next, a) \in SUBSET Assets
           /\ next[a] \subseteq Closure(next, a)
           /\ Closed(next, Closure(next, a))
           /\ \A S \in SUBSET Assets :
                  next[a] \subseteq S /\ Closed(next, S) => Closure(next, a) \subseteq S
<1>1. Closure(next, a) \in SUBSET Assets
  BY DEF Closure
<1>2. next[a] \subseteq Closure(next, a)
  BY DEF Closure
<1>3. Closed(next, Closure(next, a))
  <2> SUFFICES ASSUME NEW c \in Closure(next, a), NEW d \in next[c],
                      NEW S \in SUBSET Assets,
                      next[a] \subseteq S, \A e \in S : next[e] \subseteq S
               PROVE  d \in S
    BY <1>1 DEF Closed, Closure
  <2>1. c \in S
    BY DEF Closure
  <2> QED
    BY <2>1
<1>4. ASSUME NEW S \in SUBSET Assets, next[a] \subseteq S, Closed(next, S)
      PROVE  Closure(next, a) \subseteq S
  BY <1>4 DEF Closure, Closed
<1> QED
  BY <1>1, <1>2, <1>3, <1>4

\* Where two relations differ at one asset only, what does not reach it reaches
\* the same in both.
LEMMA SameClosure ==
    ASSUME NEW f \in [Assets -> SUBSET Assets], NEW g \in [Assets -> SUBSET Assets],
           NEW a \in Assets, \A c \in Assets \ {a} : f[c] = g[c],
           NEW b \in Assets \ {a}, a \notin Closure(f, b)
    PROVE  Closure(g, b) = Closure(f, b)
<1>1. Closure(g, b) \subseteq Closure(f, b)
  <2>1. Closed(g, Closure(f, b)) /\ g[b] \subseteq Closure(f, b)
    BY ClosureIs DEF Closed
  <2> QED
    BY <2>1, ClosureIs
<1>2. Closure(f, b) \subseteq Closure(g, b)
  <2>1. Closed(f, Closure(g, b)) /\ f[b] \subseteq Closure(g, b)
    BY <1>1, ClosureIs DEF Closed
  <2> QED
    BY <2>1, ClosureIs
<1> QED
  BY <1>1, <1>2

\* ... and no asset comes to reach itself when the one that changed does not.
LEMMA StaysAcyclic ==
    ASSUME NEW f \in [Assets -> SUBSET Assets], NEW g \in [Assets -> SUBSET Assets],
           NEW a \in Assets, \A c \in Assets \ {a} : f[c] = g[c],
           a \notin Closure(g, a),
           NEW b \in Assets, b # a => b \notin Closure(f, b)
    PROVE  b \notin Closure(g, b)
<1> SUFFICES ASSUME b # a PROVE b \notin Closure(g, b)
  OBVIOUS
<1>1. CASE b \in Closure(g, a)
  <2> DEFINE S == Closure(f, b) \cap Closure(g, a)
  <2>1. S \in SUBSET Assets /\ b \notin S
    BY ClosureIs
  <2>2. g[b] \subseteq S
    BY <1>1, ClosureIs DEF Closed
  <2>3. Closed(g, S)
    BY ClosureIs DEF Closed
  <2> HIDE DEF S
  <2> QED
    BY <2>1, <2>2, <2>3, ClosureIs
<1>2. CASE b \notin Closure(g, a)
  <2> DEFINE S == Closure(f, b) \cup Closure(g, a)
  <2>1. S \in SUBSET Assets /\ b \notin S
    BY <1>2, ClosureIs
  <2>2. g[b] \subseteq S
    BY ClosureIs
  <2>3. Closed(g, S)
    BY ClosureIs DEF Closed
  <2> HIDE DEF S
  <2> QED
    BY <2>1, <2>2, <2>3, ClosureIs
<1> QED
  BY <1>1, <1>2

\* What is reached backwards reaches the asset it was reached from.
LEMMA Duality ==
    ASSUME NEW f \in [Assets -> SUBSET Assets], NEW g \in [Assets -> SUBSET Assets],
           \A c, d \in Assets : c \in g[d] => d \in f[c],
           NEW a \in Assets, NEW b \in Closure(g, a)
    PROVE  a \in Closure(f, b)
<1> DEFINE S == {c \in Assets : a \in Closure(f, c)}
<1>1. S \in SUBSET Assets
  OBVIOUS
<1>2. g[a] \subseteq S
  BY ClosureIs
<1>3. Closed(g, S)
  <2> SUFFICES ASSUME NEW c \in Assets, a \in Closure(f, c), NEW d \in g[c]
               PROVE  d \in Assets /\ a \in Closure(f, d)
    BY DEF Closed
  <2>1. d \in Assets /\ c \in f[d]
    OBVIOUS
  <2>2. f[c] \subseteq Closure(f, d)
    BY <2>1, ClosureIs DEF Closed
  <2>3. Closure(f, c) \subseteq Closure(f, d)
    BY <2>1, <2>2, ClosureIs
  <2> QED
    BY <2>1, <2>3
<1> HIDE DEF S
<1>4. b \in S
  BY <1>1, <1>2, <1>3, ClosureIs
<1> QED
  BY <1>4 DEF S

-----------------------------------------------------------------------------
(* The records and the reverse index                                       *)

Direct(r) == [b \in Assets |-> DirectDependencies(r[b])]
Buckets == [b \in Assets |-> Bucket(b)]

\* The registry as the code keeps it.
Kept ==
    /\ records \in [Assets -> Records \cup {NoRecord}]
    /\ reverse \in [Assets -> (SUBSET Assets) \cup {NoRecord}]

LEMMA DirectIs ==
    ASSUME NEW r \in [Assets -> Records \cup {NoRecord}]
    PROVE  /\ Direct(r) \in [Assets -> SUBSET Assets]
           /\ \A b \in Assets : Direct(r)[b] = DirectDependencies(r[b])
           /\ \A b \in Assets : r[b] # NoRecord =>
                  /\ DirectDependencies(r[b]) = DOMAIN r[b].content.uses
                  /\ r[b].generation \in 1..LastGeneration
           /\ \A b \in Assets : r[b] = NoRecord => DirectDependencies(r[b]) = {}
<1>1. ASSUME NEW b \in Assets, r[b] # NoRecord
      PROVE  DOMAIN r[b].content.uses \in SUBSET Assets /\ r[b].generation \in 1..LastGeneration
  BY <1>1 DEF Records, Contents, Uses
<1> QED
  BY <1>1 DEF Direct, DirectDependencies

LEMMA RecordsAre ==
    ASSUME Kept
    PROVE  /\ Direct(records) \in [Assets -> SUBSET Assets]
           /\ \A b \in Assets : Direct(records)[b] = DirectDependencies(records[b])
           /\ \A b \in Assets : records[b] # NoRecord =>
                  DirectDependencies(records[b]) = DOMAIN records[b].content.uses
           /\ \A b \in Assets : records[b] = NoRecord => DirectDependencies(records[b]) = {}
<1>1. records \in [Assets -> Records \cup {NoRecord}]
  BY DEF Kept
<1> QED
  BY <1>1, DirectIs, Zenon

LEMMA BucketIs ==
    ASSUME Kept, RegistrySound, NEW d \in Assets
    PROVE  /\ Bucket(d) = {b \in Assets : d \in Direct(records)[b]}
           /\ records[d] = NoRecord => Bucket(d) = {}
           /\ reverse[d] # NoRecord => reverse[d] = Bucket(d)
           /\ reverse[d] = NoRecord <=> records[d] = NoRecord
<1>1. \A b \in Assets : Direct(records)[b] = DirectDependencies(records[b])
  BY RecordsAre
<1>2. ASSUME NEW b \in Assets, d \in Direct(records)[b] PROVE records[d] # NoRecord
  <2>1. records[b] # NoRecord /\ d \in DOMAIN records[b].content.uses
    BY <1>2, RecordsAre
  <2> QED
    BY <2>1 DEF RegistrySound, UsesValid
<1>3. CASE records[d] = NoRecord
  <2>1. reverse[d] = NoRecord
    BY <1>3 DEF RegistrySound
  <2>2. Bucket(d) = {} /\ {b \in Assets : d \in Direct(records)[b]} = {}
    BY <1>2, <1>3, <2>1 DEF Bucket
  <2> QED
    BY <1>3, <2>1, <2>2
<1>4. CASE records[d] # NoRecord
  <2>1. reverse[d] = {b \in Assets : d \in DirectDependencies(records[b])}
    BY <1>4 DEF RegistrySound
  <2>2. reverse[d] # NoRecord
    BY <2>1, GraphAssetsAssumption
  <2>3. Bucket(d) = reverse[d]
    BY <2>2 DEF Bucket
  <2> QED
    BY <1>1, <1>4, <2>1, <2>2, <2>3
<1> QED
  BY <1>3, <1>4

LEMMA AcyclicIs ==
    ASSUME Kept, RegistrySound, NEW b \in Assets
    PROVE  b \notin Closure(Direct(records), b)
<1>1. CASE records[b] = NoRecord
  <2>1. Direct(records) \in [Assets -> SUBSET Assets] /\ Direct(records)[b] = {}
    BY <1>1, RecordsAre
  <2>2. Closed(Direct(records), {}) /\ {} \in SUBSET Assets
    BY DEF Closed
  <2> HIDE DEF Direct
  <2> QED
    BY <2>1, <2>2, ClosureIs
<1>2. CASE records[b] # NoRecord
  BY <1>2 DEF RegistrySound, DependencyClosure, Direct
<1> QED
  BY <1>1, <1>2

\* The parts of RegistrySound, for other records and another index.
LEMMA SoundIf ==
    ASSUME NEW r, NEW v,
           records' = r, reverse' = v,
           NEW g, g = Direct(r),
           \A b \in Assets : r[b] # NoRecord => UsesValid(r, r[b]),
           \A b \in Assets : b \notin Closure(g, b),
           \A d \in Assets : IF r[d] = NoRecord THEN v[d] = NoRecord
                             ELSE v[d] = {b \in Assets : d \in g[b]}
    PROVE  RegistrySound'
<1>1. \A b \in Assets : g[b] = DirectDependencies(r[b])
  BY DEF Direct
<1>2. \A b \in Assets : DependencyClosure(r, b) = Closure(g, b)
  BY DEF DependencyClosure, Direct
<1>3. ASSUME NEW b \in Assets, r[b] # NoRecord
      PROVE  /\ UsesValid(r, r[b]) /\ b \notin DependencyClosure(r, b)
             /\ v[b] = {c \in Assets : b \in DirectDependencies(r[c])}
  BY <1>1, <1>2, <1>3
<1>4. \A b \in Assets :
          IF r[b] = NoRecord THEN v[b] = NoRecord
          ELSE /\ UsesValid(r, r[b]) /\ b \notin DependencyClosure(r, b)
               /\ v[b] = {c \in Assets : b \in DirectDependencies(r[c])}
  BY <1>3
<1> QED
  BY <1>4 DEF RegistrySound, UsesValid, DependencyClosure, Closure, DirectDependencies

LEMMA UnregisterSound ==
    ASSUME Kept, RegistrySound, NEW a \in Assets, Unregister(a)
    PROVE  Kept' /\ RegistrySound'
<1> DEFINE r == [records EXCEPT ![a] = NoRecord]
           f == Direct(records)
           g == Direct(r)
           v == [Reversed(a, DirectDependencies(records[a]), {}) EXCEPT ![a] = NoRecord]
<1>1. /\ records' = r /\ reverse' = v /\ records[a] # NoRecord /\ Bucket(a) = {}
  BY DEF Unregister, Publish
<1>2. /\ r \in [Assets -> Records \cup {NoRecord}]
      /\ r[a] = NoRecord /\ \A b \in Assets \ {a} : r[b] = records[b]
  BY DEF Kept
<1>3. /\ f \in [Assets -> SUBSET Assets] /\ g \in [Assets -> SUBSET Assets]
      /\ g[a] = {} /\ \A b \in Assets \ {a} : f[b] = g[b]
  BY <1>2, DirectIs DEF Kept
<1>4. \A b \in Assets : a \notin f[b]
  BY <1>1, BucketIs
<1>5. v = [d \in Assets |->
              IF d = a THEN NoRecord
              ELSE IF d \in f[a] THEN Bucket(d) \ {a} ELSE reverse[d]]
  BY <1>4 DEF Reversed, Direct
<1> HIDE DEF r, f, g, v
<1>6. \A b \in Assets : r[b] # NoRecord => UsesValid(r, r[b])
  <2> SUFFICES ASSUME NEW b \in Assets, r[b] # NoRecord, NEW d \in DOMAIN r[b].content.uses
               PROVE  r[d] # NoRecord /\ r[d].content.interface = r[b].content.uses[d]
    BY DEF UsesValid
  <2>1. b # a /\ r[b] = records[b]
    BY <1>2
  <2>2. records[d] # NoRecord /\ records[d].content.interface = records[b].content.uses[d]
    BY <2>1 DEF RegistrySound, UsesValid
  <2>3. d \in f[b] /\ d \in Assets
    BY <1>3, <2>1, RecordsAre DEF f
  <2> QED
    BY <1>2, <1>4, <2>1, <2>2, <2>3
<1>7. \A b \in Assets : b \notin Closure(g, b)
  <2>1. a \notin Closure(g, a)
    <3>1. Closed(g, {}) /\ {} \in SUBSET Assets
      BY DEF Closed
    <3> QED
      BY <1>3, <3>1, ClosureIs
  <2>2. \A b \in Assets : b \notin Closure(f, b)
    BY AcyclicIs DEF f
  <2> QED
    BY <1>3, <2>1, <2>2, StaysAcyclic
<1>8. \A d \in Assets : IF r[d] = NoRecord THEN v[d] = NoRecord
                        ELSE v[d] = {b \in Assets : d \in g[b]}
  <2> SUFFICES ASSUME NEW d \in Assets
               PROVE  IF r[d] = NoRecord THEN v[d] = NoRecord
                      ELSE v[d] = {b \in Assets : d \in g[b]}
    OBVIOUS
  <2>1. CASE d = a
    BY <1>2, <1>5, <2>1
  <2>2. CASE d # a
    <3>1. /\ Bucket(d) = {b \in Assets : d \in f[b]}
          /\ reverse[d] # NoRecord => reverse[d] = Bucket(d)
          /\ reverse[d] = NoRecord <=> records[d] = NoRecord
          /\ records[d] = NoRecord => Bucket(d) = {}
      BY BucketIs DEF f
    <3>2. CASE d \in f[a]
      <4>1. records[d] # NoRecord /\ v[d] = Bucket(d) \ {a}
        BY <1>5, <2>2, <3>1, <3>2
      <4> QED
        BY <1>2, <1>3, <2>2, <3>1, <4>1
    <3>3. CASE d \notin f[a]
      <4>1. v[d] = reverse[d] /\ {b \in Assets : d \in g[b]} = {b \in Assets : d \in f[b]}
        BY <1>3, <1>5, <2>2, <3>3
      <4> QED
        BY <1>2, <2>2, <3>1, <4>1
    <3> QED
      BY <3>2, <3>3
  <2> QED
    BY <2>1, <2>2
<1>9. Kept'
  <2>1. \A d \in Assets : Bucket(d) \in SUBSET Assets
    BY DEF Bucket, Kept
  <2>2. v \in [Assets -> (SUBSET Assets) \cup {NoRecord}]
    BY <1>5, <2>1 DEF Kept
  <2> QED
    BY <1>1, <1>2, <2>2 DEF Kept
<1> QED
  BY <1>1, <1>6, <1>7, <1>8, <1>9, SoundIf DEF g

LEMMA PreparedIs ==
    ASSUME Kept, NEW a \in Assets, NEW content \in Contents, Prepared(a, content) # NoRecord
    PROVE  /\ Prepared(a, content) \in Records
           /\ Prepared(a, content).content = content
           /\ Prepared(a, content).generation \in Nat
<1>1. records[a] # NoRecord => records[a].generation \in 1..LastGeneration
  BY DEF Kept, Records
<1>2. Prepared(a, content).content = content
      /\ Prepared(a, content).generation \in 1..LastGeneration
      /\ Prepared(a, content) = [content |-> Prepared(a, content).content,
                                 generation |-> Prepared(a, content).generation]
  BY <1>1, GraphAssetsAssumption DEF Prepared
<1> QED
  BY <1>2 DEF Records

\* The dependents in the set of direct ones are among all.
LEMMA DependentsAre ==
    ASSUME Kept, NEW a \in Assets
    PROVE  /\ Buckets \in [Assets -> SUBSET Assets]
           /\ DependentClosure(a) = Closure(Buckets, a)
           /\ Bucket(a) \subseteq DependentClosure(a)
           /\ DependentClosure(a) \in SUBSET Assets
<1>1. Buckets \in [Assets -> SUBSET Assets] /\ Buckets[a] = Bucket(a)
  BY DEF Buckets, Bucket, Kept
<1>2. DependentClosure(a) = Closure(Buckets, a)
  BY DEF DependentClosure, Buckets
<1> HIDE DEF Buckets
<1> QED
  BY <1>1, <1>2, ClosureIs

LEMMA WriteSound ==
    ASSUME Kept, RegistrySound, NEW a \in Assets, NEW content \in Contents, Write(a, content)
    PROVE  Kept' /\ RegistrySound'
<1> DEFINE record == Prepared(a, content)
           r == [records EXCEPT ![a] = record]
           f == Direct(records)
           g == Direct(r)
           delta == Reversed(a, DirectDependencies(records[a]), DOMAIN content.uses)
           v == [delta EXCEPT ![a] = IF @ = NoRecord THEN {} ELSE @]
<1>1. /\ records' = r /\ reverse' = v
      /\ record # NoRecord
      /\ UsesValid(r, record)
      /\ a \notin DependencyClosure(r, a)
      /\ \A d \in DependentClosure(a) : UsesValid(r, r[d])
  BY DEF Write, Publish, ValidateCandidate
<1>2. record \in Records /\ record.content = content
  BY <1>1, PreparedIs
<1> HIDE DEF record
<1>3. /\ r \in [Assets -> Records \cup {NoRecord}]
      /\ r[a] = record /\ \A b \in Assets \ {a} : r[b] = records[b]
  BY <1>2 DEF Kept
<1>4. /\ f \in [Assets -> SUBSET Assets] /\ g \in [Assets -> SUBSET Assets]
      /\ \A b \in Assets \ {a} : f[b] = g[b]
      /\ g[a] = DOMAIN content.uses
      /\ f[a] = DirectDependencies(records[a])
  <2>1. f \in [Assets -> SUBSET Assets] /\ \A b \in Assets : f[b] = DirectDependencies(records[b])
    BY RecordsAre
  <2>2. g \in [Assets -> SUBSET Assets] /\ \A b \in Assets : g[b] = DirectDependencies(r[b])
    BY <1>3, DirectIs
  <2>3. DirectDependencies(record) = DOMAIN content.uses
    BY <1>1, <1>2 DEF DirectDependencies
  <2> QED
    BY <1>3, <2>1, <2>2, <2>3
<1>5. a \notin Closure(g, a)
  BY <1>1 DEF DependencyClosure, Direct
<1>6. \A b \in Assets : b \notin Closure(f, b)
  BY AcyclicIs
<1>7. a \notin f[a] /\ a \notin g[a]
  BY <1>4, <1>5, <1>6, ClosureIs
<1>8. v = [d \in Assets |->
              IF d = a THEN IF reverse[a] = NoRecord THEN {} ELSE reverse[a]
              ELSE IF d \in f[a] \ g[a] THEN Bucket(d) \ {a}
              ELSE IF d \in g[a] \ f[a] THEN Bucket(d) \cup {a}
              ELSE reverse[d]]
  BY <1>4, <1>7 DEF Reversed
<1> HIDE DEF r, f, g, v
<1>9. \A b \in Assets : r[b] # NoRecord => UsesValid(r, r[b])
  <2> SUFFICES ASSUME NEW b \in Assets, r[b] # NoRecord, b # a,
                      b \notin Bucket(a), NEW d \in DOMAIN r[b].content.uses
               PROVE  r[d] # NoRecord /\ r[d].content.interface = r[b].content.uses[d]
    BY <1>1, <1>3, DependentsAre DEF UsesValid
  <2>1. r[b] = records[b]
    BY <1>3
  <2>2. records[d] # NoRecord /\ records[d].content.interface = records[b].content.uses[d]
    BY <2>1 DEF RegistrySound, UsesValid
  <2>3. d \in f[b] /\ d \in Assets
    BY <1>4, <2>1, RecordsAre DEF f
  <2>4. d # a
    BY <2>3, BucketIs DEF f
  <2> QED
    BY <1>3, <2>1, <2>2, <2>3, <2>4
<1>10. \A b \in Assets : b \notin Closure(g, b)
  BY <1>4, <1>5, <1>6, StaysAcyclic
<1>11. \A d \in Assets : IF r[d] = NoRecord THEN v[d] = NoRecord
                         ELSE v[d] = {b \in Assets : d \in g[b]}
  <2> SUFFICES ASSUME NEW d \in Assets
               PROVE  IF r[d] = NoRecord THEN v[d] = NoRecord
                      ELSE v[d] = {b \in Assets : d \in g[b]}
    OBVIOUS
  <2>1. /\ Bucket(d) = {b \in Assets : d \in f[b]}
        /\ reverse[d] # NoRecord => reverse[d] = Bucket(d)
        /\ reverse[d] = NoRecord <=> records[d] = NoRecord
        /\ records[d] = NoRecord => Bucket(d) = {}
    BY BucketIs DEF f
  <2>2. CASE d = a
    <3>1. v[d] = Bucket(d)
      BY <1>8, <2>1, <2>2
    <3>2. {b \in Assets : d \in g[b]} = {b \in Assets : d \in f[b]}
      BY <1>4, <1>7, <2>2
    <3> QED
      BY <1>1, <1>3, <2>1, <2>2, <3>1, <3>2
  <2>3. CASE d # a
    <3>1. d \in f[a] => records[d] # NoRecord
      BY <2>1
    <3>2. d \in g[a] => records[d] # NoRecord
      <4>1. d \in DOMAIN record.content.uses => r[d] # NoRecord
        BY <1>1 DEF UsesValid
      <4> QED
        BY <1>2, <1>3, <1>4, <2>3, <4>1
    <3>3. CASE d \in f[a] \ g[a]
      <4>1. v[d] = Bucket(d) \ {a}
        BY <1>8, <2>3, <3>3
      <4>2. Bucket(d) \ {a} = {b \in Assets : d \in g[b]}
        BY <1>4, <2>1, <3>3
      <4> QED
        BY <1>3, <2>3, <3>1, <3>3, <4>1, <4>2
    <3>4. CASE d \in g[a] \ f[a]
      <4>1. v[d] = Bucket(d) \cup {a}
        BY <1>8, <2>3, <3>4
      <4>2. Bucket(d) \cup {a} = {b \in Assets : d \in g[b]}
        BY <1>4, <2>1, <3>4
      <4> QED
        BY <1>3, <2>3, <3>2, <3>4, <4>1, <4>2
    <3>5. CASE d \in f[a] <=> d \in g[a]
      <4>1. v[d] = reverse[d]
        BY <1>8, <2>3, <3>5
      <4>2. {b \in Assets : d \in g[b]} = {b \in Assets : d \in f[b]}
        BY <1>4, <3>5
      <4> QED
        BY <1>3, <2>1, <2>3, <4>1, <4>2
    <3> QED
      BY <3>3, <3>4, <3>5
  <2> QED
    BY <2>2, <2>3
<1>12. Kept'
  <2>1. \A d \in Assets : Bucket(d) \in SUBSET Assets
    BY DEF Bucket, Kept
  <2>2. v \in [Assets -> (SUBSET Assets) \cup {NoRecord}]
    BY <1>8, <2>1 DEF Kept
  <2> QED
    BY <1>1, <1>3, <2>2 DEF Kept
<1> QED
  BY <1>1, <1>9, <1>10, <1>11, <1>12, SoundIf DEF g

\* What RegistrySound says depends on the records and the index alone.
LEMMA SoundUnchanged ==
    ASSUME Kept, RegistrySound, UNCHANGED <<records, reverse>>
    PROVE  Kept' /\ RegistrySound'
BY DEF Kept, RegistrySound, UsesValid, DependencyClosure, Closure, DirectDependencies

\* The registry is sound, whatever is written, removed or called back: every
\* dependency is registered with the interface its users expect, none is cyclic
\* and the reverse index, kept by differences, is their inverse
\* (ValidateRegistryState).
THEOREM RegistryStaysSound == AssetsSpec => []RegistrySound
<1>1. AssetsInit => Kept /\ RegistrySound
  BY DEF AssetsInit, Kept, RegistrySound
<1>2. Kept /\ RegistrySound /\ [AssetsNext]_assets_vars => Kept' /\ RegistrySound'
  <2> SUFFICES ASSUME Kept, RegistrySound, [AssetsNext]_assets_vars
               PROVE  Kept' /\ RegistrySound'
    OBVIOUS
  <2>1. ASSUME NEW a \in Assets, Unregister(a) PROVE Kept' /\ RegistrySound'
    BY <2>1, UnregisterSound
  <2>2. ASSUME NEW a \in Assets, NEW content \in Contents, Write(a, content)
        PROVE  Kept' /\ RegistrySound'
    BY <2>2, WriteSound
  <2>3. ASSUME NEW s \in Subscribers, Subscribe(s) \/ Reset(s)
        PROVE  Kept' /\ RegistrySound'
    <3>1. UNCHANGED <<records, reverse>>
      BY <2>3 DEF Subscribe, Reset
    <3> QED
      BY <3>1, SoundUnchanged
  <2>4. CASE Callback
    <3>1. UNCHANGED <<records, reverse>>
      BY <2>4 DEF Callback
    <3> QED
      BY <3>1, SoundUnchanged
  <2>5. CASE UNCHANGED assets_vars
    <3>1. UNCHANGED <<records, reverse>>
      BY <2>5 DEF assets_vars
    <3> QED
      BY <3>1, SoundUnchanged
  <2> QED
    BY <2>1, <2>2, <2>3, <2>4, <2>5 DEF AssetsNext
<1> QED
  BY <1>1, <1>2, PTL DEF AssetsSpec

-----------------------------------------------------------------------------
(* Who learns of a change                                                  *)

\* An asset that depends on the one that changes is registered, and is another.
LEMMA DependentsUse ==
    ASSUME Kept, RegistrySound, NEW a \in Assets, NEW b \in Assets
    PROVE  /\ b \in DependentClosure(a) => b # a /\ records[b] # NoRecord
           /\ a \in Closure(Direct(records), b) => b \in DependentClosure(a)
<1>1. /\ Direct(records) \in [Assets -> SUBSET Assets] /\ Buckets \in [Assets -> SUBSET Assets]
      /\ DependentClosure(a) = Closure(Buckets, a)
  BY RecordsAre, DependentsAre
<1>2. \A c, d \in Assets : c \in Buckets[d] <=> d \in Direct(records)[c]
  BY BucketIs DEF Buckets
<1>3. ASSUME b \in DependentClosure(a) PROVE b # a /\ records[b] # NoRecord
  <2>1. a \in Closure(Direct(records), b)
    BY <1>1, <1>2, <1>3, Duality
  <2>2. b # a
    BY <2>1, AcyclicIs
  <2>3. Direct(records)[b] # {}
    <3> SUFFICES ASSUME Direct(records)[b] = {} PROVE FALSE
      OBVIOUS
    <3>1. Closed(Direct(records), {}) /\ {} \in SUBSET Assets
      BY DEF Closed
    <3> HIDE DEF Direct
    <3> QED
      BY <1>1, <2>1, <3>1, ClosureIs
  <2> QED
    BY <2>2, <2>3, RecordsAre
<1>4. ASSUME a \in Closure(Direct(records), b) PROVE b \in DependentClosure(a)
  BY <1>1, <1>2, <1>4, Duality
<1> QED
  BY <1>3, <1>4

\* What is built of an asset stays the same unless it depends on the one that
\* changes, and then too when only the generation changes.
LEMMA BuiltSame ==
    ASSUME Kept, RegistrySound, NEW a \in Assets, NEW record \in Records \cup {NoRecord},
           NEW b \in Assets,
           \/ b # a /\ b \notin DependentClosure(a)
           \/ records[a] # NoRecord /\ record # NoRecord /\ record.content = records[a].content
    PROVE  Built([records EXCEPT ![a] = record], b) = Built(records, b)
<1> DEFINE r == [records EXCEPT ![a] = record]
           f == Direct(records)
           g == Direct(r)
<1>1. /\ r \in [Assets -> Records \cup {NoRecord}] /\ r[a] = record
      /\ \A c \in Assets \ {a} : r[c] = records[c]
  BY DEF Kept
<1>2. /\ f \in [Assets -> SUBSET Assets] /\ g \in [Assets -> SUBSET Assets]
      /\ \A c \in Assets : f[c] = DirectDependencies(records[c])
      /\ \A c \in Assets : g[c] = DirectDependencies(r[c])
  BY <1>1, DirectIs, RecordsAre
<1>3. DependencyClosure(records, b) = Closure(f, b) /\ DependencyClosure(r, b) = Closure(g, b)
  BY DEF DependencyClosure, Direct
<1>4. Closure(f, b) \subseteq Assets
  BY <1>2, ClosureIs
<1> HIDE DEF r, f, g
<1>5. CASE b # a /\ b \notin DependentClosure(a)
  <2>1. a \notin Closure(f, b)
    BY <1>5, DependentsUse DEF f
  <2>2. \A c \in Assets \ {a} : f[c] = g[c]
    BY <1>1, <1>2
  <2>3. Closure(g, b) = Closure(f, b)
    BY <1>2, <1>5, <2>1, <2>2, SameClosure
  <2>4. [d \in Closure(g, b) \cup {b} |-> r[d].content]
            = [d \in Closure(f, b) \cup {b} |-> records[d].content]
    BY <1>1, <1>4, <1>5, <2>1, <2>3
  <2> QED
    BY <1>1, <1>3, <1>5, <2>4 DEF Built, r
<1>6. CASE records[a] # NoRecord /\ record # NoRecord /\ record.content = records[a].content
  <2>1. /\ \A c \in Assets : r[c] = NoRecord <=> records[c] = NoRecord
        /\ \A c \in Assets : r[c].content = records[c].content
    BY <1>1, <1>6
  <2>2. f = g
    <3>1. \A c \in Assets : DirectDependencies(r[c]) = DirectDependencies(records[c])
      BY <2>1 DEF DirectDependencies
    <3>2. \A c \in Assets : f[c] = g[c]
      BY <1>2, <3>1
    <3> QED
      BY <1>2, <3>2
  <2>3. [d \in Closure(g, b) \cup {b} |-> r[d].content]
            = [d \in Closure(f, b) \cup {b} |-> records[d].content]
    BY <1>4, <2>1, <2>2
  <2> QED
    BY <1>3, <2>1, <2>3 DEF Built, r
<1> QED
  BY <1>5, <1>6

-----------------------------------------------------------------------------
(* The events of a change                                                  *)

Events == [asset : Assets, after : Nat]
Batches == [event : Events, waiting : Seq(Subscribers)]

Listening ==
    /\ subscribed \in Seq(Subscribers)
    /\ calls \in Seq(Batches)
    /\ mirror \in [Subscribers -> [Assets -> Nat]]
    /\ fresh \in [Subscribers -> SUBSET Assets]

\* A callback that the subscriber still gets for the asset.
Owed(s, a) ==
    \E i \in DOMAIN calls :
        calls[i].event.asset = a /\ \E k \in DOMAIN calls[i].waiting : calls[i].waiting[k] = s

Knows(s, a) == mirror[s][a] = Generations[a] /\ a \in fresh[s]

\* No event is overtaken by a change of its asset, and each has a callback to run.
Truthful ==
    \A i \in DOMAIN calls :
        calls[i].event.after = Generations[calls[i].event.asset] /\ calls[i].waiting # <<>>

\* A subscriber that does not know an asset as it is will be told.
Informed ==
    \A s \in Subscribers, a \in Assets : Subscribed(s) => Owed(s, a) \/ Knows(s, a)

LEMMA GenerationsAre ==
    ASSUME NEW r \in [Assets -> Records \cup {NoRecord}], NEW g,
           g = [a \in Assets |-> IF r[a] = NoRecord THEN 0 ELSE r[a].generation]
    PROVE  /\ g \in [Assets -> Nat]
           /\ \A b \in Assets : g[b] = IF r[b] = NoRecord THEN 0 ELSE r[b].generation
<1>1. \A b \in Assets : r[b] # NoRecord => r[b].generation \in 1..LastGeneration
  BY DirectIs
<1>2. \A b \in Assets : (IF r[b] = NoRecord THEN 0 ELSE r[b].generation) \in Nat
  BY <1>1, GraphAssetsAssumption
<1> QED
  BY <1>2

\* A finite set has an order, and every order names just its members.
LEMMA OrderIs ==
    ASSUME NEW S \in SUBSET Assets, NEW order \in Sequences(S)
    PROVE  /\ order \in Seq(S) /\ \A b \in S : \E i \in DOMAIN order : order[i] = b
<1>1. IsFiniteSet(S)
  BY GraphAssetsAssumption, FS_Subset
<1>2. Cardinality(S) \in Nat
  BY <1>1, FS_CardinalityType
<1> QED
  BY <1>2 DEF Sequences

\* The callbacks of a change: each of its events, for every subscriber.
Telling(later, first, rest) ==
    /\ \A i \in DOMAIN later :
           /\ later[i].waiting = subscribed /\ subscribed # <<>>
           /\ \/ later[i].event = first
              \/ \E j \in DOMAIN rest : later[i].event = rest[j]
    /\ subscribed # <<>> =>
           /\ \E i \in DOMAIN later : later[i].event = first
           /\ \A j \in DOMAIN rest : \E i \in DOMAIN later : later[i].event = rest[j]

LEMMA DispatchedIs ==
    ASSUME subscribed \in Seq(Subscribers),
           NEW first \in Events, NEW rest \in Seq(Events),
           NEW events, events = <<first>> \o rest,
           NEW later, later = Dispatched(events)
    PROVE  later \in Seq(Batches) /\ Telling(later, first, rest)
<1>1. events \in Seq(Events) /\ Len(events) = Len(rest) + 1
      /\ events[1] = first /\ \A j \in 1..Len(rest) : events[j + 1] = rest[j]
  OBVIOUS
<1>2. CASE subscribed = <<>>
  BY <1>2 DEF Dispatched, Telling
<1>3. CASE subscribed # <<>>
  <2> DEFINE all == [i \in 1..Len(events) |-> [event |-> events[i], waiting |-> subscribed]]
  <2>1. all \in Seq(Batches) /\ Len(all) = Len(events)
    BY <1>1 DEF Batches
  <2>2. Dispatched(events) = all
    BY <1>1, <1>3 DEF Dispatched
  <2>3. \A i \in 1..Len(events) : all[i].event = events[i] /\ all[i].waiting = subscribed
    OBVIOUS
  <2> HIDE DEF all
  <2>4. later = all
    BY <2>2
  <2> DEFINE n == Len(rest)
  <2>5. n \in Nat /\ DOMAIN rest = 1..n /\ DOMAIN later = 1..n + 1
        /\ DOMAIN later = 1..Len(events)
    BY <1>1, <2>1, <2>4
  <2> HIDE DEF n
  <2>6. \A i \in DOMAIN later : later[i].event = events[i] /\ later[i].waiting = subscribed
    BY <2>3, <2>4, <2>5
  <2>7. ASSUME NEW i \in DOMAIN later
        PROVE  later[i].event = first \/ \E j \in DOMAIN rest : later[i].event = rest[j]
    <3>1. CASE i = 1
      BY <1>1, <2>6, <3>1
    <3>2. CASE i # 1
      <4>1. i - 1 \in 1..n /\ (i - 1) + 1 = i
        BY <2>5, <3>2
      <4>2. events[(i - 1) + 1] = rest[i - 1]
        BY <1>1, <4>1 DEF n
      <4> QED
        BY <2>5, <2>6, <4>1, <4>2
    <3> QED
      BY <3>1, <3>2
  <2>8. \E i \in DOMAIN later : later[i].event = first
    <3>1. 1 \in DOMAIN later
      BY <2>5
    <3> QED
      BY <1>1, <2>6, <3>1
  <2>9. ASSUME NEW j \in DOMAIN rest PROVE \E i \in DOMAIN later : later[i].event = rest[j]
    <3>1. j \in 1..n /\ j + 1 \in DOMAIN later
      BY <2>5
    <3>2. events[j + 1] = rest[j]
      BY <1>1, <3>1 DEF n
    <3> QED
      BY <2>6, <3>1, <3>2
  <2>10. later \in Seq(Batches)
    BY <2>1, <2>4
  <2> QED
    BY <1>3, <2>6, <2>7, <2>8, <2>9, <2>10 DEF Telling
<1> QED
  BY <1>2, <1>3

Told == Listening /\ Truthful /\ Informed

\* The change of an asset is announced to every subscriber, and so is every asset
\* that is built differently after it.
LEMMA PublishInforms ==
    ASSUME Kept, Kept', RegistrySound, Told, calls = <<>>, NEW a \in Assets,
           NEW record \in Records \cup {NoRecord}, NEW dependents,
           dependents \in SUBSET DependentClosure(a),
           Publish(a, [records EXCEPT ![a] = record], dependents),
           \A b \in Assets : b # a /\ b \notin dependents =>
               Built([records EXCEPT ![a] = record], b) = Built(records, b)
    PROVE  Told'
<1> DEFINE r == [records EXCEPT ![a] = record]
           first == [asset |-> a, after |-> IF r[a] = NoRecord THEN 0 ELSE r[a].generation]
<1>1. /\ records' = r
      /\ fresh' = [s \in Subscribers |-> {b \in fresh[s] : Built(r, b) = Built(records, b)}]
      /\ UNCHANGED <<subscribed, mirror>>
  BY DEF Publish
<1>2. PICK order \in Sequences(dependents) :
          calls' = Dispatched(<<first>> \o
                       [i \in DOMAIN order |->
                           [asset |-> order[i], after |-> records[order[i]].generation]]) \o calls
  BY DEF Publish
<1> DEFINE rest == [i \in DOMAIN order |->
                       [asset |-> order[i], after |-> records[order[i]].generation]]
<1>3. dependents \in SUBSET Assets
  BY DependentsAre
<1>4. order \in Seq(dependents) /\ \A b \in dependents : \E i \in DOMAIN order : order[i] = b
  BY <1>3, OrderIs
<1>5. r \in [Assets -> Records \cup {NoRecord}] /\ \A b \in Assets \ {a} : r[b] = records[b]
  BY DEF Kept
<1> HIDE DEF r
<1>6. /\ Generations' \in [Assets -> Nat]
      /\ \A b \in Assets : Generations'[b] = IF r[b] = NoRecord THEN 0 ELSE r[b].generation
  <2>1. Generations' = [b \in Assets |-> IF r[b] = NoRecord THEN 0 ELSE r[b].generation]
    BY <1>1 DEF Generations
  <2> QED
    BY <1>5, <2>1, GenerationsAre, Zenon
<1>7. \A b \in Assets :
          Generations[b] = IF records[b] = NoRecord THEN 0 ELSE records[b].generation
  BY DEF Generations
<1>8. first \in Events /\ first.asset = a /\ first.after = Generations'[a]
  BY <1>6 DEF Events
<1>9. ASSUME NEW b \in dependents
      PROVE  b \in Assets /\ b # a /\ records[b] # NoRecord
             /\ records[b].generation = Generations'[b]
  BY <1>3, <1>5, <1>6, DependentsUse
<1>10. /\ rest \in Seq(Events) /\ DOMAIN rest = DOMAIN order
       /\ \A i \in DOMAIN order : order[i] \in dependents
       /\ \A i \in DOMAIN order :
              rest[i].asset = order[i] /\ rest[i].after = Generations'[order[i]]
  <2>1. \A i \in DOMAIN order : order[i] \in dependents
    BY <1>4
  <2>2. \A i \in DOMAIN order :
            [asset |-> order[i], after |-> records[order[i]].generation] \in Events
    BY <1>6, <1>9, <2>1 DEF Events
  <2>3. Len(order) \in Nat /\ DOMAIN order = 1..Len(order)
    BY <1>4
  <2> QED
    BY <1>9, <2>1, <2>2, <2>3
<1> HIDE DEF first, rest
<1> DEFINE events == <<first>> \o rest
           later == Dispatched(events)
<1>11. calls' = later \o calls
  BY <1>2 DEF first, rest
<1> HIDE DEF events, later
<1>12. calls' \in Seq(Batches) /\ Telling(calls', first, rest)
  <2>1. subscribed \in Seq(Subscribers)
    BY DEF Told, Listening
  <2>2. first \in Events /\ rest \in Seq(Events)
    BY <1>8, <1>10
  <2> QED
    <3>1. events = <<first>> \o rest /\ later = Dispatched(events)
      BY DEF events, later
    <3>2. later \in Seq(Batches)
      BY <2>1, <2>2, <3>1, DispatchedIs, Zenon
    <3>3. calls' = later
      BY <1>11, <3>2
    <3>4. Telling(later, first, rest)
      BY <2>1, <2>2, <3>1, DispatchedIs, Zenon
    <3> QED
      BY <3>2, <3>3, <3>4
<1>13. Listening'
  BY <1>1, <1>12 DEF Told, Listening
<1>14. Truthful'
  BY <1>8, <1>10, <1>12 DEF Telling, Truthful
<1>15. Informed'
  <2> SUFFICES ASSUME NEW s \in Subscribers, NEW b \in Assets, Subscribed(s)'
               PROVE  Owed(s, b)' \/ Knows(s, b)'
    BY DEF Informed
  <2>1. Subscribed(s) /\ subscribed # <<>>
    BY <1>1 DEF Subscribed
  <2>2. CASE b = a \/ b \in dependents
    <3>1. \E i \in DOMAIN calls' : calls'[i].event.asset = b
      <4>1. CASE b = a
        BY <1>8, <1>12, <2>1, <4>1 DEF Telling
      <4>2. CASE b \in dependents
        <5>1. PICK j \in DOMAIN order : order[j] = b
          BY <1>4, <4>2
        <5>2. j \in DOMAIN rest /\ rest[j].asset = b
          BY <1>10, <5>1
        <5>3. PICK i \in DOMAIN calls' : calls'[i].event = rest[j]
          BY <1>12, <2>1, <5>2 DEF Telling
        <5> QED
          BY <5>2, <5>3
      <4> QED
        BY <2>2, <4>1, <4>2
    <3>2. \A i \in DOMAIN calls' : \E k \in DOMAIN calls'[i].waiting : calls'[i].waiting[k] = s
      BY <1>12, <2>1 DEF Telling, Subscribed
    <3> QED
      BY <3>1, <3>2 DEF Owed
  <2>3. CASE b # a /\ b \notin dependents
    <3>1. ~Owed(s, b)
      BY DEF Owed
    <3>2. mirror[s][b] = Generations[b] /\ b \in fresh[s]
      BY <2>1, <3>1 DEF Told, Informed, Knows
    <3>3. Built(r, b) = Built(records, b)
      BY <2>3 DEF r
    <3>4. Generations'[b] = Generations[b]
      BY <1>5, <1>6, <1>7, <2>3
    <3>5. b \in fresh'[s]
      BY <1>1, <3>2, <3>3
    <3> QED
      BY <1>1, <3>2, <3>4, <3>5 DEF Knows
  <2> QED
    BY <2>2, <2>3
<1> QED
  BY <1>13, <1>14, <1>15 DEF Told

LEMMA CallbackInforms ==
    ASSUME Kept, Told, Callback
    PROVE  Told'
<1> DEFINE event == Head(calls).event
           s == Head(Head(calls).waiting)
           others == Tail(Head(calls).waiting)
<1>1. /\ calls # <<>>
      /\ mirror' = [mirror EXCEPT ![s][event.asset] = event.after]
      /\ fresh' = [fresh EXCEPT ![s] = @ \cup {event.asset}]
      /\ calls' = IF others = <<>> THEN Tail(calls)
                  ELSE <<[event |-> event, waiting |-> others]>> \o Tail(calls)
      /\ UNCHANGED <<records, reverse, subscribed>>
  BY DEF Callback
<1>2. /\ calls \in Seq(Batches) /\ Len(calls) \in Nat \ {0}
      /\ DOMAIN calls = 1..Len(calls) /\ Head(calls) = calls[1]
  BY <1>1 DEF Told, Listening
<1>3. calls[1] \in Batches /\ calls[1].waiting # <<>>
      /\ calls[1].event.after = Generations[calls[1].event.asset]
  BY <1>2 DEF Told, Truthful
<1>4. event \in Events /\ event.asset \in Assets /\ event.after \in Nat
      /\ event.after = Generations[event.asset]
  BY <1>2, <1>3 DEF Batches, Events
<1>5. /\ calls[1].waiting \in Seq(Subscribers) /\ Len(calls[1].waiting) \in Nat \ {0}
      /\ s = calls[1].waiting[1] /\ s \in Subscribers
      /\ others \in Seq(Subscribers) /\ Len(others) = Len(calls[1].waiting) - 1
      /\ \A k \in 1..Len(others) : others[k] = calls[1].waiting[k + 1]
  <2>1. calls[1].waiting \in Seq(Subscribers)
    BY <1>3 DEF Batches
  <2> QED
    BY <1>2, <1>3, <2>1
<1> HIDE DEF event, s, others
<1> DEFINE rest == Tail(calls)
           one == [event |-> event, waiting |-> others]
<1>6. /\ rest \in Seq(Batches) /\ Len(rest) = Len(calls) - 1
      /\ \A i \in 1..Len(rest) : rest[i] = calls[i + 1]
  BY <1>2
<1>7. one \in Batches /\ one.event = event /\ one.waiting = others
  BY <1>4, <1>5 DEF Batches
<1>8. /\ <<one>> \o rest \in Seq(Batches) /\ Len(<<one>> \o rest) = Len(calls)
      /\ (<<one>> \o rest)[1] = one
      /\ \A i \in 2..Len(calls) : (<<one>> \o rest)[i] = calls[i]
  BY <1>2, <1>6, <1>7
<1>9. /\ calls' \in Seq(Batches)
      /\ \A j \in DOMAIN calls' : \E i \in DOMAIN calls :
             calls'[j].event = calls[i].event /\ calls'[j].waiting # <<>>
      /\ \A i \in DOMAIN calls : \A k \in DOMAIN calls[i].waiting :
             \/ i = 1 /\ k = 1
             \/ \E j \in DOMAIN calls' :
                    /\ calls'[j].event = calls[i].event
                    /\ \E m \in DOMAIN calls'[j].waiting :
                           calls'[j].waiting[m] = calls[i].waiting[k]
  <2> DEFINE n == Len(calls)
             w == calls[1].waiting
  <2>1. CASE others = <<>>
    <3>1. calls' = rest
      BY <1>1, <2>1
    <3>2. DOMAIN w = {1}
      <4>1. Len(others) = 0
        BY <2>1
      <4>2. w \in Seq(Subscribers) /\ Len(w) = 1
        BY <1>5, <4>1
      <4> QED
        BY <4>2
    <3>3. n \in Nat \ {0} /\ DOMAIN calls = 1..n /\ DOMAIN rest = 1..n - 1
          /\ \A j \in 1..n - 1 : rest[j] = calls[j + 1]
      BY <1>2, <1>6
    <3> HIDE DEF n, rest
    <3>4. ASSUME NEW j \in DOMAIN rest
          PROVE  \E i \in DOMAIN calls : rest[j].event = calls[i].event /\ rest[j].waiting # <<>>
      <4>1. j + 1 \in DOMAIN calls /\ rest[j] = calls[j + 1]
        BY <3>3
      <4> QED
        BY <4>1 DEF Told, Truthful
    <3>5. ASSUME NEW i \in DOMAIN calls, i # 1
          PROVE  i - 1 \in DOMAIN rest /\ rest[i - 1] = calls[i]
      <4>1. i - 1 \in 1..n - 1 /\ (i - 1) + 1 = i
        BY <3>3, <3>5
      <4> QED
        BY <3>3, <4>1
    <3> QED
      BY <1>6, <3>1, <3>2, <3>4, <3>5
  <2>2. CASE others # <<>>
    <3> DEFINE later == <<one>> \o rest
    <3>1. calls' = later
      BY <1>1, <2>2
    <3>2. /\ n \in Nat \ {0} /\ DOMAIN calls = 1..n /\ DOMAIN later = 1..n
          /\ \A j \in 1..n : j # 1 => later[j] = calls[j]
          /\ later[1] = one /\ later \in Seq(Batches)
      BY <1>2, <1>8
    <3> HIDE DEF n, later
    <3>3. ASSUME NEW j \in DOMAIN later
          PROVE  later[j].event = calls[j].event /\ later[j].waiting # <<>>
      <4>1. CASE j = 1
        <5>1. later[1] = one
          BY <3>2
        <5>2. event = calls[1].event
          BY <1>2 DEF event
        <5>3. later[1].event = calls[1].event /\ later[1].waiting # <<>>
          BY <1>7, <2>2, <5>1, <5>2
        <5> QED
          BY <4>1, <5>3
      <4>2. CASE j # 1
        BY <3>2, <4>2 DEF Told, Truthful
      <4> QED
        BY <4>1, <4>2
    <3>4. ASSUME NEW k \in DOMAIN w, k # 1
          PROVE  k - 1 \in DOMAIN others /\ others[k - 1] = w[k]
      <4>1. /\ Len(w) \in Nat /\ DOMAIN w = 1..Len(w)
            /\ Len(others) = Len(w) - 1 /\ DOMAIN others = 1..Len(others)
        BY <1>5
      <4>2. k - 1 \in 1..Len(others) /\ (k - 1) + 1 = k
        BY <3>4, <4>1
      <4>3. others[k - 1] = calls[1].waiting[(k - 1) + 1]
        BY <1>5, <4>2
      <4> QED
        BY <4>1, <4>2, <4>3
    <3>5. ASSUME NEW i \in DOMAIN calls, NEW k \in DOMAIN calls[i].waiting, ~(i = 1 /\ k = 1)
          PROVE  \E m \in DOMAIN later[i].waiting : later[i].waiting[m] = calls[i].waiting[k]
      <4>1. CASE i = 1
        <5>1. k \in DOMAIN w /\ k # 1 /\ later[i] = one
          BY <3>2, <3>5, <4>1
        <5> QED
          BY <1>7, <3>4, <4>1, <5>1
      <4>2. CASE i # 1
        BY <3>2, <4>2
      <4> QED
        BY <4>1, <4>2
    <3> QED
      BY <3>1, <3>2, <3>3, <3>5
  <2> QED
    BY <2>1, <2>2
<1>10. Listening'
  BY <1>1, <1>4, <1>5, <1>9 DEF Told, Listening
<1>11. Generations' = Generations
  BY <1>1 DEF Generations
<1>12. Truthful'
  BY <1>9, <1>11 DEF Told, Truthful
<1>13. Informed'
  <2> SUFFICES ASSUME NEW t \in Subscribers, NEW b \in Assets, Subscribed(t)'
               PROVE  Owed(t, b)' \/ Knows(t, b)'
    BY DEF Informed
  <2>1. Owed(t, b) \/ Knows(t, b)
    BY <1>1 DEF Subscribed, Told, Informed
  <2>2. CASE t = s /\ b = event.asset
    BY <1>1, <1>4, <1>5, <1>11, <2>2 DEF Told, Listening, Knows
  <2>3. CASE ~(t = s /\ b = event.asset)
    <3>1. CASE Owed(t, b)
      <4> PICK i \in DOMAIN calls :
              calls[i].event.asset = b
              /\ \E k \in DOMAIN calls[i].waiting : calls[i].waiting[k] = t
        BY <3>1 DEF Owed
      <4>1. PICK k \in DOMAIN calls[i].waiting :
                calls[i].event.asset = b /\ calls[i].waiting[k] = t
        OBVIOUS
      <4>2. ~(i = 1 /\ k = 1)
        BY <1>2, <1>5, <2>3, <4>1 DEF event
      <4> QED
        BY <1>9, <4>1, <4>2 DEF Owed
    <3>2. CASE Knows(t, b)
      BY <1>1, <1>11, <2>3, <3>2 DEF Told, Listening, Knows
    <3> QED
      BY <2>1, <3>1, <3>2
  <2> QED
    BY <2>2, <2>3
<1> QED
  BY <1>10, <1>12, <1>13 DEF Told

LEMMA NobodyUses ==
    ASSUME Kept, NEW a \in Assets, Bucket(a) = {}
    PROVE  DependentClosure(a) = {}
<1>1. /\ Buckets \in [Assets -> SUBSET Assets] /\ Buckets[a] = {}
      /\ DependentClosure(a) = Closure(Buckets, a)
  BY DependentsAre DEF Buckets
<1>2. Closed(Buckets, {}) /\ {} \in SUBSET Assets
  BY DEF Closed
<1> HIDE DEF Buckets
<1> QED
  BY <1>1, <1>2, ClosureIs

LEMMA UnregisterInforms ==
    ASSUME Kept, RegistrySound, Told, NEW a \in Assets, Unregister(a)
    PROVE  Told'
<1> DEFINE record == NoRecord
           dependents == {}
<1>1. /\ calls = <<>> /\ Bucket(a) = {}
      /\ Publish(a, [records EXCEPT ![a] = record], dependents)
  BY DEF Unregister, MayMutate
<1>2. record \in Records \cup {NoRecord} /\ dependents \in SUBSET DependentClosure(a)
  OBVIOUS
<1> HIDE DEF record, dependents
<1>3. \A b \in Assets : b # a /\ b \notin dependents =>
          Built([records EXCEPT ![a] = record], b) = Built(records, b)
  BY <1>1, <1>2, NobodyUses, BuiltSame
<1>4. Kept'
  BY UnregisterSound
<1> QED
  BY <1>1, <1>2, <1>3, <1>4, PublishInforms

LEMMA WriteInforms ==
    ASSUME Kept, RegistrySound, Told, NEW a \in Assets, NEW content \in Contents,
           Write(a, content)
    PROVE  Told'
<1> DEFINE record == Prepared(a, content)
           dependents == Affected(a, record)
<1>1. /\ calls = <<>> /\ record # NoRecord
      /\ Publish(a, [records EXCEPT ![a] = record], dependents)
  BY DEF Write, MayMutate
<1>2. record \in Records
  BY <1>1, PreparedIs
<1>3. dependents \in SUBSET DependentClosure(a)
  BY DEF Affected
<1>4. ASSUME NEW b \in Assets, b # a, b \notin dependents
      PROVE  Built([records EXCEPT ![a] = record], b) = Built(records, b)
  <2>1. CASE records[a] = NoRecord
    <3>1. Bucket(a) = {}
      BY <2>1, BucketIs
    <3> QED
      BY <1>2, <1>4, <3>1, NobodyUses, BuiltSame
  <2>2. CASE records[a] # NoRecord /\ records[a].content = record.content
    BY <1>1, <1>2, <2>2, BuiltSame
  <2>3. CASE records[a] # NoRecord /\ records[a].content # record.content
    BY <1>2, <1>4, <2>3, BuiltSame DEF Affected
  <2> QED
    BY <2>1, <2>2, <2>3
<1>5. Kept'
  BY WriteSound
<1> HIDE DEF record, dependents
<1> QED
  BY <1>1, <1>2, <1>3, <1>4, <1>5, PublishInforms

LEMMA SubscribeInforms ==
    ASSUME Kept, Told, NEW s \in Subscribers, Subscribe(s)
    PROVE  Told'
<1>1. /\ subscribed' = Append(subscribed, s)
      /\ mirror' = [mirror EXCEPT ![s] = Generations]
      /\ fresh' = [fresh EXCEPT ![s] = Assets]
      /\ UNCHANGED <<records, reverse, calls>>
  BY DEF Subscribe
<1>2. Generations \in [Assets -> Nat]
  BY GenerationsAre DEF Generations, Kept
<1>3. Generations' = Generations
  BY <1>1 DEF Generations
<1>4. Listening'
  BY <1>1, <1>2 DEF Told, Listening
<1>5. Truthful'
  BY <1>1, <1>3 DEF Told, Truthful
<1>6. Informed'
  <2> SUFFICES ASSUME NEW t \in Subscribers, NEW b \in Assets, Subscribed(t)'
               PROVE  Owed(t, b)' \/ Knows(t, b)'
    BY DEF Informed
  <2>1. CASE t = s
    BY <1>1, <1>3, <2>1 DEF Told, Listening, Knows
  <2>2. CASE t # s
    <3>1. Subscribed(t)
      BY <1>1, <2>2 DEF Told, Listening, Subscribed
    <3>2. Owed(t, b) \/ Knows(t, b)
      BY <3>1 DEF Told, Informed
    <3> QED
      BY <1>1, <1>3, <2>2, <3>2 DEF Told, Listening, Owed, Knows
  <2> QED
    BY <2>1, <2>2
<1> QED
  BY <1>4, <1>5, <1>6 DEF Told

LEMMA ResetInforms ==
    ASSUME Told, NEW s \in Subscribers, Reset(s)
    PROVE  Told'
<1>1. PICK i \in DOMAIN subscribed :
          /\ subscribed[i] = s
          /\ subscribed' = [k \in 1..Len(subscribed) - 1 |->
                                subscribed[IF k < i THEN k ELSE k + 1]]
  BY DEF Reset
<1>2. UNCHANGED <<records, reverse, calls, mirror, fresh>>
  BY DEF Reset
<1> DEFINE n == Len(subscribed)
<1>3. n \in Nat /\ DOMAIN subscribed = 1..n /\ \A k \in 1..n : subscribed[k] \in Subscribers
  BY DEF Told, Listening
<1>4. \A k \in 1..n - 1 : (IF k < i THEN k ELSE k + 1) \in DOMAIN subscribed
  BY <1>3
<1>5. n - 1 \in Nat
  BY <1>3
<1> HIDE DEF n
<1>6. subscribed' \in Seq(Subscribers)
  BY <1>1, <1>3, <1>4, <1>5 DEF n
<1>7. Listening'
  BY <1>2, <1>6 DEF Told, Listening
<1>8. Generations' = Generations
  BY <1>2 DEF Generations
<1>9. Truthful'
  BY <1>2, <1>8 DEF Told, Truthful
<1>10. Informed'
  <2> SUFFICES ASSUME NEW t \in Subscribers, NEW b \in Assets, Subscribed(t)'
               PROVE  Owed(t, b)' \/ Knows(t, b)'
    BY DEF Informed
  <2>1. Subscribed(t)
    BY <1>1, <1>4 DEF n, Subscribed
  <2>2. Owed(t, b) \/ Knows(t, b)
    BY <2>1 DEF Told, Informed
  <2> QED
    BY <1>2, <1>8, <2>2 DEF Owed, Knows
<1> QED
  BY <1>7, <1>9, <1>10 DEF Told

\* Whoever takes its events one by one and rebuilds what they name has the registry
\* as it is once the callbacks have run (Publish, SnapshotCallbacks and Dispatch).
THEOREM SubscribersLearn == AssetsSpec => []SubscribersUpToDate
<1> DEFINE I == Kept /\ RegistrySound /\ Told
<1>1. AssetsInit => I
  <2> SUFFICES ASSUME AssetsInit PROVE I
    OBVIOUS
  <2>1. Kept /\ RegistrySound
    BY DEF AssetsInit, Kept, RegistrySound
  <2>2. Listening /\ Truthful /\ Informed
    BY DEF AssetsInit, Listening, Truthful, Informed, Subscribed
  <2> QED
    BY <2>1, <2>2 DEF Told
<1>2. I /\ [AssetsNext]_assets_vars => I'
  <2> SUFFICES ASSUME I, [AssetsNext]_assets_vars PROVE I'
    OBVIOUS
  <2>1. ASSUME NEW a \in Assets, Unregister(a) PROVE I'
    BY <2>1, UnregisterSound, UnregisterInforms
  <2>2. ASSUME NEW a \in Assets, NEW content \in Contents, Write(a, content) PROVE I'
    BY <2>2, WriteSound, WriteInforms
  <2>3. ASSUME NEW s \in Subscribers, Subscribe(s) PROVE I'
    <3>1. UNCHANGED <<records, reverse>>
      BY <2>3 DEF Subscribe
    <3> QED
      BY <2>3, <3>1, SoundUnchanged, SubscribeInforms
  <2>4. ASSUME NEW s \in Subscribers, Reset(s) PROVE I'
    <3>1. UNCHANGED <<records, reverse>>
      BY <2>4 DEF Reset
    <3> QED
      BY <2>4, <3>1, SoundUnchanged, ResetInforms
  <2>5. CASE Callback
    <3>1. UNCHANGED <<records, reverse>>
      BY <2>5 DEF Callback
    <3> QED
      BY <2>5, <3>1, SoundUnchanged, CallbackInforms
  <2>6. CASE UNCHANGED assets_vars
    <3>1. UNCHANGED <<records, reverse>>
      BY <2>6 DEF assets_vars
    <3>2. Told'
      BY <2>6 DEF assets_vars, Told, Listening, Truthful, Informed, Owed, Knows,
                  Subscribed, Generations
    <3> QED
      BY <3>1, <3>2, SoundUnchanged
  <2> QED
    BY <2>1, <2>2, <2>3, <2>4, <2>5, <2>6 DEF AssetsNext
<1>3. I => SubscribersUpToDate
  <2> SUFFICES ASSUME I, calls = <<>>, NEW s \in Subscribers, Subscribed(s)
               PROVE  mirror[s] = Generations /\ fresh[s] = Assets
    BY DEF SubscribersUpToDate
  <2>1. \A a \in Assets : mirror[s][a] = Generations[a] /\ a \in fresh[s]
    BY DEF Told, Informed, Owed, Knows
  <2>2. mirror[s] \in [Assets -> Nat] /\ Generations \in [Assets -> Nat]
    BY GenerationsAre DEF Told, Listening, Generations, Kept
  <2>3. fresh[s] \in SUBSET Assets
    BY DEF Told, Listening
  <2> QED
    BY <2>1, <2>2, <2>3
<1> QED
  BY <1>1, <1>2, <1>3, PTL DEF AssetsSpec

-----------------------------------------------------------------------------
(* The catalog.  A commit folds over the operations of an update, and the  *)
(* proof follows the fold: Staged holds between any two operations on      *)
(* conversions, when a registration may have been displaced from its key   *)
(* by another; as the operation that takes it elsewhere is still to come,  *)
(* none is displaced in the end.                                           *)

\* Induction up to a bound.
LEMMA Induct ==
    ASSUME NEW N \in Nat, NEW T, 0 \in T, \A n \in 0..N : n < N /\ n \in T => n + 1 \in T
    PROVE  \A n \in 0..N : n \in T
<1> DEFINE R == OpToRel(<, Nat)
           Out == {n \in 0..N : n \notin T}
<1>1. IsWellFoundedOn(R, Nat)
  BY NatLessThanWellFounded
<1>2. \A m, n \in Nat : <<n, m>> \in R <=> n < m
  BY DEF OpToRel
<1> HIDE DEF R
<1> SUFFICES ASSUME Out # {} PROVE FALSE
  OBVIOUS
<1>3. PICK m \in Out : \A n \in Out : ~(<<n, m>> \in R)
  <2>1. Out \subseteq Nat
    OBVIOUS
  <2> HIDE DEF Out
  <2> QED
    BY <1>1, <2>1, WFMin
<1>4. m \in Nat /\ m <= N /\ m # 0 /\ m \notin T
  OBVIOUS
<1> DEFINE p == m - 1
<1>5. p \in 0..N /\ p < N /\ p + 1 = m /\ p < m /\ p \in Nat
  BY <1>4
<1>6. p \notin Out
  <2> HIDE DEF Out, p
  <2> QED
    BY <1>2, <1>3, <1>4, <1>5
<1>7. p \in T
  BY <1>5, <1>6
<1> HIDE DEF p
<1> QED
  BY <1>4, <1>5, <1>7

\* The states of the fold, up to the m-th.
NodeRun(w, ops, m, f) ==
    f = [n \in 0..m |-> IF n = 0 THEN w ELSE ApplyNodeOperation(f[n - 1], ops[n])]

\* The recursive function that folds node operations exists: it is a run of them.
LEMMA NodeFold ==
    ASSUME NEW w, NEW ops, Len(ops) \in Nat
    PROVE  \E f : /\ f[0] = w
                  /\ f[Len(ops)] = ApplyNodeOperations(w, ops)
                  /\ \A n \in 1..Len(ops) : f[n] = ApplyNodeOperation(f[n - 1], ops[n])
<1> DEFINE N == Len(ops)
           Good == {m \in 0..N : \E f : NodeRun(w, ops, m, f)}
<1>1. 0 \in Good
  <2> DEFINE f == [n \in 0..0 |-> w]
  <2>1. NodeRun(w, ops, 0, f)
    BY DEF NodeRun
  <2> QED
    BY <2>1
<1>2. ASSUME NEW m \in 0..N, m < N, m \in Good PROVE m + 1 \in Good
  <2>1. PICK h : NodeRun(w, ops, m, h)
    BY <1>2
  <2> DEFINE f == [n \in 0..(m + 1) |->
                     IF n \in 0..m THEN h[n] ELSE ApplyNodeOperation(h[m], ops[m + 1])]
  <2>2. ASSUME NEW n \in 0..(m + 1)
        PROVE  f[n] = IF n = 0 THEN w ELSE ApplyNodeOperation(f[n - 1], ops[n])
    <3>1. CASE n = m + 1
      <4>1. n - 1 = m /\ n # 0 /\ n \notin 0..m /\ m \in 0..m /\ m \in 0..(m + 1)
        BY <3>1
      <4>2. f[m] = h[m] /\ f[n] = ApplyNodeOperation(h[m], ops[m + 1])
        BY <4>1
      <4> QED
        BY <3>1, <4>1, <4>2
    <3>2. CASE n # m + 1
      <4>1. n \in 0..m
        BY <3>2
      <4>2. n # 0 => n - 1 \in 0..m /\ n - 1 \in 0..(m + 1)
        BY <3>2
      <4>3. h[n] = IF n = 0 THEN w ELSE ApplyNodeOperation(h[n - 1], ops[n])
        BY <2>1, <4>1 DEF NodeRun
      <4>4. f[n] = h[n] /\ (n # 0 => f[n - 1] = h[n - 1])
        BY <4>1, <4>2
      <4> HIDE DEF f
      <4> QED
        BY <4>3, <4>4
    <3> QED
      BY <3>1, <3>2
  <2>3. f = [n \in 0..(m + 1) |-> f[n]]
    OBVIOUS
  <2> HIDE DEF f
  <2>4. NodeRun(w, ops, m + 1, f)
    BY <2>2, <2>3 DEF NodeRun
  <2>5. m + 1 \in 0..N
    BY <1>2
  <2> QED
    BY <2>4, <2>5
<1>3. N \in Good
  <2>1. N \in Nat /\ N \in 0..N
    OBVIOUS
  <2>2. \A n \in 0..N : n < N /\ n \in Good => n + 1 \in Good
    BY <1>2
  <2> HIDE DEF Good, N
  <2> QED
    BY <1>1, <2>1, <2>2, Induct
<1> DEFINE run == CHOOSE f : NodeRun(w, ops, N, f)
<1>4. ApplyNodeOperations(w, ops) = run[N]
  BY DEF ApplyNodeOperations, NodeRun
<1>5. NodeRun(w, ops, N, run)
  BY <1>3
<1> HIDE DEF run
<1>6. run[0] = w /\ \A n \in 1..N : run[n] = ApplyNodeOperation(run[n - 1], ops[n])
  BY <1>5 DEF NodeRun
<1> QED
  BY <1>4, <1>6

\* The same of the operations on conversions.
ConversionRun(w, ops, m, f) ==
    f = [n \in 0..m |-> IF n = 0 THEN w ELSE ApplyConversionOperation(f[n - 1], ops, ops[n])]

\* ... and the one that folds operations on conversions.
LEMMA ConversionFold ==
    ASSUME NEW w, NEW ops, Len(ops) \in Nat
    PROVE  \E f : /\ f[0] = w
                  /\ f[Len(ops)] = ApplyConversionOperations(w, ops)
                  /\ \A n \in 1..Len(ops) : f[n] = ApplyConversionOperation(f[n - 1], ops, ops[n])
<1> DEFINE N == Len(ops)
           Good == {m \in 0..N : \E f : ConversionRun(w, ops, m, f)}
<1>1. 0 \in Good
  <2> DEFINE f == [n \in 0..0 |-> w]
  <2>1. ConversionRun(w, ops, 0, f)
    BY DEF ConversionRun
  <2> QED
    BY <2>1
<1>2. ASSUME NEW m \in 0..N, m < N, m \in Good PROVE m + 1 \in Good
  <2>1. PICK h : ConversionRun(w, ops, m, h)
    BY <1>2
  <2> DEFINE f == [n \in 0..(m + 1) |->
                     IF n \in 0..m THEN h[n] ELSE ApplyConversionOperation(h[m], ops, ops[m + 1])]
  <2>2. ASSUME NEW n \in 0..(m + 1)
        PROVE  f[n] = IF n = 0 THEN w ELSE ApplyConversionOperation(f[n - 1], ops, ops[n])
    <3>1. CASE n = m + 1
      <4>1. n - 1 = m /\ n # 0 /\ n \notin 0..m /\ m \in 0..m /\ m \in 0..(m + 1)
        BY <3>1
      <4>2. f[m] = h[m] /\ f[n] = ApplyConversionOperation(h[m], ops, ops[m + 1])
        BY <4>1
      <4> QED
        BY <3>1, <4>1, <4>2
    <3>2. CASE n # m + 1
      <4>1. n \in 0..m
        BY <3>2
      <4>2. n # 0 => n - 1 \in 0..m /\ n - 1 \in 0..(m + 1)
        BY <3>2
      <4>3. h[n] = IF n = 0 THEN w ELSE ApplyConversionOperation(h[n - 1], ops, ops[n])
        BY <2>1, <4>1 DEF ConversionRun
      <4>4. f[n] = h[n] /\ (n # 0 => f[n - 1] = h[n - 1])
        BY <4>1, <4>2
      <4> HIDE DEF f
      <4> QED
        BY <4>3, <4>4
    <3> QED
      BY <3>1, <3>2
  <2>3. f = [n \in 0..(m + 1) |-> f[n]]
    OBVIOUS
  <2> HIDE DEF f
  <2>4. ConversionRun(w, ops, m + 1, f)
    BY <2>2, <2>3 DEF ConversionRun
  <2>5. m + 1 \in 0..N
    BY <1>2
  <2> QED
    BY <2>4, <2>5
<1>3. N \in Good
  <2>1. N \in Nat /\ N \in 0..N
    OBVIOUS
  <2>2. \A n \in 0..N : n < N /\ n \in Good => n + 1 \in Good
    BY <1>2
  <2> HIDE DEF Good, N
  <2> QED
    BY <1>1, <2>1, <2>2, Induct
<1> DEFINE run == CHOOSE f : ConversionRun(w, ops, N, f)
<1>4. ApplyConversionOperations(w, ops) = run[N]
  BY DEF ApplyConversionOperations, ConversionRun
<1>5. ConversionRun(w, ops, N, run)
  BY <1>3
<1> HIDE DEF run
<1>6. run[0] = w /\ \A n \in 1..N : run[n] = ApplyConversionOperation(run[n - 1], ops, ops[n])
  BY <1>5 DEF ConversionRun
<1> QED
  BY <1>4, <1>6

-----------------------------------------------------------------------------
(* The operations on node types                                            *)

\* The catalog and the state of a commit are records with these fields.
Shape(c) ==
    /\ c = [descriptors |-> c.descriptors, conversions |-> c.conversions,
            registrations |-> c.registrations, reverse |-> c.reverse,
            compatibility |-> c.compatibility, node_revision |-> c.node_revision,
            conversion_revision |-> c.conversion_revision,
            next_registration |-> c.next_registration, exhausted |-> c.exhausted,
            generation |-> c.generation]
    /\ c.exhausted \in BOOLEAN
    /\ {c.generation, c.node_revision, c.conversion_revision, c.next_registration} \subseteq Nat
    /\ DOMAIN c.registrations \subseteq Nat

WorkShape(w) ==
    /\ w = [c |-> w.c, types |-> w.types, displaced |-> w.displaced, failed |-> w.failed]
    /\ Shape(w.c)
    /\ w.failed \in BOOLEAN

\* The node operations change descriptors of the types they touch, nothing else.
NodesStaged(b, w) ==
    /\ DOMAIN w.displaced = {}
    /\ w.c = [b EXCEPT !.descriptors = w.c.descriptors]
    /\ \A t : t \notin w.types =>
          /\ t \in DOMAIN w.c.descriptors <=> t \in DOMAIN b.descriptors
          /\ t \in DOMAIN b.descriptors => w.c.descriptors[t] = b.descriptors[t]

\* One of them, refused or not.
LEMMA NodeOperation ==
    ASSUME NEW b, NEW w, NEW op, NEW v, v = ApplyNodeOperation(w, op),
           Shape(b), WorkShape(w), w.failed \/ NodesStaged(b, w)
    PROVE  WorkShape(v) /\ (v.failed \/ NodesStaged(b, v))
<1>1. CASE v = [w EXCEPT !.failed = TRUE]
  BY <1>1 DEF WorkShape
<1>2. CASE v # [w EXCEPT !.failed = TRUE]
  <2>1. PICK d : /\ v = [w EXCEPT !.types = @ \cup {op.type}, !.c = [@ EXCEPT !.descriptors = d]]
                 /\ \A t : t # op.type =>
                      /\ t \in DOMAIN d <=> t \in DOMAIN w.c.descriptors
                      /\ t \in DOMAIN w.c.descriptors => d[t] = w.c.descriptors[t]
    <3> DEFINE touched == [w EXCEPT !.types = @ \cup {op.type}]
    <3>1. \/ v = [touched EXCEPT !.c.descriptors = Erase(@, op.type)]
          \/ v = touched
          \/ v = [touched EXCEPT !.c.descriptors =
                    Assign(@, op.type, [value |-> op.value, stamp |-> Stamp(w.c)])]
      BY <1>2 DEF ApplyNodeOperation
    <3>2. \A d : [touched EXCEPT !.c.descriptors = d]
                  = [w EXCEPT !.types = @ \cup {op.type}, !.c = [@ EXCEPT !.descriptors = d]]
      BY DEF WorkShape
    <3>3. touched = [touched EXCEPT !.c.descriptors = w.c.descriptors]
      BY DEF WorkShape, Shape
    <3>4. touched.c.descriptors = w.c.descriptors
      BY DEF WorkShape
    <3> HIDE DEF touched
    <3>5. CASE v = [touched EXCEPT !.c.descriptors = Erase(@, op.type)]
      <4> DEFINE d == Erase(w.c.descriptors, op.type)
      <4>1. v = [touched EXCEPT !.c.descriptors = d]
        BY <3>4, <3>5
      <4>2. \A t : t # op.type =>
                      /\ t \in DOMAIN d <=> t \in DOMAIN w.c.descriptors
                      /\ t \in DOMAIN w.c.descriptors => d[t] = w.c.descriptors[t]
        BY DEF Erase
      <4> HIDE DEF d
      <4> QED
        BY <3>2, <4>1, <4>2
    <3>6. CASE v = touched
      BY <3>2, <3>3, <3>6
    <3>7. CASE v = [touched EXCEPT !.c.descriptors =
                    Assign(@, op.type, [value |-> op.value, stamp |-> Stamp(w.c)])]
      <4> DEFINE e == [value |-> op.value, stamp |-> Stamp(w.c)]
                 d == Assign(w.c.descriptors, op.type, e)
      <4>1. v = [touched EXCEPT !.c.descriptors = d]
        BY <3>4, <3>7
      <4> HIDE DEF e
      <4>2. \A t : t # op.type =>
                      /\ t \in DOMAIN d <=> t \in DOMAIN w.c.descriptors
                      /\ t \in DOMAIN w.c.descriptors => d[t] = w.c.descriptors[t]
        BY DEF Assign
      <4> HIDE DEF d
      <4> QED
        BY <3>2, <4>1, <4>2
    <3> QED
      BY <3>1, <3>5, <3>6, <3>7
  <2>2. /\ v.c = [w.c EXCEPT !.descriptors = d] /\ v.types = w.types \cup {op.type}
        /\ v.displaced = w.displaced /\ v.failed = w.failed
        /\ v = [c |-> v.c, types |-> v.types, displaced |-> v.displaced, failed |-> v.failed]
    BY <2>1 DEF WorkShape
  <2>3. Shape(v.c) /\ v.c.descriptors = d
    BY <2>2 DEF WorkShape, Shape
  <2>4. WorkShape(v)
    BY <2>2, <2>3 DEF WorkShape
  <2>5. NodesStaged(b, w) => NodesStaged(b, v)
    <3> SUFFICES ASSUME NodesStaged(b, w) PROVE NodesStaged(b, v)
      OBVIOUS
    <3>1. v.c = [b EXCEPT !.descriptors = v.c.descriptors]
      BY <2>2, <2>3 DEF NodesStaged, Shape
    <3>2. \A t : t \notin v.types =>
          /\ t \in DOMAIN v.c.descriptors <=> t \in DOMAIN b.descriptors
          /\ t \in DOMAIN b.descriptors => v.c.descriptors[t] = b.descriptors[t]
      BY <2>1, <2>2, <2>3 DEF NodesStaged
    <3> QED
      BY <2>2, <3>1, <3>2 DEF NodesStaged
  <2> QED
    BY <2>2, <2>4, <2>5
<1> QED
  BY <1>1, <1>2

\* All of them.
LEMMA NodesDone ==
    ASSUME NEW b, NEW w, NEW ops, Len(ops) \in Nat, Shape(b), WorkShape(w), NodesStaged(b, w)
    PROVE  LET v == ApplyNodeOperations(w, ops)
           IN  WorkShape(v) /\ (v.failed \/ NodesStaged(b, v))
<1>1. PICK f : /\ f[0] = w
               /\ f[Len(ops)] = ApplyNodeOperations(w, ops)
               /\ \A n \in 1..Len(ops) : f[n] = ApplyNodeOperation(f[n - 1], ops[n])
  BY NodeFold
<1> DEFINE Good == {n \in 0..Len(ops) : WorkShape(f[n]) /\ (f[n].failed \/ NodesStaged(b, f[n]))}
<1>2. 0 \in Good
  BY <1>1
<1>3. ASSUME NEW n \in 0..Len(ops), n < Len(ops), n \in Good PROVE n + 1 \in Good
  <2>1. n + 1 \in 1..Len(ops) /\ n + 1 \in 0..Len(ops) /\ (n + 1) - 1 = n
    BY <1>3
  <2>2. f[n + 1] = ApplyNodeOperation(f[n], ops[n + 1])
    BY <1>1, <2>1
  <2>3. WorkShape(f[n]) /\ (f[n].failed \/ NodesStaged(b, f[n]))
    BY <1>3
  <2>4. WorkShape(f[n + 1]) /\ (f[n + 1].failed \/ NodesStaged(b, f[n + 1]))
    BY <2>2, <2>3, NodeOperation
  <2> QED
    BY <2>1, <2>4
<1>4. Len(ops) \in Good
  <2>1. \A n \in 0..Len(ops) : n < Len(ops) /\ n \in Good => n + 1 \in Good
    BY <1>3
  <2>2. Len(ops) \in 0..Len(ops)
    OBVIOUS
  <2> HIDE DEF Good
  <2> QED
    BY <1>2, <2>1, <2>2, Induct
<1> QED
  BY <1>1, <1>4

-----------------------------------------------------------------------------
(* What an operation on a conversion does                                  *)

\* What every conversion operation leaves alone.
Untouched(w, v) ==
    /\ v.types = w.types
    /\ v.c.descriptors = w.c.descriptors
    /\ v.c.compatibility = w.c.compatibility
    /\ v.c.generation = w.c.generation
    /\ v.c.node_revision = w.c.node_revision
    /\ v.c.conversion_revision = w.c.conversion_revision

\* ... and all of them but a registration.
IdsKept(w, v) ==
    /\ v.c.next_registration = w.c.next_registration
    /\ v.c.exhausted = w.c.exhausted

\* The state with what such an operation may change.
Rewritten(w, disp, conv, regs, rev, full, next) ==
    [c |-> [descriptors |-> w.c.descriptors, conversions |-> conv,
            registrations |-> regs, reverse |-> rev,
            compatibility |-> w.c.compatibility, node_revision |-> w.c.node_revision,
            conversion_revision |-> w.c.conversion_revision,
            next_registration |-> next, exhausted |-> full,
            generation |-> w.c.generation],
     types |-> w.types, displaced |-> disp, failed |-> w.failed]

\* What a rewritten catalog holds.
LEMMA RewrittenIs ==
    ASSUME NEW w, WorkShape(w), NEW disp, NEW conv, NEW regs, NEW rev,
           NEW full \in BOOLEAN, NEW next \in Nat, DOMAIN regs \subseteq Nat,
           NEW v, v = Rewritten(w, disp, conv, regs, rev, full, next)
    PROVE  /\ WorkShape(v) /\ Untouched(w, v) /\ v.failed = w.failed
           /\ v.displaced = disp /\ v.c.conversions = conv
           /\ v.c.registrations = regs /\ v.c.reverse = rev
           /\ v.c.next_registration = next /\ v.c.exhausted = full
  BY DEF WorkShape, Shape, Untouched, Rewritten

\* A registration that is not refused takes a free key and the next id.
LEMMA RegisterEffect ==
    ASSUME NEW w, NEW op, NEW v, v = RegisterConversion(w, op), WorkShape(w), ~w.failed, ~v.failed
    PROVE  LET id == w.c.next_registration
           IN  /\ op.to.key \notin DOMAIN w.c.conversions
               /\ ~w.c.exhausted
               /\ Buildable(w.c, op.to)
               /\ WorkShape(v) /\ Untouched(w, v)
               /\ v.displaced = w.displaced
               /\ v.c.conversions = Assign(w.c.conversions, op.to.key, BuiltRecipe(w.c, op.to, id))
               /\ v.c.registrations = Assign(w.c.registrations, id, op.to.key)
               /\ v.c.reverse = AddReverse(w.c.reverse, op.to.node, id)
               /\ v.c.exhausted = (id = LastRegistration)
               /\ v.c.next_registration = IF id = LastRegistration THEN id ELSE id + 1
<1>1. op.to.key \notin DOMAIN w.c.conversions /\ ~w.c.exhausted /\ Buildable(w.c, op.to)
  BY DEF RegisterConversion, WorkShape
<1> DEFINE id == w.c.next_registration
           conv == Assign(w.c.conversions, op.to.key, BuiltRecipe(w.c, op.to, id))
           regs == Assign(w.c.registrations, id, op.to.key)
           rev == AddReverse(w.c.reverse, op.to.node, id)
           full == (id = LastRegistration)
           next == IF id = LastRegistration THEN id ELSE id + 1
<1>2. id \in Nat /\ next \in Nat /\ full \in BOOLEAN
  BY DEF WorkShape, Shape
<1>3. DOMAIN regs \subseteq Nat
  BY <1>2 DEF Assign, WorkShape, Shape
<1>4. v = [w EXCEPT !.c.conversions = conv, !.c.registrations = regs, !.c.reverse = rev,
                    !.c.exhausted = full, !.c.next_registration = next]
  BY <1>1 DEF RegisterConversion
<1> HIDE DEF conv, regs, rev, full, next
<1>5. v = Rewritten(w, w.displaced, conv, regs, rev, full, next)
  <2>1. v.types = w.types /\ v.displaced = w.displaced /\ v.failed = w.failed
        /\ v = [c |-> v.c, types |-> v.types, displaced |-> v.displaced, failed |-> v.failed]
    BY <1>4 DEF WorkShape
  <2>2. v.c = [w.c EXCEPT !.conversions = conv, !.registrations = regs, !.reverse = rev,
                          !.exhausted = full, !.next_registration = next]
    BY <1>4 DEF WorkShape
  <2> QED
    BY <2>1, <2>2 DEF WorkShape, Shape, Rewritten
<1>6. /\ WorkShape(v) /\ Untouched(w, v) /\ v.displaced = w.displaced
      /\ v.c.conversions = conv /\ v.c.registrations = regs /\ v.c.reverse = rev
      /\ v.c.next_registration = next /\ v.c.exhausted = full
  BY <1>2, <1>3, <1>5, RewrittenIs
<1> QED
  BY <1>1, <1>6 DEF conv, regs, rev, full, next

\* The end of a registration, whether it holds its key or was displaced.
LEMMA UnregisterEffect ==
    ASSUME NEW w, NEW id, NEW v, v = UnregisterConversion(w, id), WorkShape(w)
    PROVE  /\ WorkShape(v) /\ Untouched(w, v) /\ IdsKept(w, v) /\ v.failed = w.failed
           /\ v.displaced = Erase(w.displaced, id)
           /\ v.c.conversions = EraseHeld(w.c, w.c.registrations[id], id)
           /\ v.c.registrations = Erase(w.c.registrations, id)
           /\ v.c.reverse = RemoveReverse(w.c.reverse, RecipeInCommit(w, id).to.node, id)
<1> DEFINE disp == Erase(w.displaced, id)
           conv == EraseHeld(w.c, w.c.registrations[id], id)
           regs == Erase(w.c.registrations, id)
           rev == RemoveReverse(w.c.reverse, RecipeInCommit(w, id).to.node, id)
<1>1. DOMAIN regs \subseteq Nat
  BY DEF Erase, WorkShape, Shape
<1>2. v = [w EXCEPT !.displaced = disp, !.c.conversions = conv,
                    !.c.registrations = regs, !.c.reverse = rev]
  BY DEF UnregisterConversion
<1> HIDE DEF disp, conv, regs, rev
<1>3. v = Rewritten(w, disp, conv, regs, rev, w.c.exhausted, w.c.next_registration)
  <2>1. v.types = w.types /\ v.displaced = disp /\ v.failed = w.failed
        /\ v = [c |-> v.c, types |-> v.types, displaced |-> v.displaced, failed |-> v.failed]
    BY <1>2 DEF WorkShape
  <2>2. v.c = [w.c EXCEPT !.conversions = conv, !.registrations = regs, !.reverse = rev]
    BY <1>2 DEF WorkShape
  <2> QED
    BY <2>1, <2>2 DEF WorkShape, Shape, Rewritten
<1>4. w.c.exhausted \in BOOLEAN /\ w.c.next_registration \in Nat
  BY DEF WorkShape, Shape
<1>5. /\ WorkShape(v) /\ Untouched(w, v) /\ IdsKept(w, v) /\ v.failed = w.failed
      /\ v.displaced = disp /\ v.c.conversions = conv
      /\ v.c.registrations = regs /\ v.c.reverse = rev
  BY <1>1, <1>3, <1>4, RewrittenIs DEF IdsKept
<1> QED
  BY <1>5 DEF disp, conv, regs, rev

\* A replacement that is not refused changes nothing, or the recipe of a
\* displaced registration, or moves into the place of the recipe at its key.
Stays(w, id, to, v) ==
    /\ id \in DOMAIN w.displaced /\ to.key = w.c.registrations[id]
    /\ v.displaced = Assign(w.displaced, id, BuiltRecipe(w.c, to, id))
    /\ v.c.conversions = w.c.conversions
    /\ v.c.registrations = w.c.registrations

Enters(w, ops, id, to, v) ==
    LET old_key == w.c.registrations[id]
        collides == to.key # old_key /\ to.key \in DOMAIN w.c.conversions
        collision == w.c.conversions[to.key]
    IN  /\ id \in DOMAIN w.displaced => to.key # old_key
        /\ collides => MovesAway(ops, collision.id, to.key)
        /\ v.displaced = Erase(IF collides THEN Assign(w.displaced, collision.id, collision)
                               ELSE w.displaced, id)
        /\ v.c.conversions =
               Assign(IF to.key # old_key THEN EraseHeld(w.c, old_key, id)
                      ELSE w.c.conversions, to.key, BuiltRecipe(w.c, to, id))
        /\ v.c.registrations = Assign(w.c.registrations, id, to.key)

\* What a replacement does that is not refused.
LEMMA ReplaceEffect ==
    ASSUME NEW w, NEW ops, NEW id \in Nat, NEW to, NEW v, v = ReplaceConversion(w, ops, id, to),
           WorkShape(w), ~v.failed
    PROVE  \/ v = w /\ RecipeInCommit(w, id).to = to
           \/ /\ WorkShape(v) /\ Untouched(w, v) /\ IdsKept(w, v)
              /\ Buildable(w.c, to)
              /\ v.c.reverse = MoveReverse(w.c.reverse, RecipeInCommit(w, id).to.node, to.node, id)
              /\ Stays(w, id, to, v) \/ Enters(w, ops, id, to, v)
<1> DEFINE old_key == w.c.registrations[id]
           old == RecipeInCommit(w, id)
           moves == to.key # old_key
           collides == moves /\ to.key \in DOMAIN w.c.conversions
           collision == w.c.conversions[to.key]
           built == BuiltRecipe(w.c, to, id)
           rev == MoveReverse(w.c.reverse, old.to.node, to.node, id)
           stay == Assign(w.displaced, id, built)
           disp == Erase(IF collides THEN Assign(w.displaced, collision.id, collision) ELSE w.displaced, id)
           conv == Assign(IF moves THEN EraseHeld(w.c, old_key, id) ELSE w.c.conversions, to.key, built)
           regs == Assign(w.c.registrations, id, to.key)
           next == [w EXCEPT !.c.reverse = rev]
<1>1. CASE old.to = to
  BY <1>1 DEF ReplaceConversion
<1>2. CASE old.to # to
  <2>1. Buildable(w.c, to) /\ (collides => MovesAway(ops, collision.id, to.key))
    BY <1>2 DEF ReplaceConversion, WorkShape
  <2>2. CASE ~moves /\ id \in DOMAIN w.displaced
    <3>1. v = [next EXCEPT !.displaced = Assign(@, id, built)]
      BY <1>2, <2>1, <2>2 DEF ReplaceConversion
    <3> HIDE DEF rev, built
    <3>2. v = [next EXCEPT !.displaced = stay]
      BY <3>1 DEF WorkShape
    <3> HIDE DEF stay
    <3>3. v = Rewritten(w, stay, w.c.conversions, w.c.registrations, rev,
                        w.c.exhausted, w.c.next_registration)
      <4>1. v.types = w.types /\ v.displaced = stay /\ v.failed = w.failed
            /\ v = [c |-> v.c, types |-> v.types, displaced |-> v.displaced, failed |-> v.failed]
        BY <3>2 DEF WorkShape
      <4>2. v.c = [w.c EXCEPT !.reverse = rev]
        BY <3>2 DEF WorkShape
      <4> QED
        BY <4>1, <4>2 DEF WorkShape, Shape, Rewritten
    <3>4. /\ DOMAIN w.c.registrations \subseteq Nat
          /\ w.c.exhausted \in BOOLEAN /\ w.c.next_registration \in Nat
      BY DEF WorkShape, Shape
    <3>5. /\ WorkShape(v) /\ Untouched(w, v) /\ IdsKept(w, v)
          /\ v.displaced = stay /\ v.c.conversions = w.c.conversions
          /\ v.c.registrations = w.c.registrations /\ v.c.reverse = rev
      BY <3>3, <3>4, RewrittenIs DEF IdsKept
    <3>6. Stays(w, id, to, v)
      BY <2>2, <3>5 DEF Stays, stay, built
    <3> QED
      BY <2>1, <3>5, <3>6 DEF rev
  <2>3. CASE ~(~moves /\ id \in DOMAIN w.displaced)
    <3>1. v = [next EXCEPT
       !.displaced = Erase(IF collides THEN Assign(@, collision.id, collision) ELSE @, id),
       !.c.conversions =
          Assign(IF moves THEN EraseHeld(w.c, old_key, id) ELSE @, to.key, built),
       !.c.registrations = Assign(@, id, to.key)]
      BY <1>2, <2>1, <2>3 DEF ReplaceConversion
    <3>2. next.displaced = w.displaced /\ next.c.conversions = w.c.conversions
          /\ next.c.registrations = w.c.registrations
      BY DEF WorkShape, Shape
    <3>3. v = [next EXCEPT !.displaced = disp, !.c.conversions = conv, !.c.registrations = regs]
      <4> HIDE DEF next, built, collides, moves, collision
      <4> QED
        BY <3>1, <3>2
    <3>4. /\ DOMAIN regs \subseteq Nat
          /\ w.c.exhausted \in BOOLEAN /\ w.c.next_registration \in Nat
      BY DEF Assign, WorkShape, Shape
    <3> HIDE DEF rev, disp, conv, regs
    <3>5. v = Rewritten(w, disp, conv, regs, rev, w.c.exhausted, w.c.next_registration)
      <4>1. v.types = w.types /\ v.displaced = disp /\ v.failed = w.failed
            /\ v = [c |-> v.c, types |-> v.types, displaced |-> v.displaced, failed |-> v.failed]
        BY <3>3 DEF WorkShape
      <4>2. v.c = [w.c EXCEPT !.reverse = rev, !.conversions = conv, !.registrations = regs]
        BY <3>3 DEF WorkShape
      <4> QED
        BY <4>1, <4>2 DEF WorkShape, Shape, Rewritten
    <3>6. /\ WorkShape(v) /\ Untouched(w, v) /\ IdsKept(w, v)
          /\ v.displaced = disp /\ v.c.conversions = conv
          /\ v.c.registrations = regs /\ v.c.reverse = rev
      BY <3>4, <3>5, RewrittenIs DEF IdsKept
    <3>7. Enters(w, ops, id, to, v)
      BY <2>1, <2>3, <3>6 DEF Enters, disp, conv, regs
    <3> QED
      BY <2>1, <3>6, <3>7 DEF rev
  <2> QED
    BY <2>2, <2>3
<1> QED
  BY <1>1, <1>2

-----------------------------------------------------------------------------
(* The reverse index, kept by differences                                  *)

\* Two indexes with the same entries are the same.
LEMMA SameIndex ==
    ASSUME NEW f, f = [t \in DOMAIN f |-> f[t]], NEW node,
           \A t : t \in DOMAIN f <=> \E i \in DOMAIN node : node[i] = t,
           \A t \in DOMAIN f : \A i : i \in f[t] <=> i \in DOMAIN node /\ node[i] = t
    PROVE  f = Index(node)
<1>1. DOMAIN Index(node) = DOMAIN f
  BY DEF Index
<1>2. \A t \in DOMAIN f : Index(node)[t] = f[t]
  BY <1>1 DEF Index
<1> QED
  BY <1>1, <1>2 DEF Index

\* What an index lists.
LEMMA IndexIs ==
    ASSUME NEW node
    PROVE  /\ Index(node) = [t \in DOMAIN Index(node) |-> Index(node)[t]]
           /\ \A t : t \in DOMAIN Index(node) <=> \E i \in DOMAIN node : node[i] = t
           /\ \A t \in DOMAIN Index(node) : \A i :
                  i \in Index(node)[t] <=> i \in DOMAIN node /\ node[i] = t
  BY DEF Index

\* Adding an entry keeps the index the index of what it lists.
LEMMA AddIndex ==
    ASSUME NEW node, NEW id, id \notin DOMAIN node, NEW t
    PROVE  AddReverse(Index(node), t, id) = Index(Assign(node, id, t))
<1> DEFINE f == Index(node)
           old == IF t \in DOMAIN f THEN f[t] ELSE {}
           g == Assign(f, t, old \cup {id})
           more == Assign(node, id, t)
<1>1. \A i : i \in old <=> i \in DOMAIN node /\ node[i] = t
  BY IndexIs
<1>2. \A x : x \in DOMAIN f <=> \E i \in DOMAIN node : node[i] = x
  BY IndexIs
<1>3. \A x \in DOMAIN f : \A i : i \in f[x] <=> i \in DOMAIN node /\ node[i] = x
  BY IndexIs
<1>4. DOMAIN more = DOMAIN node \cup {id} /\ more[id] = t /\ \A i \in DOMAIN node : more[i] = node[i]
  BY DEF Assign
<1>5. /\ DOMAIN g = DOMAIN f \cup {t} /\ g[t] = old \cup {id}
      /\ \A x \in DOMAIN f : x # t => g[x] = f[x]
      /\ g = [x \in DOMAIN g |-> g[x]]
  <2> HIDE DEF f, old
  <2> QED
    BY DEF Assign
<1>6. AddReverse(Index(node), t, id) = g
  BY DEF AddReverse
<1> HIDE DEF f, old, g, more
<1>7. \A x : x \in DOMAIN g <=> \E i \in DOMAIN more : more[i] = x
  BY <1>2, <1>4, <1>5
<1>8. \A x \in DOMAIN g : \A i : i \in g[x] <=> i \in DOMAIN more /\ more[i] = x
  BY <1>1, <1>3, <1>4, <1>5
<1>9. g = Index(more)
  BY <1>5, <1>7, <1>8, SameIndex
<1> QED
  BY <1>6, <1>9 DEF more

\* Removing an entry.
LEMMA RemoveIndex ==
    ASSUME NEW node, NEW id \in DOMAIN node
    PROVE  RemoveReverse(Index(node), node[id], id) = Index(Erase(node, id))
<1> DEFINE f == Index(node)
           t == node[id]
           g == RemoveReverse(f, t, id)
           less == Erase(node, id)
<1>1. t \in DOMAIN f /\ f = [x \in DOMAIN f |-> f[x]]
  BY IndexIs
<1>2. \A x : x \in DOMAIN f <=> \E i \in DOMAIN node : node[i] = x
  BY IndexIs
<1>3. \A x \in DOMAIN f : \A i : i \in f[x] <=> i \in DOMAIN node /\ node[i] = x
  BY IndexIs
<1>4. DOMAIN less = DOMAIN node \ {id} /\ \A i \in DOMAIN node \ {id} : less[i] = node[i]
  BY DEF Erase
<1>5. g = IF f[t] \subseteq {id} THEN Erase(f, t) ELSE Assign(f, t, f[t] \ {id})
  BY <1>1 DEF RemoveReverse
<1>6. t = node[id]
  OBVIOUS
<1> HIDE DEF f, t, g, less
<1>7. CASE f[t] \subseteq {id}
  <2>1. /\ DOMAIN g = DOMAIN f \ {t} /\ \A x \in DOMAIN f \ {t} : g[x] = f[x]
        /\ g = [x \in DOMAIN g |-> g[x]]
    BY <1>5, <1>7 DEF Erase
  <2>2. \A x : x \in DOMAIN g <=> \E i \in DOMAIN less : less[i] = x
    BY <1>1, <1>2, <1>3, <1>4, <1>6, <1>7, <2>1
  <2>3. \A x \in DOMAIN g : \A i : i \in g[x] <=> i \in DOMAIN less /\ less[i] = x
    BY <1>3, <1>4, <1>6, <2>1
  <2> QED
    BY <2>1, <2>2, <2>3, SameIndex DEF f, t, g, less
<1>8. CASE ~(f[t] \subseteq {id})
  <2>1. /\ DOMAIN g = DOMAIN f \cup {t} /\ g[t] = f[t] \ {id}
        /\ \A x \in DOMAIN f : x # t => g[x] = f[x]
        /\ g = [x \in DOMAIN g |-> g[x]]
    BY <1>5, <1>8 DEF Assign
  <2>2. \A x : x \in DOMAIN g <=> \E i \in DOMAIN less : less[i] = x
    BY <1>1, <1>2, <1>3, <1>4, <1>6, <1>8, <2>1
  <2>3. \A x \in DOMAIN g : \A i : i \in g[x] <=> i \in DOMAIN less /\ less[i] = x
    BY <1>1, <1>3, <1>4, <1>6, <2>1
  <2> QED
    BY <2>1, <2>2, <2>3, SameIndex DEF f, t, g, less
<1> QED
  BY <1>7, <1>8

\* Moving an entry.
LEMMA MoveIndex ==
    ASSUME NEW node, NEW id \in DOMAIN node, NEW t
    PROVE  MoveReverse(Index(node), node[id], t, id) = Index(Assign(node, id, t))
<1> DEFINE more == Assign(node, id, t)
           less == Erase(node, id)
<1>1. /\ DOMAIN more = DOMAIN node /\ more[id] = t
      /\ \A i \in DOMAIN node : i # id => more[i] = node[i]
  BY DEF Assign
<1>2. CASE node[id] = t
  <2>1. Index(more) = Index(node)
    <3>1. \A i \in DOMAIN node : more[i] = node[i]
      BY <1>1, <1>2
    <3> HIDE DEF more
    <3> QED
      BY <1>1, <3>1 DEF Index
  <2> QED
    BY <1>2, <2>1 DEF MoveReverse
<1>3. CASE node[id] # t
  <2>1. id \notin DOMAIN less
    BY DEF Erase
  <2>2. AddReverse(Index(less), t, id) = Index(Assign(less, id, t))
    <3> HIDE DEF less
    <3> QED
      BY <2>1, AddIndex
  <2>3. Assign(less, id, t) = more
    BY DEF Assign, Erase
  <2> QED
    BY <1>3, <2>2, <2>3, RemoveIndex DEF MoveReverse
<1> QED
  BY <1>2, <1>3

-----------------------------------------------------------------------------
(* Between two operations on conversions                                   *)

\* A displaced registration leaves its key later in the update, for good.
StillToMove(ops, n, id, key) ==
    \E i \in OperationsOn(ops, id) :
        /\ i > n
        /\ \A j \in OperationsOn(ops, id) : j <= i
        /\ ops[i].kind = "unregister" \/ ops[i].to.key # key

\* A registration whose last operation is done is where that put it.
Settled(ops, n, id, key) ==
    \A i \in OperationsOn(ops, id) :
        i <= n /\ (\A j \in OperationsOn(ops, id) : j <= i) =>
            ops[i].kind # "unregister" /\ ops[i].to.key = key

\* A recipe was built from a descriptor that serves it, still the one in the catalog
\* unless this update touched the node type.
Fits(w, r) ==
    /\ r.to.key \in r.built.serves
    /\ r.to.node \notin w.types =>
          r.to.node \in DOMAIN w.c.descriptors /\ r.built = w.c.descriptors[r.to.node].value

\* The node type of the recipe of each registration.
NodeOf(w) == [id \in DOMAIN w.c.registrations |-> RecipeInCommit(w, id).to.node]

\* The invariant of the fold, after n operations: displaced registrations are known
\* and still to move, registrations have recipes of their key, a recipe under a key is
\* of the registration of that key, and the reverse index lists the node types.
Displaced(ops, n, w) ==
    \A id \in DOMAIN w.displaced :
        /\ id \in DOMAIN w.c.registrations
        /\ ~Holds(w.c, w.c.registrations[id], id)
        /\ StillToMove(ops, n, id, w.c.registrations[id])

Accounted(ops, n, w) ==
    \A id \in DOMAIN w.c.registrations :
        /\ HandedOut(w.c, id)
        /\ HasRecipe(w, id)
        /\ Settled(ops, n, id, w.c.registrations[id])

Recipes(w) ==
    \A id \in DOMAIN w.c.registrations :
        /\ RecipeInCommit(w, id).id = id
        /\ RecipeInCommit(w, id).to.key = w.c.registrations[id]
        /\ Fits(w, RecipeInCommit(w, id))

Owned(w) ==
    \A k \in DOMAIN w.c.conversions :
        /\ w.c.conversions[k].id \in DOMAIN w.c.registrations
        /\ w.c.registrations[w.c.conversions[k].id] = k

Tokens(ops, w) ==
    \A i \in DOMAIN ops : ops[i].kind # "register" =>
        ops[i].id \in Nat /\ HandedOut(w.c, ops[i].id)

Staged(ops, n, w) ==
    /\ Displaced(ops, n, w)
    /\ Accounted(ops, n, w)
    /\ Recipes(w)
    /\ Owned(w)
    /\ w.c.reverse = Index(NodeOf(w))
    /\ Tokens(ops, w)

\* What the operation on one registration leaves of the others.
OthersKept(w, v, id) ==
    /\ DOMAIN v.c.registrations \ {id} = DOMAIN w.c.registrations \ {id}
    /\ \A j \in DOMAIN w.c.registrations : j # id =>
          /\ v.c.registrations[j] = w.c.registrations[j]
          /\ HasRecipe(v, j)
          /\ RecipeInCommit(v, j) = RecipeInCommit(w, j)

\* The operation n + 1 is of no other registration.
LEMMA OfOthers ==
    ASSUME NEW ops, NEW n \in Nat, DOMAIN ops \subseteq Nat, NEW id, NEW key, Len(ops) \in Nat,
           ops[n + 1].kind # "register" => ops[n + 1].id # id
    PROVE  /\ StillToMove(ops, n, id, key) => StillToMove(ops, n + 1, id, key)
           /\ Settled(ops, n, id, key) => Settled(ops, n + 1, id, key)
<1>1. \A i \in OperationsOn(ops, id) : i \in Nat /\ i # n + 1
  BY DEF OperationsOn
<1>2. \A i \in OperationsOn(ops, id) : (i > n => i > n + 1) /\ (i <= n + 1 => i <= n)
  BY <1>1
<1> QED
  BY <1>2 DEF StillToMove, Settled

\* The last operation on a registration that the step n + 1 is one of.
LEMMA OfItself ==
    ASSUME NEW ops, NEW n \in Nat, DOMAIN ops \subseteq Nat, n + 1 \in DOMAIN ops, NEW id, NEW key,
           ops[n + 1].kind = "replace", ops[n + 1].id = id, ops[n + 1].to.key = key
    PROVE  /\ StillToMove(ops, n, id, key) => StillToMove(ops, n + 1, id, key)
           /\ Settled(ops, n + 1, id, key)
<1>1. n + 1 \in OperationsOn(ops, id) /\ \A i \in OperationsOn(ops, id) : i \in Nat
  BY DEF OperationsOn
<1>2. ASSUME NEW i \in OperationsOn(ops, id), i > n, ops[i].kind = "unregister" \/ ops[i].to.key # key
      PROVE  i > n + 1
  BY <1>1, <1>2
<1>3. ASSUME NEW i \in OperationsOn(ops, id), i <= n + 1, \A j \in OperationsOn(ops, id) : j <= i
      PROVE  i = n + 1
  BY <1>1, <1>3
<1>4. StillToMove(ops, n, id, key) => StillToMove(ops, n + 1, id, key)
  BY <1>2 DEF StillToMove
<1>5. Settled(ops, n + 1, id, key)
  BY <1>3 DEF Settled
<1> QED
  BY <1>4, <1>5

\* What remains to be shown of the registration that a step changes.
LEMMA StagedStep ==
    ASSUME NEW ops, NEW n \in Nat, NEW w, NEW v, NEW id, NEW t,
           DOMAIN ops \subseteq Nat, Len(ops) \in Nat,
           ops[n + 1].kind # "register" => ops[n + 1].id = id,
           Staged(ops, n, w), Untouched(w, v), OthersKept(w, v, id),
           DOMAIN w.c.registrations \subseteq Nat,
           \A j \in Nat : HandedOut(w.c, j) => HandedOut(v.c, j),
           Displaced(ops, n + 1, v), Owned(v),
           id \in DOMAIN v.c.registrations =>
               /\ HandedOut(v.c, id) /\ HasRecipe(v, id)
               /\ Settled(ops, n + 1, id, v.c.registrations[id])
               /\ RecipeInCommit(v, id).id = id
               /\ RecipeInCommit(v, id).to.key = v.c.registrations[id]
               /\ Fits(v, RecipeInCommit(v, id)),
           v.c.reverse = Index(NodeOf(v))
    PROVE  Staged(ops, n + 1, v)
<1>1. Accounted(ops, n + 1, v)
  <2>1. ASSUME NEW j \in DOMAIN v.c.registrations, j # id
        PROVE  HandedOut(v.c, j) /\ HasRecipe(v, j) /\ Settled(ops, n + 1, j, v.c.registrations[j])
    <3>1. j \in DOMAIN w.c.registrations /\ v.c.registrations[j] = w.c.registrations[j] /\ HasRecipe(v, j)
      BY <2>1 DEF OthersKept
    <3>2. HandedOut(w.c, j) /\ Settled(ops, n, j, w.c.registrations[j])
      BY <3>1 DEF Staged, Accounted
    <3> QED
      BY <2>1, <3>1, <3>2, OfOthers
  <2> QED
    BY <2>1 DEF Accounted
<1>2. Recipes(v)
  <2>1. ASSUME NEW j \in DOMAIN v.c.registrations, j # id
        PROVE  /\ RecipeInCommit(v, j).id = j
               /\ RecipeInCommit(v, j).to.key = v.c.registrations[j]
               /\ Fits(v, RecipeInCommit(v, j))
    <3>1. j \in DOMAIN w.c.registrations /\ v.c.registrations[j] = w.c.registrations[j]
          /\ RecipeInCommit(v, j) = RecipeInCommit(w, j)
      BY <2>1 DEF OthersKept
    <3>2. /\ RecipeInCommit(w, j).id = j
          /\ RecipeInCommit(w, j).to.key = w.c.registrations[j]
          /\ Fits(w, RecipeInCommit(w, j))
      BY <3>1 DEF Staged, Recipes
    <3>3. Fits(v, RecipeInCommit(w, j))
      BY <3>2 DEF Untouched, Fits
    <3> QED
      BY <3>1, <3>2, <3>3
  <2> QED
    BY <2>1 DEF Recipes
<1>3. Tokens(ops, v)
  BY DEF Tokens, Staged
<1> QED
  BY <1>1, <1>2, <1>3 DEF Staged

\* Which node types serve the registrations after an operation on one of them.
LEMMA NodesAfter ==
    ASSUME NEW w, NEW v, NEW id, OthersKept(w, v, id)
    PROVE  /\ DOMAIN NodeOf(w) = DOMAIN w.c.registrations
           /\ id \in DOMAIN v.c.registrations =>
                NodeOf(v) = Assign(NodeOf(w), id, RecipeInCommit(v, id).to.node)
           /\ id \notin DOMAIN v.c.registrations => NodeOf(v) = Erase(NodeOf(w), id)
<1> DEFINE f == NodeOf(w)
           g == NodeOf(v)
<1>1. DOMAIN f = DOMAIN w.c.registrations /\ DOMAIN g = DOMAIN v.c.registrations
  BY DEF NodeOf
<1>2. \A j \in DOMAIN w.c.registrations : j # id => g[j] = f[j]
  BY DEF NodeOf, OthersKept
<1>3. id \in DOMAIN v.c.registrations => g[id] = RecipeInCommit(v, id).to.node
  BY DEF NodeOf
<1>4. g = [j \in DOMAIN g |-> g[j]]
  BY DEF NodeOf
<1> HIDE DEF f, g
<1>5. ASSUME id \in DOMAIN v.c.registrations
      PROVE  g = Assign(f, id, RecipeInCommit(v, id).to.node)
  <2>1. DOMAIN g = DOMAIN f \cup {id}
    BY <1>1, <1>5 DEF OthersKept
  <2> QED
    BY <1>1, <1>2, <1>3, <1>4, <1>5, <2>1 DEF Assign
<1>6. ASSUME id \notin DOMAIN v.c.registrations
      PROVE  g = Erase(f, id)
  <2>1. DOMAIN g = DOMAIN f \ {id}
    BY <1>1, <1>6 DEF OthersKept
  <2> QED
    BY <1>1, <1>2, <1>4, <1>6, <2>1 DEF Erase
<1> QED
  BY <1>1, <1>5, <1>6 DEF f, g

\* A new registration between staged ones.
LEMMA RegisterStep ==
    ASSUME NEW ops, NEW n \in Nat, NEW w, NEW v, DOMAIN ops \subseteq Nat, Len(ops) \in Nat,
           n + 1 \in DOMAIN ops, ops[n + 1].kind = "register",
           v = RegisterConversion(w, ops[n + 1]),
           WorkShape(w), Staged(ops, n, w), ~w.failed, ~v.failed
    PROVE  /\ WorkShape(v) /\ Staged(ops, n + 1, v) /\ Untouched(w, v)
           /\ w.c.next_registration <= v.c.next_registration
<1> DEFINE to == ops[n + 1].to
           id == w.c.next_registration
           built == BuiltRecipe(w.c, to, id)
<1>1. /\ to.key \notin DOMAIN w.c.conversions
      /\ ~w.c.exhausted
      /\ Buildable(w.c, to)
      /\ WorkShape(v) /\ Untouched(w, v)
      /\ v.displaced = w.displaced
      /\ v.c.conversions = Assign(w.c.conversions, to.key, built)
      /\ v.c.registrations = Assign(w.c.registrations, id, to.key)
      /\ v.c.reverse = AddReverse(w.c.reverse, to.node, id)
      /\ v.c.exhausted = (id = LastRegistration)
      /\ v.c.next_registration = IF id = LastRegistration THEN id ELSE id + 1
  BY RegisterEffect
<1>2. id \in Nat /\ DOMAIN w.c.registrations \subseteq Nat
  BY DEF WorkShape, Shape
<1>3. id \notin DOMAIN w.c.registrations /\ id \notin DOMAIN w.displaced
  BY <1>1, <1>2 DEF Staged, Accounted, Displaced, HandedOut
<1>4. OperationsOn(ops, id) = {}
  <2>1. \A i \in OperationsOn(ops, id) : HandedOut(w.c, id)
    BY DEF OperationsOn, Staged, Tokens
  <2> QED
    BY <1>1, <1>2, <2>1 DEF HandedOut
<1>5. built.id = id /\ built.to = to /\ Fits(w, built)
  BY <1>1 DEF BuiltRecipe, Buildable, Fits
<1> HIDE DEF id, to, built
<1>6. /\ DOMAIN v.c.conversions = DOMAIN w.c.conversions \cup {to.key}
      /\ v.c.conversions[to.key] = built
      /\ \A k \in DOMAIN w.c.conversions : v.c.conversions[k] = w.c.conversions[k]
      /\ DOMAIN v.c.registrations = DOMAIN w.c.registrations \cup {id}
      /\ v.c.registrations[id] = to.key
      /\ \A j \in DOMAIN w.c.registrations : v.c.registrations[j] = w.c.registrations[j]
  BY <1>1, <1>3 DEF Assign
<1>7. OthersKept(w, v, id)
  <2>1. ASSUME NEW j \in DOMAIN w.c.registrations
        PROVE  HasRecipe(v, j) /\ RecipeInCommit(v, j) = RecipeInCommit(w, j)
    <3>1. HasRecipe(w, j) /\ v.c.registrations[j] = w.c.registrations[j]
      BY <1>6 DEF Staged, Accounted
    <3> QED
      BY <1>1, <1>6, <3>1 DEF HasRecipe, RecipeInCommit, Holds
  <2> QED
    BY <1>6, <2>1 DEF OthersKept
<1>8. Holds(v.c, to.key, id) /\ HasRecipe(v, id) /\ RecipeInCommit(v, id) = built
  BY <1>1, <1>3, <1>5, <1>6 DEF HasRecipe, RecipeInCommit, Holds
<1>9. \A j \in Nat : HandedOut(w.c, j) => HandedOut(v.c, j)
  <2>1. ASSUME NEW j \in Nat, HandedOut(w.c, j) PROVE HandedOut(v.c, j)
    <3>1. j < w.c.next_registration
      BY <1>1, <2>1 DEF HandedOut
    <3> QED
      BY <1>1, <1>2, <3>1 DEF HandedOut, id
  <2> QED
    BY <2>1
<1>10. HandedOut(v.c, id)
  <2>1. CASE id = LastRegistration
    <3>1. v.c.exhausted = TRUE
      BY <1>1, <2>1
    <3> QED
      BY <3>1 DEF HandedOut
  <2>2. CASE id # LastRegistration
    <3>1. v.c.next_registration = id + 1
      BY <1>1, <2>2
    <3> QED
      BY <1>2, <3>1 DEF HandedOut
  <2> QED
    BY <2>1, <2>2
<1>11. Displaced(ops, n + 1, v)
  <2> SUFFICES ASSUME NEW j \in DOMAIN v.displaced
               PROVE  /\ j \in DOMAIN v.c.registrations
                      /\ ~Holds(v.c, v.c.registrations[j], j)
                      /\ StillToMove(ops, n + 1, j, v.c.registrations[j])
    BY DEF Displaced
  <2>1. /\ j \in DOMAIN w.c.registrations /\ j # id
        /\ ~Holds(w.c, w.c.registrations[j], j)
        /\ StillToMove(ops, n, j, w.c.registrations[j])
    BY <1>1, <1>3 DEF Staged, Displaced
  <2>2. ~Holds(v.c, v.c.registrations[j], j)
    BY <1>5, <1>6, <2>1 DEF Holds
  <2>3. StillToMove(ops, n + 1, j, v.c.registrations[j])
    BY <1>6, <2>1, OfOthers
  <2> QED
    BY <1>6, <2>1, <2>2, <2>3
<1>12. Owned(v)
  BY <1>3, <1>5, <1>6 DEF Staged, Owned
<1>13. Settled(ops, n + 1, id, v.c.registrations[id])
  BY <1>4 DEF Settled
<1>14. Fits(v, built)
  BY <1>1, <1>5 DEF Fits, Untouched
<1>15. v.c.reverse = Index(NodeOf(v))
  <2>1. NodeOf(v) = Assign(NodeOf(w), id, to.node) /\ id \notin DOMAIN NodeOf(w)
    BY <1>3, <1>5, <1>6, <1>7, <1>8, NodesAfter
  <2> QED
    BY <1>1, <2>1, AddIndex DEF Staged
<1>16. Staged(ops, n + 1, v)
  BY <1>1, <1>2, <1>5, <1>6, <1>7, <1>8, <1>9, <1>10, <1>11, <1>12, <1>13, <1>14, <1>15, StagedStep
<1>17. w.c.next_registration <= v.c.next_registration
  BY <1>1, <1>2 DEF id
<1> QED
  BY <1>1, <1>16, <1>17

\* One that ends, displaced or not.
LEMMA UnregisterStep ==
    ASSUME NEW ops, NEW n \in Nat, NEW w, NEW v, DOMAIN ops \subseteq Nat, Len(ops) \in Nat,
           n + 1 \in DOMAIN ops, ops[n + 1].kind # "register",
           v = UnregisterConversion(w, ops[n + 1].id), ops[n + 1].id \in DOMAIN w.c.registrations,
           WorkShape(w), Staged(ops, n, w)
    PROVE  WorkShape(v) /\ Staged(ops, n + 1, v) /\ Untouched(w, v) /\ IdsKept(w, v)
<1> DEFINE id == ops[n + 1].id
           key == w.c.registrations[id]
<1>1. /\ WorkShape(v) /\ Untouched(w, v) /\ IdsKept(w, v)
      /\ v.displaced = Erase(w.displaced, id)
      /\ v.c.conversions = EraseHeld(w.c, key, id)
      /\ v.c.registrations = Erase(w.c.registrations, id)
      /\ v.c.reverse = RemoveReverse(w.c.reverse, RecipeInCommit(w, id).to.node, id)
  BY UnregisterEffect
<1>2. id \in DOMAIN w.c.registrations /\ key = w.c.registrations[id]
  OBVIOUS
<1>3. ops[n + 1].kind # "register" => ops[n + 1].id = id
  OBVIOUS
<1> HIDE DEF id, key
<1>4. /\ DOMAIN v.displaced = DOMAIN w.displaced \ {id}
      /\ \A j \in DOMAIN w.displaced \ {id} : v.displaced[j] = w.displaced[j]
      /\ DOMAIN v.c.registrations = DOMAIN w.c.registrations \ {id}
      /\ \A j \in DOMAIN w.c.registrations \ {id} : v.c.registrations[j] = w.c.registrations[j]
  BY <1>1 DEF Erase
<1>5. /\ \A k \in DOMAIN v.c.conversions :
             k \in DOMAIN w.c.conversions /\ v.c.conversions[k] = w.c.conversions[k]
      /\ \A k \in DOMAIN w.c.conversions :
             w.c.conversions[k].id # id => k \in DOMAIN v.c.conversions
      /\ \A k \in DOMAIN v.c.conversions : w.c.conversions[k].id = id => k # key
  BY <1>1 DEF EraseHeld, Erase, Holds
<1>6. OthersKept(w, v, id)
  <2>1. ASSUME NEW j \in DOMAIN w.c.registrations, j # id
        PROVE  HasRecipe(v, j) /\ RecipeInCommit(v, j) = RecipeInCommit(w, j)
    <3>1. HasRecipe(w, j) /\ v.c.registrations[j] = w.c.registrations[j]
      BY <1>4, <2>1 DEF Staged, Accounted
    <3> QED
      BY <1>4, <1>5, <2>1, <3>1 DEF HasRecipe, RecipeInCommit, Holds
  <2> QED
    BY <1>4, <2>1 DEF OthersKept
<1>7. \A j \in Nat : HandedOut(w.c, j) => HandedOut(v.c, j)
  BY <1>1 DEF HandedOut, IdsKept
<1>8. Displaced(ops, n + 1, v)
  <2> SUFFICES ASSUME NEW j \in DOMAIN v.displaced
               PROVE  /\ j \in DOMAIN v.c.registrations
                      /\ ~Holds(v.c, v.c.registrations[j], j)
                      /\ StillToMove(ops, n + 1, j, v.c.registrations[j])
    BY DEF Displaced
  <2>1. /\ j \in DOMAIN w.c.registrations /\ j # id
        /\ ~Holds(w.c, w.c.registrations[j], j)
        /\ StillToMove(ops, n, j, w.c.registrations[j])
    BY <1>4 DEF Staged, Displaced
  <2>2. ~Holds(v.c, v.c.registrations[j], j)
    BY <1>4, <1>5, <2>1 DEF Holds
  <2>3. StillToMove(ops, n + 1, j, v.c.registrations[j])
    BY <1>3, <1>4, <2>1, OfOthers
  <2> QED
    BY <1>4, <2>1, <2>2, <2>3
<1>9. Owned(v)
  BY <1>2, <1>4, <1>5 DEF Staged, Owned
<1>10. v.c.reverse = Index(NodeOf(v))
  <2>1. NodeOf(v) = Erase(NodeOf(w), id) /\ id \in DOMAIN NodeOf(w)
    BY <1>2, <1>4, <1>6, NodesAfter
  <2>2. NodeOf(w)[id] = RecipeInCommit(w, id).to.node
    BY <1>2 DEF NodeOf
  <2> QED
    BY <1>1, <2>1, <2>2, RemoveIndex DEF Staged
<1>11. Staged(ops, n + 1, v)
  <2> DOMAIN w.c.registrations \subseteq Nat
    BY DEF WorkShape, Shape
  <2> QED
    BY <1>1, <1>3, <1>4, <1>6, <1>7, <1>8, <1>9, <1>10, StagedStep
<1> QED
  BY <1>1, <1>11

\* A replacement by what is there already.
LEMMA NothingToDo ==
    ASSUME NEW ops, NEW n \in Nat, NEW w, DOMAIN ops \subseteq Nat, Len(ops) \in Nat,
           n + 1 \in DOMAIN ops, ops[n + 1].kind = "replace",
           ops[n + 1].id \in DOMAIN w.c.registrations,
           WorkShape(w), Staged(ops, n, w), RecipeInCommit(w, ops[n + 1].id).to = ops[n + 1].to
    PROVE  Staged(ops, n + 1, w)
<1> DEFINE id == ops[n + 1].id
           to == ops[n + 1].to
<1>1. to.key = w.c.registrations[id]
  BY DEF Staged, Recipes
<1>2. Settled(ops, n + 1, id, w.c.registrations[id])
  BY <1>1, OfItself
<1>3. Accounted(ops, n + 1, w)
  <2>1. ASSUME NEW j \in DOMAIN w.c.registrations, j # id
        PROVE  Settled(ops, n + 1, j, w.c.registrations[j])
    BY <2>1, OfOthers DEF Staged, Accounted
  <2> QED
    BY <1>2, <2>1 DEF Staged, Accounted
<1>4. Displaced(ops, n + 1, w)
  <2>1. ASSUME NEW j \in DOMAIN w.displaced
        PROVE  StillToMove(ops, n + 1, j, w.c.registrations[j])
    <3>1. StillToMove(ops, n, j, w.c.registrations[j])
      BY DEF Staged, Displaced
    <3>2. CASE j # id
      BY <3>1, <3>2, OfOthers
    <3>3. CASE j = id
      BY <1>1, <3>1, <3>3, OfItself
    <3> QED
      BY <3>2, <3>3
  <2> QED
    BY <2>1 DEF Staged, Displaced
<1> QED
  BY <1>3, <1>4 DEF Staged

\* A replacement of the recipe of a displaced registration at its own key.
LEMMA StaysStep ==
    ASSUME NEW ops, NEW n \in Nat, NEW w, NEW v, NEW id, NEW to,
           DOMAIN ops \subseteq Nat, Len(ops) \in Nat,
           n + 1 \in DOMAIN ops, ops[n + 1].kind = "replace",
           ops[n + 1].id = id, ops[n + 1].to = to,
           id \in DOMAIN w.c.registrations,
           WorkShape(w), Staged(ops, n, w), Untouched(w, v), IdsKept(w, v), Buildable(w.c, to),
           v.c.reverse = MoveReverse(w.c.reverse, RecipeInCommit(w, id).to.node, to.node, id),
           Stays(w, id, to, v)
    PROVE  Staged(ops, n + 1, v)
<1> DEFINE built == BuiltRecipe(w.c, to, id)
<1>1. built.id = id /\ built.to = to /\ Fits(v, built)
  BY DEF BuiltRecipe, Buildable, Fits, Untouched
<1>2. /\ id \in DOMAIN w.displaced /\ to.key = w.c.registrations[id]
      /\ v.displaced = Assign(w.displaced, id, built)
      /\ v.c.conversions = w.c.conversions
      /\ v.c.registrations = w.c.registrations
  BY DEF Stays
<1> HIDE DEF built
<1>3. DOMAIN v.displaced = DOMAIN w.displaced /\ v.displaced[id] = built
      /\ \A j \in DOMAIN w.displaced : j # id => v.displaced[j] = w.displaced[j]
  BY <1>2 DEF Assign
<1>4. HasRecipe(v, id) /\ RecipeInCommit(v, id) = built
  BY <1>2, <1>3 DEF HasRecipe, RecipeInCommit
<1>5. OthersKept(w, v, id)
  <2>1. ASSUME NEW j \in DOMAIN w.c.registrations, j # id
        PROVE  HasRecipe(v, j) /\ RecipeInCommit(v, j) = RecipeInCommit(w, j)
    <3>1. HasRecipe(w, j)
      BY DEF Staged, Accounted
    <3> QED
      BY <1>2, <1>3, <2>1, <3>1 DEF HasRecipe, RecipeInCommit, Holds
  <2> QED
    BY <1>2, <2>1 DEF OthersKept
<1>6. \A j \in Nat : HandedOut(w.c, j) => HandedOut(v.c, j)
  BY DEF HandedOut, IdsKept
<1>7. Settled(ops, n + 1, id, v.c.registrations[id])
  BY <1>2, OfItself
<1>8. Displaced(ops, n + 1, v)
  <2> SUFFICES ASSUME NEW j \in DOMAIN w.displaced
               PROVE  /\ j \in DOMAIN w.c.registrations
                      /\ ~Holds(v.c, w.c.registrations[j], j)
                      /\ StillToMove(ops, n + 1, j, w.c.registrations[j])
    BY <1>2, <1>3 DEF Displaced
  <2>1. /\ j \in DOMAIN w.c.registrations
        /\ ~Holds(w.c, w.c.registrations[j], j)
        /\ StillToMove(ops, n, j, w.c.registrations[j])
    BY DEF Staged, Displaced
  <2>2. ~Holds(v.c, w.c.registrations[j], j)
    BY <1>2, <2>1 DEF Holds
  <2>3. CASE j # id
    BY <2>1, <2>2, <2>3, OfOthers
  <2>4. CASE j = id
    BY <1>2, <2>1, <2>2, <2>4, OfItself
  <2> QED
    BY <2>3, <2>4
<1>9. Owned(v)
  BY <1>2 DEF Staged, Owned
<1>10. v.c.reverse = Index(NodeOf(v))
  <2>1. NodeOf(v) = Assign(NodeOf(w), id, to.node) /\ id \in DOMAIN NodeOf(w)
    BY <1>1, <1>2, <1>4, <1>5, NodesAfter
  <2>2. NodeOf(w)[id] = RecipeInCommit(w, id).to.node
    BY DEF NodeOf
  <2> QED
    BY <2>1, <2>2, MoveIndex DEF Staged
<1>11. DOMAIN w.c.registrations \subseteq Nat
  BY DEF WorkShape, Shape
<1>12. HandedOut(v.c, id)
  BY <1>6, <1>11 DEF Staged, Accounted
<1> QED
  BY <1>1, <1>2, <1>4, <1>5, <1>6, <1>7, <1>8, <1>9, <1>10, <1>11, <1>12, StagedStep

\* A replacement that enters a key, and may displace the registration there.
LEMMA EntersStep ==
    ASSUME NEW ops, NEW n \in Nat, NEW w, NEW v, NEW id, NEW to,
           DOMAIN ops \subseteq Nat, Len(ops) \in Nat,
           n + 1 \in DOMAIN ops, ops[n + 1].kind = "replace",
           ops[n + 1].id = id, ops[n + 1].to = to,
           id \in DOMAIN w.c.registrations,
           WorkShape(w), Staged(ops, n, w), Untouched(w, v), IdsKept(w, v), Buildable(w.c, to),
           v.c.reverse = MoveReverse(w.c.reverse, RecipeInCommit(w, id).to.node, to.node, id),
           Enters(w, ops, id, to, v)
    PROVE  Staged(ops, n + 1, v)
<1> DEFINE built == BuiltRecipe(w.c, to, id)
           old_key == w.c.registrations[id]
           collides == to.key # old_key /\ to.key \in DOMAIN w.c.conversions
           collision == w.c.conversions[to.key]
<1>1. built.id = id /\ built.to = to /\ Fits(v, built)
  BY DEF BuiltRecipe, Buildable, Fits, Untouched
<1> HIDE DEF built
<1>2. /\ id \in DOMAIN w.displaced => to.key # old_key
      /\ collides => MovesAway(ops, collision.id, to.key)
      /\ v.displaced = Erase(IF collides THEN Assign(w.displaced, collision.id, collision)
                             ELSE w.displaced, id)
      /\ v.c.conversions =
             Assign(IF to.key # old_key THEN EraseHeld(w.c, old_key, id)
                    ELSE w.c.conversions, to.key, built)
      /\ v.c.registrations = Assign(w.c.registrations, id, to.key)
  BY DEF Enters, built
\* what the new state is, entry by entry
<1>3. /\ DOMAIN v.c.registrations = DOMAIN w.c.registrations
      /\ v.c.registrations[id] = to.key
      /\ \A j \in DOMAIN w.c.registrations : j # id => v.c.registrations[j] = w.c.registrations[j]
  BY <1>2 DEF Assign
<1>4. /\ to.key \in DOMAIN v.c.conversions /\ v.c.conversions[to.key] = built
      /\ \A k \in DOMAIN v.c.conversions : k # to.key =>
             k \in DOMAIN w.c.conversions /\ v.c.conversions[k] = w.c.conversions[k]
      /\ \A k \in DOMAIN w.c.conversions :
             w.c.conversions[k].id # id => k \in DOMAIN v.c.conversions
      /\ \A k \in DOMAIN v.c.conversions : k # to.key /\ w.c.conversions[k].id = id => k # old_key
  <2>1. CASE to.key # old_key
    <3> DEFINE rest == EraseHeld(w.c, old_key, id)
    <3>1. v.c.conversions = Assign(rest, to.key, built)
      BY <1>2, <2>1
    <3>2. /\ \A k \in DOMAIN rest : k \in DOMAIN w.c.conversions /\ rest[k] = w.c.conversions[k]
          /\ \A k \in DOMAIN w.c.conversions : w.c.conversions[k].id # id => k \in DOMAIN rest
          /\ \A k \in DOMAIN rest : w.c.conversions[k].id = id => k # old_key
      BY DEF EraseHeld, Erase, Holds
    <3> HIDE DEF rest
    <3> QED
      BY <3>1, <3>2 DEF Assign
  <2>2. CASE to.key = old_key
    BY <1>2, <2>2 DEF Assign
  <2> QED
    BY <2>1, <2>2
<1>5. /\ id \notin DOMAIN v.displaced
      /\ collides /\ collision.id # id =>
            collision.id \in DOMAIN v.displaced /\ v.displaced[collision.id] = collision
      /\ \A j : j # id /\ (collides => j # collision.id) =>
            /\ j \in DOMAIN v.displaced <=> j \in DOMAIN w.displaced
            /\ j \in DOMAIN w.displaced => v.displaced[j] = w.displaced[j]
  <2>1. CASE collides
    <3> DEFINE more == Assign(w.displaced, collision.id, collision)
    <3>1. v.displaced = Erase(more, id)
      BY <1>2, <2>1
    <3>2. /\ DOMAIN more = DOMAIN w.displaced \cup {collision.id} /\ more[collision.id] = collision
          /\ \A j \in DOMAIN w.displaced : j # collision.id => more[j] = w.displaced[j]
      BY DEF Assign
    <3> HIDE DEF more
    <3>3. DOMAIN v.displaced = DOMAIN more \ {id} /\ \A j \in DOMAIN more \ {id} : v.displaced[j] = more[j]
      BY <3>1 DEF Erase
    <3> HIDE DEF collides, collision
    <3> QED
      BY <2>1, <3>2, <3>3
  <2>2. CASE ~collides
    BY <1>2, <2>2 DEF Erase
  <2> QED
    BY <2>1, <2>2
\* whom the collision displaces
<1>6. ASSUME collides
      PROVE  /\ collision.id \in DOMAIN w.c.registrations
             /\ w.c.registrations[collision.id] = to.key
             /\ collision.id # id
             /\ collision.id \notin DOMAIN w.displaced
             /\ RecipeInCommit(w, collision.id) = collision
  <2>1. collision.id \in DOMAIN w.c.registrations /\ w.c.registrations[collision.id] = to.key
    BY <1>6 DEF Staged, Owned
  <2>2. Holds(w.c, to.key, collision.id)
    BY <1>6 DEF Holds
  <2> QED
    BY <1>6, <2>1, <2>2 DEF Staged, Displaced, RecipeInCommit
<1> HIDE DEF collides, collision, old_key
<1>7. ASSUME NEW j \in DOMAIN w.c.registrations, j # id, w.c.registrations[j] = to.key,
             j \notin DOMAIN w.displaced
      PROVE  collides /\ j = collision.id
  <2>1. Holds(w.c, to.key, j)
    BY <1>7 DEF Staged, Accounted, HasRecipe
  <2>2. to.key # old_key
    <3>1. SUFFICES ASSUME to.key = old_key PROVE FALSE
      OBVIOUS
    <3>2. Holds(w.c, old_key, id)
      BY <1>2, <3>1 DEF Staged, Accounted, HasRecipe, old_key
    <3> QED
      BY <1>7, <2>1, <3>1, <3>2 DEF Holds
  <2> QED
    BY <2>1, <2>2 DEF Holds, collides, collision
<1>8. OthersKept(w, v, id)
  <2>1. ASSUME NEW j \in DOMAIN w.c.registrations, j # id
        PROVE  HasRecipe(v, j) /\ RecipeInCommit(v, j) = RecipeInCommit(w, j)
    <3>1. CASE collides /\ j = collision.id
      BY <1>5, <1>6, <2>1, <3>1 DEF HasRecipe, RecipeInCommit
    <3>2. CASE ~(collides /\ j = collision.id)
      <4>1. /\ j \in DOMAIN v.displaced <=> j \in DOMAIN w.displaced
            /\ j \in DOMAIN w.displaced => v.displaced[j] = w.displaced[j]
        BY <1>5, <2>1, <3>2
      <4>2. CASE j \in DOMAIN w.displaced
        BY <4>1, <4>2 DEF HasRecipe, RecipeInCommit
      <4>3. CASE j \notin DOMAIN w.displaced
        <5>1. Holds(w.c, w.c.registrations[j], j)
          BY <4>3 DEF Staged, Accounted, HasRecipe
        <5>2. w.c.registrations[j] # to.key
          BY <1>7, <2>1, <3>2, <4>3
        <5>3. w.c.registrations[j] \in DOMAIN v.c.conversions
              /\ v.c.conversions[w.c.registrations[j]] = w.c.conversions[w.c.registrations[j]]
          BY <1>4, <2>1, <5>1, <5>2 DEF Holds
        <5> QED
          BY <1>3, <2>1, <4>1, <4>3, <5>1, <5>3 DEF HasRecipe, RecipeInCommit, Holds
      <4> QED
        BY <4>2, <4>3
    <3> QED
      BY <3>1, <3>2
  <2> QED
    BY <1>3, <2>1 DEF OthersKept
<1>9. HasRecipe(v, id) /\ RecipeInCommit(v, id) = built
  BY <1>1, <1>3, <1>4, <1>5 DEF HasRecipe, RecipeInCommit, Holds
<1>10. \A j \in Nat : HandedOut(w.c, j) => HandedOut(v.c, j)
  BY DEF HandedOut, IdsKept
<1>11. Settled(ops, n + 1, id, v.c.registrations[id])
  BY <1>3, OfItself
<1>12. Displaced(ops, n + 1, v)
  <2> SUFFICES ASSUME NEW j \in DOMAIN v.displaced
               PROVE  /\ j \in DOMAIN v.c.registrations
                      /\ ~Holds(v.c, v.c.registrations[j], j)
                      /\ StillToMove(ops, n + 1, j, v.c.registrations[j])
    BY DEF Displaced
  <2>1. j # id
    BY <1>5
  <2>2. CASE collides /\ j = collision.id
    <3>1. j \in DOMAIN w.c.registrations /\ v.c.registrations[j] = to.key
      BY <1>3, <1>6, <2>1, <2>2
    <3>2. ~Holds(v.c, to.key, j)
      BY <1>1, <1>4, <2>1 DEF Holds
    <3>3. PICK i \in OperationsOn(ops, j) :
             /\ \A x \in OperationsOn(ops, j) : x <= i
             /\ ops[i].kind = "unregister" \/ ops[i].to.key # to.key
      BY <1>2, <2>2 DEF MovesAway
    <3>4. Settled(ops, n, j, to.key)
      BY <1>6, <2>2, <3>1 DEF Staged, Accounted
    <3>5. i \in Nat /\ i # n + 1 /\ ~(i <= n)
      BY <2>1, <3>3, <3>4 DEF OperationsOn, Settled
    <3>6. i > n + 1
      BY <3>5
    <3>7. StillToMove(ops, n + 1, j, to.key)
      BY <3>3, <3>6 DEF StillToMove
    <3> QED
      BY <1>3, <3>1, <3>2, <3>7
  <2>3. CASE ~(collides /\ j = collision.id)
    <3>1. /\ j \in DOMAIN w.c.registrations
          /\ ~Holds(w.c, w.c.registrations[j], j)
          /\ StillToMove(ops, n, j, w.c.registrations[j])
      BY <1>5, <2>1, <2>3 DEF Staged, Displaced
    <3>2. ~Holds(v.c, v.c.registrations[j], j)
      BY <1>1, <1>3, <1>4, <2>1, <3>1 DEF Holds
    <3>3. StillToMove(ops, n + 1, j, v.c.registrations[j])
      BY <1>3, <2>1, <3>1, OfOthers
    <3> QED
      BY <1>3, <3>1, <3>2, <3>3
  <2> QED
    BY <2>2, <2>3
<1>13. Owned(v)
  <2> SUFFICES ASSUME NEW k \in DOMAIN v.c.conversions
               PROVE  /\ v.c.conversions[k].id \in DOMAIN v.c.registrations
                      /\ v.c.registrations[v.c.conversions[k].id] = k
    BY DEF Owned
  <2>1. CASE k = to.key
    BY <1>1, <1>3, <1>4, <2>1
  <2>2. CASE k # to.key
    <3>1. k \in DOMAIN w.c.conversions /\ v.c.conversions[k] = w.c.conversions[k]
      BY <1>4, <2>2
    <3>2. w.c.conversions[k].id \in DOMAIN w.c.registrations
          /\ w.c.registrations[w.c.conversions[k].id] = k
      BY <3>1 DEF Staged, Owned
    <3>3. w.c.conversions[k].id # id
      BY <1>4, <2>2, <3>2 DEF old_key
    <3> QED
      BY <1>3, <3>1, <3>2, <3>3
  <2> QED
    BY <2>1, <2>2
<1>14. v.c.reverse = Index(NodeOf(v))
  <2>1. NodeOf(v) = Assign(NodeOf(w), id, to.node) /\ id \in DOMAIN NodeOf(w)
    BY <1>1, <1>3, <1>8, <1>9, NodesAfter
  <2>2. NodeOf(w)[id] = RecipeInCommit(w, id).to.node
    BY DEF NodeOf
  <2> QED
    BY <2>1, <2>2, MoveIndex DEF Staged
<1>15. DOMAIN w.c.registrations \subseteq Nat
  BY DEF WorkShape, Shape
<1>16. HandedOut(v.c, id)
  BY <1>10, <1>15 DEF Staged, Accounted
<1> QED
  BY <1>1, <1>3, <1>8, <1>9, <1>10, <1>11, <1>12, <1>13, <1>14, <1>15, <1>16, StagedStep

\* An operation fails as a whole or not at all.
LEMMA ConversionRefused ==
    ASSUME NEW ops, NEW op, NEW w, NEW v, v = ApplyConversionOperation(w, ops, op), WorkShape(w),
           v.failed
    PROVE  WorkShape(v)
<1>1. CASE w.failed
  BY <1>1 DEF ApplyConversionOperation
<1>2. CASE ~w.failed
  <2>1. v = [w EXCEPT !.failed = TRUE] => WorkShape(v)
    BY DEF WorkShape
  <2>2. v # w
    BY <1>2
  <2>3. CASE v = RegisterConversion(w, op)
    <3>1. v = [w EXCEPT !.failed = TRUE] \/ v.failed = w.failed
      BY <2>3 DEF RegisterConversion, WorkShape
    <3> QED
      BY <1>2, <2>1, <3>1
  <2>4. CASE v = UnregisterConversion(w, op.id)
    BY <2>4, UnregisterEffect
  <2>5. CASE v = ReplaceConversion(w, ops, op.id, op.to)
    <3>1. v = [w EXCEPT !.failed = TRUE] \/ v.failed = w.failed
      BY <2>5 DEF ReplaceConversion, WorkShape
    <3> QED
      BY <1>2, <2>1, <3>1
  <2> QED
    BY <1>2, <2>1, <2>2, <2>3, <2>4, <2>5 DEF ApplyConversionOperation
<1> QED
  BY <1>1, <1>2

\* One operation on conversions, refused or not.
LEMMA ConversionStep ==
    ASSUME NEW ops, NEW n \in Nat, NEW w, NEW v, DOMAIN ops \subseteq Nat, Len(ops) \in Nat,
           n + 1 \in DOMAIN ops, ops[n + 1].kind \in {"register", "unregister", "replace"},
           v = ApplyConversionOperation(w, ops, ops[n + 1]),
           WorkShape(w), w.failed \/ Staged(ops, n, w)
    PROVE  /\ WorkShape(v)
           /\ v.failed \/ (/\ ~w.failed /\ Staged(ops, n + 1, v) /\ Untouched(w, v)
                           /\ w.c.next_registration <= v.c.next_registration)
<1> DEFINE op == ops[n + 1]
<1>0. v.failed => WorkShape(v)
  BY ConversionRefused
<1> SUFFICES ASSUME ~v.failed
             PROVE  /\ WorkShape(v) /\ ~w.failed /\ Staged(ops, n + 1, v) /\ Untouched(w, v)
                    /\ w.c.next_registration <= v.c.next_registration
  BY <1>0
<1>1. ~w.failed
  BY DEF ApplyConversionOperation
<1>2. w.c.next_registration \in Nat
  BY DEF WorkShape, Shape
<1>3. CASE op.kind = "register"
  <2>1. v = RegisterConversion(w, op)
    BY <1>1, <1>3 DEF ApplyConversionOperation
  <2> QED
    BY <1>1, <1>3, <2>1, RegisterStep
<1>4. CASE op.kind # "register"
  <2>1. op.id \in DOMAIN w.c.registrations
    BY <1>1, <1>4 DEF ApplyConversionOperation, WorkShape
  <2>2. CASE op.kind = "unregister"
    <3>1. v = UnregisterConversion(w, op.id)
      BY <1>1, <1>4, <2>1, <2>2 DEF ApplyConversionOperation, WorkShape
    <3>2. WorkShape(v) /\ Staged(ops, n + 1, v) /\ Untouched(w, v) /\ IdsKept(w, v)
      BY <1>1, <1>4, <2>1, <3>1, UnregisterStep
    <3> QED
      BY <1>1, <1>2, <3>2 DEF IdsKept
  <2>3. CASE op.kind = "replace"
    <3>1. v = ReplaceConversion(w, ops, op.id, op.to)
      BY <1>1, <1>4, <2>1, <2>3 DEF ApplyConversionOperation, WorkShape
    <3>2. op.id \in Nat
      BY <2>1 DEF WorkShape, Shape
    <3>3. \/ v = w /\ RecipeInCommit(w, op.id).to = op.to
          \/ /\ WorkShape(v) /\ Untouched(w, v) /\ IdsKept(w, v)
             /\ Buildable(w.c, op.to)
             /\ v.c.reverse = MoveReverse(w.c.reverse, RecipeInCommit(w, op.id).to.node, op.to.node, op.id)
             /\ Stays(w, op.id, op.to, v) \/ Enters(w, ops, op.id, op.to, v)
      <4> HIDE DEF op
      <4> QED
        BY <3>1, <3>2, ReplaceEffect
    <3>4. CASE v = w /\ RecipeInCommit(w, op.id).to = op.to
      <4>1. Staged(ops, n + 1, v)
        BY <1>1, <2>1, <2>3, <3>4, NothingToDo
      <4> QED
        BY <1>1, <1>2, <3>4, <4>1 DEF Untouched
    <3>5. CASE /\ WorkShape(v) /\ Untouched(w, v) /\ IdsKept(w, v)
               /\ Buildable(w.c, op.to)
               /\ v.c.reverse = MoveReverse(w.c.reverse, RecipeInCommit(w, op.id).to.node, op.to.node, op.id)
               /\ Stays(w, op.id, op.to, v) \/ Enters(w, ops, op.id, op.to, v)
      <4>1. Staged(ops, n + 1, v)
        BY <1>1, <2>1, <2>3, <3>5, StaysStep, EntersStep
      <4> QED
        BY <1>1, <1>2, <3>5, <4>1 DEF IdsKept
    <3> QED
      BY <3>3, <3>4, <3>5
  <2> QED
    BY <1>4, <2>2, <2>3
<1> QED
  BY <1>3, <1>4

\* All of them: nothing stays displaced.
LEMMA ConversionsDone ==
    ASSUME NEW ops, NEW w, NEW v, Len(ops) \in Nat, DOMAIN ops = 1..Len(ops),
           \A i \in DOMAIN ops : ops[i].kind \in {"register", "unregister", "replace"},
           v = ApplyConversionOperations(w, ops),
           WorkShape(w), w.failed \/ Staged(ops, 0, w)
    PROVE  WorkShape(v) /\
           (v.failed \/ (/\ ~w.failed /\ Staged(ops, Len(ops), v) /\ Untouched(w, v)
                         /\ w.c.next_registration <= v.c.next_registration
                         /\ DOMAIN v.displaced = {}))
<1> DEFINE N == Len(ops)
           Done(x, n) ==
               WorkShape(x) /\
               (x.failed \/ (/\ ~w.failed /\ Staged(ops, n, x) /\ Untouched(w, x)
                             /\ w.c.next_registration <= x.c.next_registration))
<1>1. PICK f : /\ f[0] = w
               /\ f[Len(ops)] = ApplyConversionOperations(w, ops)
               /\ \A n \in 1..Len(ops) : f[n] = ApplyConversionOperation(f[n - 1], ops, ops[n])
  BY ConversionFold
<1> DEFINE Good == {n \in 0..N : Done(f[n], n)}
<1>2. 0 \in Good
  <2>1. w.c.next_registration \in Nat
    BY DEF WorkShape, Shape
  <2>2. Done(f[0], 0)
    BY <1>1, <2>1 DEF Untouched, WorkShape
  <2> QED
    BY <2>2
<1>3. ASSUME NEW n \in 0..N, n < N, n \in Good PROVE n + 1 \in Good
  <2>1. n \in Nat /\ n + 1 \in 1..N /\ n + 1 \in 0..N /\ n + 1 \in DOMAIN ops /\ (n + 1) - 1 = n
    BY <1>3
  <2>2. f[n + 1] = ApplyConversionOperation(f[n], ops, ops[n + 1])
    BY <1>1, <2>1
  <2>3. CASE f[n].failed
    BY <1>3, <2>1, <2>2, <2>3 DEF ApplyConversionOperation
  <2>4. CASE ~f[n].failed
    <3>1. /\ ~w.failed /\ WorkShape(f[n]) /\ Staged(ops, n, f[n]) /\ Untouched(w, f[n])
          /\ w.c.next_registration <= f[n].c.next_registration
      BY <1>3, <2>4
    <3>2. WorkShape(f[n + 1]) /\
          \/ f[n + 1].failed
          \/ /\ Staged(ops, n + 1, f[n + 1]) /\ Untouched(f[n], f[n + 1])
             /\ f[n].c.next_registration <= f[n + 1].c.next_registration
      <4>1. DOMAIN ops \subseteq Nat /\ ops[n + 1].kind \in {"register", "unregister", "replace"}
        BY <2>1
      <4> QED
        BY <2>1, <2>2, <3>1, <4>1, ConversionStep
    <3>3. CASE f[n + 1].failed
      BY <2>1, <3>2, <3>3
    <3>4. CASE /\ Staged(ops, n + 1, f[n + 1]) /\ Untouched(f[n], f[n + 1])
               /\ f[n].c.next_registration <= f[n + 1].c.next_registration
      <4>1. {w.c.next_registration, f[n].c.next_registration, f[n + 1].c.next_registration} \subseteq Nat
        BY <3>1, <3>2, <3>4 DEF WorkShape, Shape
      <4>2. w.c.next_registration <= f[n + 1].c.next_registration
        BY <3>1, <3>4, <4>1
      <4>3. Untouched(w, f[n + 1])
        BY <3>1, <3>4 DEF Untouched
      <4> QED
        BY <2>1, <3>1, <3>2, <3>4, <4>2, <4>3
    <3> QED
      BY <3>2, <3>3, <3>4
  <2> QED
    BY <2>3, <2>4
<1>4. Done(v, N)
  <2>1. N \in Good
    <3>1. \A n \in 0..N : n < N /\ n \in Good => n + 1 \in Good
      BY <1>3
    <3>2. N \in Nat /\ N \in 0..N
      OBVIOUS
    <3> HIDE DEF Good, N
    <3> QED
      BY <1>2, <3>1, <3>2, Induct
  <2> QED
    BY <1>1, <2>1
<1>5. Staged(ops, N, v) => DOMAIN v.displaced = {}
  <2> SUFFICES ASSUME Staged(ops, N, v), NEW id \in DOMAIN v.displaced PROVE FALSE
    OBVIOUS
  <2>1. PICK i \in OperationsOn(ops, id) : i > N
    BY DEF Staged, Displaced, StillToMove
  <2> QED
    BY <2>1 DEF OperationsOn
<1> QED
  BY <1>4, <1>5

-----------------------------------------------------------------------------
(* The commit                                                              *)

\* A sound catalog, after its node operations, is where the others start.
LEMMA ConversionsStart ==
    ASSUME NEW b, NEW w, NEW ops, Shape(b), Sound(b), WorkShape(w), NodesStaged(b, w),
           DOMAIN ops \subseteq Nat \ {0},
           \A i \in DOMAIN ops : ops[i].kind # "register" =>
               ops[i].id \in Nat /\ HandedOut(b, ops[i].id)
    PROVE  Staged(ops, 0, w)
<1>1. /\ w.c.conversions = b.conversions /\ w.c.registrations = b.registrations
      /\ w.c.reverse = b.reverse /\ w.c.next_registration = b.next_registration
      /\ w.c.exhausted = b.exhausted /\ DOMAIN w.displaced = {}
  BY DEF NodesStaged, Shape
<1>2. ASSUME NEW id \in DOMAIN w.c.registrations
      PROVE  /\ Holds(w.c, w.c.registrations[id], id) /\ HandedOut(w.c, id)
             /\ RecipeInCommit(w, id) = b.conversions[b.registrations[id]]
  <2>1. Holds(b, b.registrations[id], id) /\ HandedOut(b, id)
    BY <1>1 DEF Sound
  <2>2. RecipeInCommit(w, id) = b.conversions[b.registrations[id]]
    BY <1>1 DEF RecipeInCommit
  <2> QED
    BY <1>1, <2>1, <2>2 DEF Holds, HandedOut
<1>3. Accounted(ops, 0, w)
  <2>1. ASSUME NEW id, NEW key PROVE Settled(ops, 0, id, key)
    BY DEF Settled, OperationsOn
  <2> QED
    BY <1>2, <2>1 DEF Accounted, HasRecipe
<1>4. Recipes(w)
  <2> SUFFICES ASSUME NEW id \in DOMAIN w.c.registrations
               PROVE  /\ RecipeInCommit(w, id).id = id
                      /\ RecipeInCommit(w, id).to.key = w.c.registrations[id]
                      /\ Fits(w, RecipeInCommit(w, id))
    BY DEF Recipes
  <2> DEFINE k == b.registrations[id]
             r == b.conversions[k]
  <2>1. k \in DOMAIN b.conversions /\ r.id = id /\ RecipeInCommit(w, id) = r
    BY <1>1, <1>2 DEF Holds
  <2>2. /\ r.to.key = k /\ r.to.node \in DOMAIN b.descriptors
        /\ r.to.key \in b.descriptors[r.to.node].value.serves
        /\ r.built = b.descriptors[r.to.node].value
    BY <2>1 DEF Sound, Buildable
  <2> HIDE DEF r, k
  <2>3. Fits(w, r)
    BY <2>2 DEF Fits, NodesStaged
  <2> QED
    BY <1>1, <2>1, <2>2, <2>3 DEF k
<1>5. Owned(w)
  BY <1>1 DEF Sound, Owned
<1>6. w.c.reverse = Index(NodeOf(w))
  <2> DEFINE node == [id \in DOMAIN b.registrations |-> b.conversions[b.registrations[id]].to.node]
  <2>1. NodeOf(w) = node
    BY <1>1, <1>2 DEF NodeOf
  <2> QED
    BY <1>1, <2>1 DEF Sound
<1>7. Tokens(ops, w)
  BY <1>1 DEF Tokens, HandedOut
<1>8. Displaced(ops, 0, w)
  BY <1>1 DEF Displaced
<1> QED
  BY <1>3, <1>4, <1>5, <1>6, <1>7, <1>8 DEF Staged

\* What the rebuild leaves of the recipes.
SameRecipes(w, v) ==
    /\ DOMAIN v.c.conversions = DOMAIN w.c.conversions
    /\ \A k \in DOMAIN w.c.conversions :
           /\ v.c.conversions[k].id = w.c.conversions[k].id
           /\ v.c.conversions[k].to = w.c.conversions[k].to

\* It rebuilds the stale ones and leaves the others.
LEMMA RebuildEffect ==
    ASSUME NEW w, NEW v, v = RebuildRecipes(w), WorkShape(w), ~w.failed, ~v.failed
    PROVE  /\ WorkShape(v) /\ Untouched(w, v) /\ IdsKept(w, v)
           /\ v.c.registrations = w.c.registrations /\ v.c.reverse = w.c.reverse
           /\ v.displaced = w.displaced
           /\ SameRecipes(w, v)
           /\ \A k \in Stale(w) :
                  /\ Buildable(w.c, w.c.conversions[k].to)
                  /\ v.c.conversions[k].built =
                         w.c.descriptors[w.c.conversions[k].to.node].value
           /\ \A k \in DOMAIN w.c.conversions :
                  k \notin Stale(w) => v.c.conversions[k] = w.c.conversions[k]
<1> DEFINE conv == [k \in DOMAIN w.c.conversions |->
                     IF k \in Stale(w)
                       THEN BuiltRecipe(w.c, w.c.conversions[k].to, w.c.conversions[k].id)
                       ELSE w.c.conversions[k]]
<1>1. /\ \A k \in Stale(w) : Buildable(w.c, w.c.conversions[k].to)
      /\ v = [w EXCEPT !.c.conversions = conv]
  BY DEF RebuildRecipes, WorkShape, Shape
<1>2. /\ DOMAIN conv = DOMAIN w.c.conversions
      /\ \A k \in DOMAIN w.c.conversions :
            /\ conv[k].id = w.c.conversions[k].id /\ conv[k].to = w.c.conversions[k].to
            /\ k \in Stale(w) => conv[k].built = w.c.descriptors[w.c.conversions[k].to.node].value
            /\ k \notin Stale(w) => conv[k] = w.c.conversions[k]
  BY DEF BuiltRecipe
<1>3. Stale(w) \subseteq DOMAIN w.c.conversions
  BY DEF Stale
<1> HIDE DEF conv
<1>4. v = Rewritten(w, w.displaced, conv, w.c.registrations, w.c.reverse,
                    w.c.exhausted, w.c.next_registration)
  <2>1. v.types = w.types /\ v.displaced = w.displaced /\ v.failed = w.failed
        /\ v = [c |-> v.c, types |-> v.types, displaced |-> v.displaced, failed |-> v.failed]
    BY <1>1 DEF WorkShape
  <2>2. v.c = [w.c EXCEPT !.conversions = conv]
    BY <1>1 DEF WorkShape
  <2> QED
    BY <2>1, <2>2 DEF WorkShape, Shape, Rewritten
<1>5. /\ WorkShape(v) /\ Untouched(w, v) /\ IdsKept(w, v) /\ v.displaced = w.displaced
      /\ v.c.conversions = conv /\ v.c.registrations = w.c.registrations
      /\ v.c.reverse = w.c.reverse
  <2>1. /\ DOMAIN w.c.registrations \subseteq Nat
        /\ w.c.exhausted \in BOOLEAN /\ w.c.next_registration \in Nat
    BY DEF WorkShape, Shape
  <2> QED
    BY <1>4, <2>1, RewrittenIs DEF IdsKept
<1> QED
  BY <1>1, <1>2, <1>3, <1>5 DEF SameRecipes

\* The rebuild of the recipes of touched node types makes the catalog sound.
LEMMA Rebuilt ==
    ASSUME NEW ops, NEW n, NEW w, NEW v, v = RebuildRecipes(w),
           WorkShape(w), Staged(ops, n, w), DOMAIN w.displaced = {}, ~w.failed, ~v.failed
    PROVE  WorkShape(v) /\ Sound(v.c) /\ Untouched(w, v) /\ IdsKept(w, v)
<1>1. /\ WorkShape(v) /\ Untouched(w, v) /\ IdsKept(w, v)
      /\ v.c.registrations = w.c.registrations /\ v.c.reverse = w.c.reverse
      /\ SameRecipes(w, v)
      /\ \A k \in Stale(w) :
             /\ Buildable(w.c, w.c.conversions[k].to)
             /\ v.c.conversions[k].built =
                    w.c.descriptors[w.c.conversions[k].to.node].value
      /\ \A k \in DOMAIN w.c.conversions :
             k \notin Stale(w) => v.c.conversions[k] = w.c.conversions[k]
  BY RebuildEffect
<1>2. ASSUME NEW id \in DOMAIN w.c.registrations
      PROVE  /\ Holds(w.c, w.c.registrations[id], id) /\ HandedOut(w.c, id)
             /\ RecipeInCommit(w, id) = w.c.conversions[w.c.registrations[id]]
  BY DEF Staged, Accounted, HasRecipe, RecipeInCommit
<1>3. ASSUME NEW id \in DOMAIN v.c.registrations
      PROVE  Holds(v.c, v.c.registrations[id], id) /\ HandedOut(v.c, id)
  <2>1. v.c.registrations[id] = w.c.registrations[id]
        /\ Holds(w.c, w.c.registrations[id], id) /\ HandedOut(w.c, id)
    BY <1>1, <1>2
  <2>2. Holds(v.c, v.c.registrations[id], id)
    BY <1>1, <2>1 DEF Holds, SameRecipes
  <2>3. HandedOut(v.c, id)
    BY <1>1, <2>1 DEF HandedOut, IdsKept
  <2> QED
    BY <2>2, <2>3
<1>4. ASSUME NEW k \in DOMAIN w.c.conversions
      PROVE  LET r == w.c.conversions[k]
                 s == v.c.conversions[k]
             IN  /\ s.id \in DOMAIN v.c.registrations /\ v.c.registrations[s.id] = k
                 /\ s.to.key = k
                 /\ Buildable(v.c, s.to)
                 /\ s.built = v.c.descriptors[s.to.node].value
  <2> DEFINE r == w.c.conversions[k]
             s == v.c.conversions[k]
  <2>1. s.id = r.id /\ s.to = r.to /\ v.c.descriptors = w.c.descriptors
    BY <1>1 DEF SameRecipes, Untouched
  <2>2. r.id \in DOMAIN w.c.registrations /\ w.c.registrations[r.id] = k
    BY DEF Staged, Owned
  <2>3. r.to.key = k /\ Fits(w, r)
    BY <1>2, <2>2 DEF Staged, Recipes
  <2>4. Buildable(w.c, r.to) /\ s.built = w.c.descriptors[r.to.node].value
    <3>1. CASE k \in Stale(w)
      BY <1>1, <3>1
    <3>2. CASE k \notin Stale(w)
      <4>1. s = r
        BY <1>1, <3>2
      <4>2. CASE r.to.node \notin w.types
        BY <2>3, <4>1, <4>2 DEF Fits, Buildable
      <4>3. CASE r.to.node \in w.types
        <5>1. r.to.node \in DOMAIN w.c.reverse /\ r.id \in w.c.reverse[r.to.node]
          <6>1. r.id \in DOMAIN NodeOf(w) /\ NodeOf(w)[r.id] = r.to.node
            BY <1>2, <2>2 DEF NodeOf
          <6> HIDE DEF r
          <6> QED
            BY <6>1, IndexIs DEF Staged
        <5>2. r.id \in TouchedRegistrations(w)
          BY <4>3, <5>1 DEF TouchedRegistrations
        <5>3. k \in {w.c.registrations[id] : id \in TouchedRegistrations(w)}
          BY <2>2, <5>2
        <5>4. r.to.node \in DOMAIN w.c.descriptors /\ r.built = w.c.descriptors[r.to.node].value
          BY <3>2, <5>3 DEF Stale
        <5> QED
          BY <2>3, <4>1, <5>4 DEF Fits, Buildable
      <4> QED
        BY <4>2, <4>3
    <3> QED
      BY <3>1, <3>2
  <2>5. Buildable(v.c, s.to)
    BY <2>1, <2>4 DEF Buildable
  <2> QED
    BY <1>1, <2>1, <2>2, <2>3, <2>4, <2>5
<1>5. v.c.reverse =
       Index([id \in DOMAIN v.c.registrations |-> v.c.conversions[v.c.registrations[id]].to.node])
  <2> DEFINE node == [id \in DOMAIN v.c.registrations |-> v.c.conversions[v.c.registrations[id]].to.node]
  <2>1. node = NodeOf(w)
    <3>1. ASSUME NEW id \in DOMAIN w.c.registrations
          PROVE  v.c.conversions[w.c.registrations[id]].to = RecipeInCommit(w, id).to
      BY <1>1, <1>2 DEF SameRecipes, Holds
    <3> QED
      BY <1>1, <3>1 DEF NodeOf
  <2> QED
    BY <1>1, <2>1 DEF Staged
<1>6. Sound(v.c)
  <2>1. \A k \in DOMAIN v.c.conversions :
       LET r == v.c.conversions[k]
       IN /\ r.id \in DOMAIN v.c.registrations /\ v.c.registrations[r.id] = k
          /\ r.to.key = k
          /\ Buildable(v.c, r.to)
          /\ r.built = v.c.descriptors[r.to.node].value
    BY <1>1, <1>4 DEF SameRecipes
  <2> QED
    BY <1>3, <1>5, <2>1 DEF Sound
<1> QED
  BY <1>1, <1>6

\* What staging guarantees of an update.
Stageable(c, update) ==
    LET ops == update.conversions
    IN  /\ Len(update.nodes) \in Nat
        /\ Len(ops) \in Nat /\ DOMAIN ops = 1..Len(ops)
        /\ \A i \in DOMAIN ops :
              /\ ops[i].kind \in {"register", "unregister", "replace"}
              /\ ops[i].kind # "register" => ops[i].id \in Nat /\ HandedOut(c, ops[i].id)

\* The later of two states of the catalog.
Follows(c, d) ==
    /\ c.generation <= d.generation
    /\ c.node_revision <= d.node_revision
    /\ c.conversion_revision <= d.conversion_revision
    /\ c.next_registration <= d.next_registration
    /\ c.generation = d.generation => c = d
    /\ c.node_revision = d.node_revision => c.descriptors = d.descriptors
    /\ c.conversion_revision = d.conversion_revision =>
          c.conversions = d.conversions /\ c.compatibility = d.compatibility

\* The state in which a commit starts, and after the rebuild of the recipes.
Started(c) == [c |-> c, types |-> {}, displaced |-> EmptyFunction, failed |-> FALSE]
Finished(c, update) ==
    RebuildRecipes(ApplyConversionOperations(
        ApplyNodeOperations(Started(c), update.nodes), update.conversions))

\* An update of any length that no step refuses, before its values are compared.
LEMMA FinishedSound ==
    ASSUME NEW c, NEW update, Shape(c), Sound(c), Stageable(c, update),
           NEW done, done = Finished(c, update), ~done.failed
    PROVE  /\ Shape(done.c) /\ Sound(done.c)
           /\ done.c.compatibility = c.compatibility
           /\ done.c.generation = c.generation
           /\ done.c.node_revision = c.node_revision
           /\ done.c.conversion_revision = c.conversion_revision
           /\ c.next_registration <= done.c.next_registration
<1> DEFINE ops == update.conversions
           start == Started(c)
           noded == ApplyNodeOperations(start, update.nodes)
           moved == ApplyConversionOperations(noded, ops)
<1>1. WorkShape(start) /\ NodesStaged(c, start)
  BY DEF Started, WorkShape, NodesStaged, Shape, EmptyFunction
<1>2. WorkShape(noded) /\ (noded.failed \/ NodesStaged(c, noded))
  <2>1. Len(update.nodes) \in Nat
    BY DEF Stageable
  <2> HIDE DEF start
  <2> QED
    BY <1>1, <2>1, NodesDone
<1> HIDE DEF start, noded
<1>3. /\ Len(ops) \in Nat /\ DOMAIN ops = 1..Len(ops) /\ DOMAIN ops \subseteq Nat \ {0}
      /\ \A i \in DOMAIN ops : ops[i].kind \in {"register", "unregister", "replace"}
      /\ \A i \in DOMAIN ops : ops[i].kind # "register" =>
             ops[i].id \in Nat /\ HandedOut(c, ops[i].id)
  BY DEF Stageable
<1>4. noded.failed \/ Staged(ops, 0, noded)
  <2> HIDE DEF ops
  <2> QED
    BY <1>2, <1>3, ConversionsStart
<1>5. WorkShape(moved) /\
      (moved.failed \/ (/\ ~noded.failed /\ Staged(ops, Len(ops), moved) /\ Untouched(noded, moved)
                        /\ noded.c.next_registration <= moved.c.next_registration
                        /\ DOMAIN moved.displaced = {}))
  <2> HIDE DEF ops
  <2> QED
    BY <1>2, <1>3, <1>4, ConversionsDone
<1>6. done = RebuildRecipes(moved)
  BY DEF Finished, noded, start
<1> HIDE DEF moved, ops
<1>7. ~moved.failed
  BY <1>5, <1>6 DEF RebuildRecipes, WorkShape
<1>8. WorkShape(done) /\ Sound(done.c) /\ Untouched(moved, done) /\ IdsKept(moved, done)
  BY <1>5, <1>6, <1>7, Rebuilt
<1>9. /\ noded.c.compatibility = c.compatibility
      /\ noded.c.generation = c.generation
      /\ noded.c.node_revision = c.node_revision
      /\ noded.c.conversion_revision = c.conversion_revision
      /\ noded.c.next_registration = c.next_registration
  <2>1. noded.c = [c EXCEPT !.descriptors = noded.c.descriptors]
    BY <1>2, <1>5, <1>7 DEF NodesStaged
  <2> QED
    BY <2>1 DEF Shape
<1> QED
  BY <1>5, <1>7, <1>8, <1>9 DEF Untouched, IdsKept, WorkShape

\* Keeping older objects keeps the values.
LEMMA DescriptorsKept ==
    ASSUME NEW before, NEW after, NEW d, d = KeepEqualDescriptors(before, after)
    PROVE  DOMAIN d = DOMAIN after /\ \A t \in DOMAIN after : d[t].value = after[t].value
  BY DEF KeepEqualDescriptors

\* The same of recipes.
LEMMA RecipesKept ==
    ASSUME NEW before, NEW after, NEW d, d = KeepEqualRecipes(before, after)
    PROVE  /\ DOMAIN d = DOMAIN after
           /\ \A k \in DOMAIN after :
                d[k].id = after[k].id /\ d[k].to = after[k].to /\ d[k].built = after[k].built
  BY DEF KeepEqualRecipes, SameRecipeValue

\* Soundness reads values only, so equal values may keep the older object.
LEMMA SoundByValue ==
    ASSUME NEW c, NEW d, Sound(c),
           d.registrations = c.registrations, d.reverse = c.reverse,
           d.exhausted = c.exhausted, d.next_registration = c.next_registration,
           DOMAIN d.descriptors = DOMAIN c.descriptors,
           \A t \in DOMAIN c.descriptors : d.descriptors[t].value = c.descriptors[t].value,
           DOMAIN d.conversions = DOMAIN c.conversions,
           \A k \in DOMAIN c.conversions :
              /\ d.conversions[k].id = c.conversions[k].id
              /\ d.conversions[k].to = c.conversions[k].to
              /\ d.conversions[k].built = c.conversions[k].built
    PROVE  Sound(d)
<1>1. ASSUME NEW id \in DOMAIN d.registrations
      PROVE  /\ Holds(d, d.registrations[id], id) /\ HandedOut(d, id)
             /\ d.registrations[id] \in DOMAIN c.conversions
  BY DEF Sound, Holds, HandedOut
<1>2. ASSUME NEW k \in DOMAIN d.conversions
      PROVE  LET r == d.conversions[k]
             IN /\ r.id \in DOMAIN d.registrations /\ d.registrations[r.id] = k
                /\ r.to.key = k
                /\ Buildable(d, r.to)
                /\ r.built = d.descriptors[r.to.node].value
  <2> DEFINE s == c.conversions[k]
  <2>1. /\ s.id \in DOMAIN c.registrations /\ c.registrations[s.id] = k
        /\ s.to.key = k
        /\ Buildable(c, s.to)
        /\ s.built = c.descriptors[s.to.node].value
    BY DEF Sound
  <2>2. d.conversions[k].id = s.id /\ d.conversions[k].to = s.to /\ d.conversions[k].built = s.built
    OBVIOUS
  <2> HIDE DEF s
  <2> QED
    BY <2>1, <2>2 DEF Buildable
<1>3. [id \in DOMAIN d.registrations |-> d.conversions[d.registrations[id]].to.node]
      = [id \in DOMAIN c.registrations |-> c.conversions[c.registrations[id]].to.node]
  BY <1>1
<1>4. d.reverse =
       Index([id \in DOMAIN d.registrations |-> d.conversions[d.registrations[id]].to.node])
  BY <1>3 DEF Sound
<1> QED
  BY <1>1, <1>2, <1>4 DEF Sound

\* An update of node types that changes no recipe.
LEMMA SoundBeside ==
    ASSUME NEW c, NEW e, NEW d, Sound(c), Sound(e),
           d.registrations = c.registrations, d.reverse = c.reverse,
           d.exhausted = c.exhausted, d.next_registration = c.next_registration,
           d.conversions = c.conversions,
           DOMAIN d.descriptors = DOMAIN e.descriptors,
           \A t \in DOMAIN e.descriptors : d.descriptors[t].value = e.descriptors[t].value,
           DOMAIN c.conversions = DOMAIN e.conversions,
           \A k \in DOMAIN e.conversions :
              /\ c.conversions[k].to = e.conversions[k].to
              /\ c.conversions[k].built = e.conversions[k].built
    PROVE  Sound(d)
<1>1. ASSUME NEW id \in DOMAIN d.registrations
      PROVE  Holds(d, d.registrations[id], id) /\ HandedOut(d, id)
  <2>1. Holds(c, c.registrations[id], id) /\ HandedOut(c, id)
    BY DEF Sound
  <2> QED
    BY <2>1 DEF Holds, HandedOut
<1>2. ASSUME NEW k \in DOMAIN d.conversions
      PROVE  LET r == d.conversions[k]
             IN /\ r.id \in DOMAIN d.registrations /\ d.registrations[r.id] = k
                /\ r.to.key = k
                /\ Buildable(d, r.to)
                /\ r.built = d.descriptors[r.to.node].value
  <2> DEFINE r == c.conversions[k]
             s == e.conversions[k]
  <2>1. /\ r.id \in DOMAIN c.registrations /\ c.registrations[r.id] = k
        /\ r.to.key = k
    BY DEF Sound
  <2>2. Buildable(e, s.to) /\ s.built = e.descriptors[s.to.node].value
    BY DEF Sound
  <2>3. r.to = s.to /\ r.built = s.built /\ d.conversions[k] = r
    OBVIOUS
  <2> HIDE DEF r, s
  <2> QED
    BY <2>1, <2>2, <2>3 DEF Buildable
<1>3. d.reverse =
       Index([id \in DOMAIN d.registrations |-> d.conversions[d.registrations[id]].to.node])
  BY DEF Sound
<1> QED
  BY <1>1, <1>2, <1>3 DEF Sound

\* The state that is published.
Changed(c, descriptors, conversions, compatibility, node, conversion) ==
    [c EXCEPT !.descriptors = descriptors, !.conversions = conversions,
              !.compatibility = compatibility,
              !.node_revision = IF node THEN @ + 1 ELSE @,
              !.conversion_revision = IF conversion THEN @ + 1 ELSE @,
              !.generation = @ + 1]

\* What it holds.
LEMMA ChangedIs ==
    ASSUME NEW c, Shape(c), NEW descriptors, NEW conversions, NEW compatibility,
           NEW node \in BOOLEAN, NEW conversion \in BOOLEAN,
           NEW d, d = Changed(c, descriptors, conversions, compatibility, node, conversion)
    PROVE  /\ Shape(d)
           /\ d.descriptors = descriptors /\ d.conversions = conversions
           /\ d.compatibility = compatibility
           /\ d.registrations = c.registrations /\ d.reverse = c.reverse
           /\ d.exhausted = c.exhausted /\ d.next_registration = c.next_registration
           /\ d.generation = c.generation + 1
           /\ d.node_revision = IF node THEN c.node_revision + 1 ELSE c.node_revision
           /\ d.conversion_revision =
                 IF conversion THEN c.conversion_revision + 1 ELSE c.conversion_revision
<1> DEFINE nr == IF node THEN c.node_revision + 1 ELSE c.node_revision
           cr == IF conversion THEN c.conversion_revision + 1 ELSE c.conversion_revision
           g == c.generation + 1
<1>1. nr \in Nat /\ cr \in Nat /\ g \in Nat
  BY DEF Shape
<1>2. d = [c EXCEPT !.descriptors = descriptors, !.conversions = conversions,
                    !.compatibility = compatibility, !.node_revision = nr,
                    !.conversion_revision = cr, !.generation = g]
  BY DEF Changed, Shape
<1> HIDE DEF nr, cr, g
<1>3. d = [descriptors |-> descriptors, conversions |-> conversions,
            registrations |-> c.registrations, reverse |-> c.reverse,
            compatibility |-> compatibility, node_revision |-> nr,
            conversion_revision |-> cr,
            next_registration |-> c.next_registration, exhausted |-> c.exhausted,
            generation |-> g]
  BY <1>2 DEF Shape
<1> QED
  BY <1>1, <1>3 DEF Shape, nr, cr, g

\* A commit, refused or not, leaves a sound catalog that follows the one before.
LEMMA CommitOutcome ==
    ASSUME NEW c, NEW update, Shape(c), Sound(c), Stageable(c, update),
           NEW d, d = CommitResult(c, update)
    PROVE  Shape(d) /\ Sound(d) /\ Follows(c, d)
<1>0. {c.generation, c.node_revision, c.conversion_revision, c.next_registration} \subseteq Nat
  BY DEF Shape
<1>1. CASE d = c
  BY <1>0, <1>1 DEF Follows
<1>2. CASE d # c
  <2> DEFINE done == Finished(c, update)
             descriptors == KeepEqualDescriptors(c.descriptors, done.c.descriptors)
             recipes == KeepEqualRecipes(c.conversions, done.c.conversions)
             compatibility == IF update.compatibility = {} THEN c.compatibility
                              ELSE CHOOSE to \in update.compatibility : TRUE
             compatibility_set == update.compatibility # {}
                                    /\ ~(compatibility = Nothing /\ c.compatibility = Nothing)
             node_changed == c.descriptors # descriptors
             conversion_changed == recipes # c.conversions \/ compatibility_set
  <2>1. /\ ~done.failed
        /\ d = Changed(IF conversion_changed THEN done.c ELSE c,
                       descriptors, recipes, compatibility, node_changed, conversion_changed)
    BY <1>2 DEF CommitResult, Finished, Started, NodesDiffer, Changed
  <2>2. /\ DOMAIN descriptors = DOMAIN done.c.descriptors
        /\ \A t \in DOMAIN done.c.descriptors : descriptors[t].value = done.c.descriptors[t].value
    BY DescriptorsKept
  <2>3. /\ DOMAIN recipes = DOMAIN done.c.conversions
        /\ \A k \in DOMAIN done.c.conversions :
             /\ recipes[k].id = done.c.conversions[k].id
             /\ recipes[k].to = done.c.conversions[k].to
             /\ recipes[k].built = done.c.conversions[k].built
    BY RecipesKept
  <2>4. /\ node_changed \in BOOLEAN /\ conversion_changed \in BOOLEAN
        /\ ~node_changed => descriptors = c.descriptors
        /\ ~conversion_changed => recipes = c.conversions /\ compatibility = c.compatibility
    OBVIOUS
  <2> HIDE DEF descriptors, recipes, compatibility, node_changed, conversion_changed, done
  <2>5. /\ Shape(done.c) /\ Sound(done.c)
        /\ done.c.compatibility = c.compatibility
        /\ done.c.generation = c.generation
        /\ done.c.node_revision = c.node_revision
        /\ done.c.conversion_revision = c.conversion_revision
        /\ c.next_registration <= done.c.next_registration
    BY <2>1, FinishedSound DEF done
  <2> DEFINE base == IF conversion_changed THEN done.c ELSE c
  <2>6. /\ Shape(d)
        /\ d.descriptors = descriptors /\ d.conversions = recipes
        /\ d.compatibility = compatibility
        /\ d.registrations = base.registrations /\ d.reverse = base.reverse
        /\ d.exhausted = base.exhausted /\ d.next_registration = base.next_registration
        /\ d.generation = base.generation + 1
        /\ d.node_revision = IF node_changed THEN base.node_revision + 1 ELSE base.node_revision
        /\ d.conversion_revision =
              IF conversion_changed THEN base.conversion_revision + 1 ELSE base.conversion_revision
    <3>1. Shape(base)
      BY <2>5
    <3> HIDE DEF base
    <3> QED
      BY <2>1, <2>4, <3>1, ChangedIs DEF base
  <2>7. Sound(d)
    <3>1. CASE conversion_changed
      BY <2>2, <2>3, <2>5, <2>6, <3>1, SoundByValue
    <3>2. CASE ~conversion_changed
      BY <2>2, <2>3, <2>4, <2>5, <2>6, <3>2, SoundBeside
    <3> QED
      BY <3>1, <3>2
  <2>8. Follows(c, d)
    <3>1. /\ base.generation = c.generation /\ base.node_revision = c.node_revision
          /\ base.conversion_revision = c.conversion_revision
          /\ c.next_registration <= base.next_registration
      BY <1>0, <2>5
    <3> HIDE DEF base
    <3> QED
      BY <1>0, <2>4, <2>6, <3>1 DEF Follows
  <2> QED
    BY <2>6, <2>7, <2>8
<1> QED
  BY <1>1, <1>2

-----------------------------------------------------------------------------
(* The catalog                                                             *)

\* Following is an order.
LEMMA FollowsTransitive ==
    ASSUME NEW c, NEW d, NEW e, Shape(c), Shape(d), Shape(e), Follows(c, d), Follows(d, e)
    PROVE  Follows(c, e)
<1>1. /\ {c.generation, c.node_revision, c.conversion_revision, c.next_registration} \subseteq Nat
      /\ {d.generation, d.node_revision, d.conversion_revision, d.next_registration} \subseteq Nat
      /\ {e.generation, e.node_revision, e.conversion_revision, e.next_registration} \subseteq Nat
  BY DEF Shape
<1>2. /\ c.generation <= e.generation /\ c.node_revision <= e.node_revision
      /\ c.conversion_revision <= e.conversion_revision
      /\ c.next_registration <= e.next_registration
      /\ c.generation = e.generation => c.generation = d.generation /\ d.generation = e.generation
      /\ c.node_revision = e.node_revision =>
            c.node_revision = d.node_revision /\ d.node_revision = e.node_revision
      /\ c.conversion_revision = e.conversion_revision =>
            c.conversion_revision = d.conversion_revision /\ d.conversion_revision = e.conversion_revision
  BY <1>1 DEF Follows
<1> QED
  BY <1>2 DEF Follows

\* ... and reflexive.
LEMMA FollowsItself ==
    ASSUME NEW c, Shape(c)
    PROVE  Follows(c, c)
<1>1. {c.generation, c.node_revision, c.conversion_revision, c.next_registration} \subseteq Nat
  BY DEF Shape
<1> QED
  BY <1>1 DEF Follows

\* What is staged is a list.
LEMMA UpToIs ==
    ASSUME NEW n \in Nat, NEW S, NEW s \in UpTo(n, S)
    PROVE  Len(s) \in Nat /\ DOMAIN s = 1..Len(s) /\ \A i \in DOMAIN s : s[i] \in S
<1>1. PICK m \in 0..n : s \in [1..m -> S]
  BY DEF UpTo
<1>2. s \in Seq(S) /\ m \in Nat
  BY <1>1
<1> QED
  BY <1>1, <1>2

\* Tokens of this catalog and lists of operations: what the commit relies on.
LEMMA UpdatesStageable ==
    ASSUME NEW n \in Nat, NEW update \in Updates(n), TokensExist(update.conversions)
    PROVE  Stageable(catalog, update)
<1> DEFINE ops == update.conversions
<1>1. update.nodes \in UpTo(n, NodeOperations) /\ ops \in UpTo(n, ConversionOperations)
  BY DEF Updates
<1>2. Len(update.nodes) \in Nat
  BY <1>1, UpToIs
<1>3. Len(ops) \in Nat /\ DOMAIN ops = 1..Len(ops) /\ \A i \in DOMAIN ops : ops[i] \in ConversionOperations
  <2> HIDE DEF ops
  <2> QED
    BY <1>1, UpToIs
<1>4. ASSUME NEW op \in ConversionOperations
      PROVE  /\ op.kind \in {"register", "unregister", "replace"}
             /\ op.kind # "register" => op.id \in Nat
  BY CatalogAssumption DEF ConversionOperations, Ids
<1> QED
  BY <1>2, <1>3, <1>4 DEF Stageable, TokensExist

\* The inductive invariant of the catalog.
CatalogInv == Shape(catalog) /\ Sound(catalog)

\* The empty catalog is sound.
LEMMA InitCatalog == CatalogInit => CatalogInv
<1> SUFFICES ASSUME catalog = EmptyCatalog PROVE CatalogInv
  BY DEF CatalogInit
<1>1. Shape(catalog)
  BY DEF EmptyCatalog, EmptyFunction, Shape
<1>2. /\ DOMAIN catalog.registrations = {} /\ DOMAIN catalog.conversions = {}
      /\ catalog.reverse = EmptyFunction
  BY DEF EmptyCatalog, EmptyFunction
<1>3. Index([id \in {} |-> catalog.conversions[catalog.registrations[id]].to.node]) = EmptyFunction
  BY DEF Index, EmptyFunction
<1>4. Sound(catalog)
  BY <1>2, <1>3 DEF Sound
<1> QED
  BY <1>1, <1>4 DEF CatalogInv

\* A publication keeps the catalog sound.
LEMMA PublishedKeeps ==
    ASSUME NEW n \in Nat, NEW update \in Updates(n), TokensExist(update.conversions),
           Published(update), CatalogInv
    PROVE  CatalogInv' /\ Follows(catalog, catalog')
  BY UpdatesStageable, CommitOutcome DEF Published, CatalogInv

\* ... and so does every step.
LEMMA StepCatalog ==
    ASSUME CatalogInv, [CatalogNext]_catalog_vars
    PROVE  CatalogInv' /\ Follows(catalog, catalog')
<1>1. CASE UNCHANGED catalog
  BY <1>1, FollowsItself DEF CatalogInv
<1>2. ASSUME NEW update \in Updates(MaxStaged), CommitUpdate(update)
      PROVE  CatalogInv' /\ Follows(catalog, catalog')
  BY <1>1, <1>2, PublishedKeeps, CatalogAssumption DEF CommitUpdate
<1>3. ASSUME NEW update \in Updates(1), UpdateDirectly(update)
      PROVE  CatalogInv' /\ Follows(catalog, catalog')
  BY <1>3, PublishedKeeps DEF UpdateDirectly
<1>4. CASE BeginUpdate
  BY <1>1, <1>4 DEF BeginUpdate
<1>5. CASE StageInvalid
  BY <1>1, <1>5 DEF StageInvalid
<1>6. CASE Invoke
  BY <1>1, <1>6 DEF Invoke
<1>7. ASSUME NEW read \in Reads, Read(read)
      PROVE  CatalogInv' /\ Follows(catalog, catalog')
  BY <1>1, <1>7 DEF Read
<1>8. CASE SealDependencies
  BY <1>1, <1>8 DEF SealDependencies
<1>9. CASE DiscardUpdate
  BY <1>1, <1>9 DEF DiscardUpdate
<1> QED
  BY <1>1, <1>2, <1>3, <1>4, <1>5, <1>6, <1>7, <1>8, <1>9 DEF CatalogNext, catalog_vars

\* Registrations, recipes and the reverse index agree entry by entry, and every
\* recipe was built from the descriptor of now, after any sequence of updates that
\* swap keys or displace one another (RegistryUpdate::Commit).
THEOREM CatalogStaysSound == CatalogSpec => []CatalogSound
<1>1. CatalogInit => CatalogInv
  BY InitCatalog
<1>2. CatalogInv /\ [CatalogNext]_catalog_vars => CatalogInv'
  BY StepCatalog
<1>3. CatalogInv => CatalogSound
  BY DEF CatalogInv, CatalogSound
<1> QED
  BY <1>1, <1>2, <1>3, PTL DEF CatalogSpec

-----------------------------------------------------------------------------
(* What was read                                                           *)

\* The recorder is the record that Invoke makes.
RecorderShape(r) ==
    \/ r = NoRecorder
    \/ /\ r = [active |-> r.active, sealed |-> r.sealed, state |-> r.state,
               nodes |-> r.nodes, all_nodes |-> r.all_nodes, recipes |-> r.recipes,
               all_recipes |-> r.all_recipes, compatibility |-> r.compatibility,
               node_revision |-> r.node_revision, conversion_revision |-> r.conversion_revision,
               generation |-> r.generation, reads |-> r.reads]
       /\ r.active = TRUE
       /\ {r.sealed, r.all_nodes, r.all_recipes, r.compatibility, r.node_revision,
           r.conversion_revision, r.generation} \subseteq BOOLEAN
       /\ r.reads \subseteq Reads

\* Every read left its mark.
Recorded(r, read) ==
    CASE read.kind = "find" -> r.all_nodes \/ read.type \in r.nodes
      [] read.kind = "descriptors" -> r.all_nodes
      [] read.kind = "node_revision" -> r.node_revision
      [] read.kind = "conversion_revision" -> r.conversion_revision
      [] read.kind = "generation" -> r.generation
      [] read.kind = "check" ->
            LET pair == read.pair
            IN  pair[1] = pair[2] \/
                /\ r.compatibility
                /\ \/ Accepts(r.state, pair[1], pair[2])
                   \/ r.all_recipes
                   \/ /\ pair \in r.recipes
                      /\ pair \in DOMAIN r.state.conversions \/ r.state.compatibility = Nothing
      [] read.kind = "recipe" -> read.key \in r.recipes

\* Marks stay.
Grows(r, s) ==
    /\ s.state = r.state
    /\ \A t \in r.nodes : s.all_nodes \/ t \in s.nodes
    /\ r.recipes \subseteq s.recipes
    /\ r.all_nodes => s.all_nodes
    /\ r.all_recipes => s.all_recipes
    /\ r.compatibility => s.compatibility
    /\ r.node_revision => s.node_revision
    /\ r.conversion_revision => s.conversion_revision
    /\ r.generation => s.generation

Kinds == {"find", "descriptors", "node_revision", "conversion_revision", "generation",
          "check", "recipe"}

\* The kinds of reads.
LEMMA ReadKinds ==
    ASSUME NEW read \in Reads
    PROVE  read.kind \in Kinds
  BY DEF Reads, Kinds

\* What was recorded stays recorded.
LEMMA RecordedStays ==
    ASSUME NEW r, NEW s, Grows(r, s), NEW read \in Reads, Recorded(r, read)
    PROVE  Recorded(s, read)
<1> read.kind \in Kinds
  BY ReadKinds
<1>1. CASE read.kind = "check"
  BY <1>1 DEF Grows, Recorded
<1>2. CASE read.kind # "check"
  BY <1>2 DEF Grows, Recorded, Kinds
<1> QED
  BY <1>1, <1>2

\* A read adds its mark and takes none away.
LEMMA RecordEffect ==
    ASSUME NEW r, RecorderShape(r), r.active, NEW read \in Reads, NEW s, s = Record(r, read)
    PROVE  /\ RecorderShape(s) /\ s.active /\ s.reads = r.reads
           /\ Grows(r, s)
           /\ Recorded(s, read)
<1>1. read.kind \in Kinds
  BY ReadKinds
<1>2. r # NoRecorder
  BY DEF NoRecorder
<1>3. CASE read.kind = "find"
  <2>1. s = RecordNode(r, read.type)
    BY <1>3 DEF Record
  <2>2. \/ s = r /\ (r.all_nodes \/ read.type \in r.nodes)
        \/ s = [r EXCEPT !.all_nodes = TRUE, !.nodes = {}]
        \/ s = [r EXCEPT !.nodes = @ \cup {read.type}]
    BY <2>1 DEF RecordNode, RecordAllNodes
  <2>3. CASE s = r /\ (r.all_nodes \/ read.type \in r.nodes)
    BY <1>2, <1>3, <2>3 DEF RecorderShape, Grows, Recorded
  <2>4. CASE s = [r EXCEPT !.all_nodes = TRUE, !.nodes = {}]
    BY <1>2, <1>3, <2>4 DEF RecorderShape, Grows, Recorded
  <2>5. CASE s = [r EXCEPT !.nodes = @ \cup {read.type}]
    BY <1>2, <1>3, <2>5 DEF RecorderShape, Grows, Recorded
  <2> QED
    BY <2>2, <2>3, <2>4, <2>5
<1>4. CASE read.kind = "check"
  <2> DEFINE pair == read.pair
             asked == [r EXCEPT !.compatibility = TRUE]
  <2>1. s = RecordCheck(r, pair)
    BY <1>4 DEF Record
  <2>2. CASE pair[1] = pair[2]
    BY <1>2, <1>4, <2>1, <2>2 DEF RecordCheck, RecorderShape, Grows, Recorded
  <2>3. CASE pair[1] # pair[2] /\ Accepts(r.state, pair[1], pair[2])
    <3>1. s = asked
      BY <2>1, <2>3 DEF RecordCheck
    <3>2. RecorderShape(s) /\ s.active /\ s.reads = r.reads /\ Grows(r, s) /\ s.compatibility
      BY <1>2, <3>1 DEF RecorderShape, Grows
    <3> QED
      BY <1>4, <2>3, <3>2 DEF Grows, Recorded
  <2>4. CASE /\ pair[1] # pair[2] /\ ~Accepts(r.state, pair[1], pair[2])
             /\ pair \in DOMAIN r.state.conversions \/ r.state.compatibility = Nothing
    <3>1. s = [asked EXCEPT !.recipes = @ \cup {pair}]
      BY <2>1, <2>4 DEF RecordCheck
    <3>2. /\ RecorderShape(s) /\ s.active /\ s.reads = r.reads /\ Grows(r, s)
          /\ s.compatibility /\ pair \in s.recipes
      BY <1>2, <3>1 DEF RecorderShape, Grows
    <3> QED
      BY <1>4, <2>4, <3>2 DEF Grows, Recorded
  <2>5. CASE /\ pair[1] # pair[2] /\ ~Accepts(r.state, pair[1], pair[2])
             /\ ~(pair \in DOMAIN r.state.conversions \/ r.state.compatibility = Nothing)
    <3>1. s = [asked EXCEPT !.all_recipes = TRUE]
      BY <2>1, <2>5 DEF RecordCheck
    <3>2. /\ RecorderShape(s) /\ s.active /\ s.reads = r.reads /\ Grows(r, s)
          /\ s.compatibility /\ s.all_recipes
      BY <1>2, <3>1 DEF RecorderShape, Grows
    <3> QED
      BY <1>4, <3>2 DEF Recorded
  <2> QED
    BY <2>2, <2>3, <2>4, <2>5
<1>5. CASE read.kind = "descriptors"
  <2>1. s = [r EXCEPT !.all_nodes = TRUE]
    BY <1>5 DEF Record
  <2>2. RecorderShape(s) /\ s.active /\ s.reads = r.reads /\ Grows(r, s) /\ s.all_nodes
    BY <1>2, <2>1 DEF RecorderShape, Grows
  <2> QED
    BY <1>5, <2>2 DEF Recorded
<1>6. CASE read.kind = "node_revision"
  <2>1. s = [r EXCEPT !.node_revision = TRUE]
    BY <1>6 DEF Record
  <2>2. RecorderShape(s) /\ s.active /\ s.reads = r.reads /\ Grows(r, s) /\ s.node_revision
    BY <1>2, <2>1 DEF RecorderShape, Grows
  <2> QED
    BY <1>6, <2>2 DEF Recorded
<1>7. CASE read.kind = "conversion_revision"
  <2>1. s = [r EXCEPT !.conversion_revision = TRUE]
    BY <1>7 DEF Record
  <2>2. RecorderShape(s) /\ s.active /\ s.reads = r.reads /\ Grows(r, s) /\ s.conversion_revision
    BY <1>2, <2>1 DEF RecorderShape, Grows
  <2> QED
    BY <1>7, <2>2 DEF Recorded
<1>8. CASE read.kind = "generation"
  <2>1. s = [r EXCEPT !.generation = TRUE]
    BY <1>8 DEF Record
  <2>2. RecorderShape(s) /\ s.active /\ s.reads = r.reads /\ Grows(r, s) /\ s.generation
    BY <1>2, <2>1 DEF RecorderShape, Grows
  <2> QED
    BY <1>8, <2>2 DEF Recorded
<1>9. CASE read.kind = "recipe"
  BY <1>2, <1>9 DEF Record, RecorderShape, Grows, Recorded
<1> QED
  BY <1>1, <1>3, <1>4, <1>5, <1>6, <1>7, <1>8, <1>9 DEF Kinds

\* A read whose marks are current has the answer it had.
LEMMA RecordedAnswers ==
    ASSUME NEW c, NEW r, DependenciesCurrent(c, r), NEW read \in Reads, Recorded(r, read)
    PROVE  Answer(c, read) = Answer(r.state, read)
<1>1. read.kind \in Kinds
  BY ReadKinds
<1>2. CASE read.kind = "find"
  BY <1>2 DEF DependenciesCurrent, Recorded, Answer, DescriptorOf
<1>3. CASE read.kind = "recipe"
  BY <1>3 DEF DependenciesCurrent, Recorded, Answer
<1>4. CASE read.kind \in {"descriptors", "node_revision", "conversion_revision", "generation"}
  BY <1>4 DEF DependenciesCurrent, Recorded, Answer
<1>5. CASE read.kind = "check"
  <2> DEFINE pair == read.pair
             b == r.state
  <2> SUFFICES ConnectionAnswer(c, pair) = ConnectionAnswer(b, pair)
    BY <1>5 DEF Answer
  <2>1. CASE pair[1] = pair[2]
    BY <2>1 DEF ConnectionAnswer, Accepts
  <2>2. CASE pair[1] # pair[2]
    <3>1. c.compatibility = b.compatibility
      BY <1>5, <2>2 DEF Recorded, DependenciesCurrent
    <3>2. \A x, y : Accepts(c, x, y) <=> Accepts(b, x, y)
      BY <3>1 DEF Accepts
    <3>3. CASE Accepts(b, pair[1], pair[2])
      BY <3>2, <3>3 DEF ConnectionAnswer
    <3>4. CASE r.all_recipes
      <4>1. c.conversions = b.conversions
        BY <3>4 DEF DependenciesCurrent
      <4>2. Fallbacks(c, pair) = Fallbacks(b, pair)
        BY <3>2, <4>1 DEF Fallbacks
      <4> QED
        BY <3>1, <3>2, <4>1, <4>2 DEF ConnectionAnswer
    <3>5. CASE /\ ~Accepts(b, pair[1], pair[2])
               /\ pair \in r.recipes
               /\ pair \in DOMAIN b.conversions \/ b.compatibility = Nothing
      <4>1. RecipeAt(c, pair) = RecipeAt(b, pair)
        BY <3>5 DEF DependenciesCurrent
      <4>2. pair \in DOMAIN b.conversions => RecipeAt(b, pair) = {b.conversions[pair]}
        BY DEF RecipeAt
      <4>3. pair \in DOMAIN c.conversions => RecipeAt(c, pair) = {c.conversions[pair]}
        BY DEF RecipeAt
      <4>4. /\ pair \notin DOMAIN b.conversions => RecipeAt(b, pair) = {}
            /\ pair \notin DOMAIN c.conversions => RecipeAt(c, pair) = {}
        BY DEF RecipeAt
      <4>5. CASE pair \in DOMAIN b.conversions
        <5>1. pair \in DOMAIN c.conversions /\ c.conversions[pair] = b.conversions[pair]
          BY <4>1, <4>2, <4>3, <4>4, <4>5
        <5> QED
          BY <3>2, <3>5, <4>5, <5>1 DEF ConnectionAnswer
      <4>6. CASE pair \notin DOMAIN b.conversions
        <5>1. pair \notin DOMAIN c.conversions
          BY <4>1, <4>3, <4>4, <4>6
        <5> QED
          BY <3>1, <3>2, <3>5, <4>6, <5>1 DEF ConnectionAnswer
      <4> QED
        BY <4>5, <4>6
    <3> QED
      BY <1>5, <2>2, <3>3, <3>4, <3>5 DEF Recorded
  <2> QED
    BY <2>1, <2>2
<1> QED
  BY <1>1, <1>2, <1>3, <1>4, <1>5 DEF Kinds

\* What holds of the recorder of an invocation or of a prepared command.
RecorderInv ==
    /\ RecorderShape(recorder)
    /\ recorder.active =>
          /\ Shape(recorder.state)
          /\ Follows(recorder.state, catalog)
          /\ \A read \in recorder.reads : Recorded(recorder, read)

\* At first nothing is recorded.
LEMMA InitRecorder == CatalogInit => RecorderInv
  BY DEF CatalogInit, RecorderInv, RecorderShape, NoRecorder

\* The recorder stays as it is while the catalog moves on.
LEMMA RecorderFollows ==
    ASSUME CatalogInv, RecorderInv, CatalogInv', Follows(catalog, catalog'), UNCHANGED recorder
    PROVE  RecorderInv'
  BY FollowsTransitive DEF CatalogInv, RecorderInv

\* Every step keeps it, reads and publications alike.
LEMMA StepRecorder ==
    ASSUME CatalogInv, RecorderInv, [CatalogNext]_catalog_vars
    PROVE  RecorderInv'
<1>1. CatalogInv' /\ Follows(catalog, catalog')
  BY StepCatalog
<1>2. CASE UNCHANGED recorder
  BY <1>1, <1>2, RecorderFollows
<1>3. CASE Invoke
  <2>1. recorder'.active /\ recorder'.state = catalog /\ catalog' = catalog /\ recorder'.reads = {}
    BY <1>3 DEF Invoke
  <2>2. RecorderShape(recorder)'
    BY <1>3 DEF Invoke, RecorderShape
  <2>3. Follows(catalog, catalog)
    BY FollowsItself DEF CatalogInv
  <2> QED
    BY <2>1, <2>2, <2>3 DEF RecorderInv, CatalogInv
<1>4. ASSUME NEW read \in Reads, Read(read) PROVE RecorderInv'
  <2> DEFINE s == Record(recorder, read)
  <2>1. /\ recorder.active /\ catalog' = catalog
        /\ recorder' = [s EXCEPT !.reads = @ \cup {read}]
    BY <1>4 DEF Read
  <2>2. /\ RecorderShape(s) /\ s.active /\ s.reads = recorder.reads
        /\ Grows(recorder, s) /\ Recorded(s, read)
    BY <2>1, RecordEffect DEF RecorderInv
  <2> HIDE DEF s
  <2>3. /\ recorder'.active /\ recorder'.state = s.state
        /\ recorder'.reads = s.reads \cup {read}
        /\ RecorderShape(recorder')
        /\ Grows(s, recorder')
    BY <2>1, <2>2 DEF RecorderShape, NoRecorder, Grows
  <2>4. ASSUME NEW old \in recorder'.reads PROVE Recorded(recorder', old)
    <3>1. old \in Reads /\ Recorded(s, old)
      <4>1. CASE old = read
        BY <2>2, <4>1
      <4>2. CASE old # read
        <5>1. old \in recorder.reads /\ old \in Reads
          BY <2>1, <2>2, <2>3, <2>4, <4>2 DEF RecorderInv, RecorderShape, NoRecorder
        <5> QED
          BY <2>1, <2>2, <5>1, RecordedStays DEF RecorderInv
      <4> QED
        BY <4>1, <4>2
    <3> QED
      BY <2>3, <3>1, RecordedStays
  <2>5. recorder'.state = recorder.state
    BY <2>2, <2>3 DEF Grows
  <2> QED
    BY <2>1, <2>3, <2>4, <2>5 DEF RecorderInv
<1>5. CASE SealDependencies
  <2>1. recorder.active /\ catalog' = catalog /\ recorder' = [recorder EXCEPT !.sealed = TRUE]
    BY <1>5 DEF SealDependencies
  <2>2. /\ RecorderShape(recorder') /\ recorder'.active
        /\ recorder'.reads = recorder.reads /\ recorder'.state = recorder.state
        /\ Grows(recorder, recorder') /\ recorder.reads \subseteq Reads
    <3> DEFINE r == recorder
               s == recorder'
    <3>1. RecorderShape(r) /\ r.active /\ s = [r EXCEPT !.sealed = TRUE]
      BY <2>1 DEF RecorderInv
    <3> HIDE DEF r, s
    <3>2. r # NoRecorder
      BY <3>1 DEF NoRecorder
    <3>3. /\ RecorderShape(s) /\ s.active /\ s.reads = r.reads /\ s.state = r.state
          /\ Grows(r, s) /\ r.reads \subseteq Reads
      <4>1. /\ s.active = r.active /\ s.state = r.state /\ s.reads = r.reads
            /\ s.nodes = r.nodes /\ s.recipes = r.recipes
            /\ s.all_nodes = r.all_nodes /\ s.all_recipes = r.all_recipes
            /\ s.compatibility = r.compatibility /\ s.node_revision = r.node_revision
            /\ s.conversion_revision = r.conversion_revision /\ s.generation = r.generation
        BY <3>1, <3>2 DEF RecorderShape
      <4>2. r.active = TRUE /\ s.sealed = TRUE /\ r.reads \subseteq Reads
            /\ {r.all_nodes, r.all_recipes, r.compatibility, r.node_revision,
                r.conversion_revision, r.generation} \subseteq BOOLEAN
        BY <3>1, <3>2 DEF RecorderShape
      <4>3. s = [active |-> s.active, sealed |-> s.sealed, state |-> s.state,
                 nodes |-> s.nodes, all_nodes |-> s.all_nodes, recipes |-> s.recipes,
                 all_recipes |-> s.all_recipes, compatibility |-> s.compatibility,
                 node_revision |-> s.node_revision,
                 conversion_revision |-> s.conversion_revision,
                 generation |-> s.generation, reads |-> s.reads]
        BY <3>1, <3>2 DEF RecorderShape
      <4>4. RecorderShape(s)
        BY <4>1, <4>2, <4>3 DEF RecorderShape
      <4> QED
        BY <4>1, <4>2, <4>4 DEF Grows
    <3> QED
      BY <3>3 DEF r, s
  <2> QED
    BY <2>1, <2>2, RecordedStays DEF RecorderInv
<1>6. CASE DiscardUpdate
  BY <1>6 DEF DiscardUpdate, RecorderInv, RecorderShape, NoRecorder
<1>7. ASSUME NEW update \in Updates(MaxStaged), CommitUpdate(update) PROVE RecorderInv'
  BY <1>2, <1>7 DEF CommitUpdate
<1>8. ASSUME NEW update \in Updates(1), UpdateDirectly(update) PROVE RecorderInv'
  BY <1>2, <1>8 DEF UpdateDirectly
<1>9. CASE BeginUpdate
  BY <1>2, <1>9 DEF BeginUpdate
<1>10. CASE StageInvalid
  BY <1>2, <1>10 DEF StageInvalid
<1> QED
  BY <1>2, <1>3, <1>4, <1>5, <1>6, <1>7, <1>8, <1>9, <1>10 DEF CatalogNext, catalog_vars

\* Generation, revisions and the registration counter only grow, and equal ones
\* mean equal content, from the invocation of a command to its last check
\* (RegistryUpdate::Commit, RegistryAccess::Invoke).
THEOREM RevisionsIdentifyStates == CatalogSpec => []RevisionsIdentify
<1> DEFINE Inv == CatalogInv /\ RecorderInv
<1>1. CatalogInit => Inv
  BY InitCatalog, InitRecorder
<1>2. Inv /\ [CatalogNext]_catalog_vars => Inv'
  BY StepCatalog, StepRecorder
<1>3. Inv => RevisionsIdentify
  BY DEF RecorderInv, Follows, RevisionsIdentify
<1> HIDE DEF Inv
<1> QED
  BY <1>1, <1>2, <1>3, PTL DEF CatalogSpec

\* A prepared command whose dependencies are current would be given the answers it
\* was given, also where the recorder forgot single types at its capacity or
\* recorded a recipe that was missing (RegistryAccess::DependenciesCurrent).
THEOREM CurrentReadsAnswerAlike == CatalogSpec => []CurrentMeansSameAnswers
<1> DEFINE Inv == CatalogInv /\ RecorderInv
<1>1. CatalogInit => Inv
  BY InitCatalog, InitRecorder
<1>2. Inv /\ [CatalogNext]_catalog_vars => Inv'
  BY StepCatalog, StepRecorder
<1>3. Inv => CurrentMeansSameAnswers
  <2> SUFFICES ASSUME Inv, recorder.active, DependenciesCurrent(catalog, recorder),
                      NEW read \in recorder.reads
               PROVE  Answer(catalog, read) = Answer(recorder.state, read)
    BY DEF CurrentMeansSameAnswers
  <2>1. read \in Reads /\ Recorded(recorder, read)
    BY DEF RecorderInv, RecorderShape, NoRecorder
  <2> QED
    BY <2>1, RecordedAnswers
<1> HIDE DEF Inv
<1> QED
  BY <1>1, <1>2, <1>3, PTL DEF CatalogSpec
=============================================================================
