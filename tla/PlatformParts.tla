--------------------------- MODULE PlatformParts ---------------------------
(***************************************************************************)
(* Parts of the platform proved about: the log of textures, the backend    *)
(* that draws, the core that runs translated code, the surfaces and the    *)
(* software rasteriser, the timers, the shell, the display, the            *)
(* extensions, the images, the calls, the runtime, the heap and the pad.   *)
(* MCPlatform adds the others and checks them all; the variables v1, v2,   *)
(* ... stand, in each part, for its own in their order of declaration.     *)
(***************************************************************************)
EXTENDS Integers, Sequences, Vectors_proofs, TLAPS

CONSTANTS
    \* the log of textures: the names, those of the boot sequence, the values; a bound
    LogNames, BootTextures, TextureValues, MaxTextureLog,
    \* the backend that draws: the textures the guest binds, the sizes of its pbuffers
    DrawnTextures, PbufferSizes,
    \* the core: bytes of code, and of a page; the longest block; the budgets of Run
    CodeBytes, CodePage, MaxBlock, Budgets,
    \* the surfaces: the largest, the allocation unit, the region; a bound
    MaxWidth, MaxHeight, SurfacePage, RegionStart, RegionEnd, MaxActivity,
    \* the rasteriser: the depth of a clear; bounds
    Far, MaxFragments, MaxStack, MaxVertices,
    \* the timers: callbacks, user data, AEECallbacks, the address 0; a bound
    Callbacks, Users, Structs, NullPtr, MaxDelay,
    \* the shell: the classes each of the three offers, all of them, the resources; bounds
    Factories, Instances, Extensions, Classes, Resources, MaxResource, MaxSends,
    MaxShellCalls,
    \* the display: the screen, rectangles and sizes of bitmaps, arena and rings; bounds
    Width, Height, DrawnRects, BitmapSizes, DibWords, RingObjects, RingPages, PagePixels,
    MaxBitmaps, MaxScreenCalls,
    \* the extensions: what the .mif files declare, what cannot be loaded; bounds
    Catalog, Unloadable, MaxLoads, MaxExtCalls,
    \* the images: pixels, frames of a GIF, the end of their range; bounds
    Canvas, GifFrames, MaxGifFrames, Room, MaxImageCalls,
    \* the calls: traps, functions of the guest; bounds
    CallSlots, GuestFunctions, MaxCallDepth, MaxTrace,
    \* the runtime: the fields the applet has
    AppletFields,
    \* the heap: its bytes, what blocks are aligned to; a bound
    HeapBytes, HeapWord, MaxHeapBlocks,
    \* the pad: its buttons; a bound
    PadButtons, MaxEdges

VARIABLES v1, v2, v3, v4, v5, v6, v7, v8, v9, v10, v11

-----------------------------------------------------------------------------
(* The log of textures.  A compacted log replays as the walk over it says. *)
Textures == INSTANCE GlTextureLog WITH
    Names <- LogNames, BootNames <- BootTextures, Values <- TextureValues,
    MaxLog <- MaxTextureLog,
    gl <- v1, log <- v2, unbound <- v3, lost <- v4

(* Textures!PushOnce is the PushOnce the lemmas of Vectors_proofs are about. *)
LEMMA PushOnceThere ==
    \A s, e : Textures!PushOnce(s, e) = PushOnce(s, e) /\ Textures!Elems(s) = Elems(s)
  BY DEF Textures!PushOnce, Textures!Elems, PushOnce, Elems

(* The driver and the walk stay what they are. *)
LEMMA NamesFree ==
    ASSUME Textures!LogBounds, NEW g \in Textures!Drivers, g.names # LogNames
    PROVE  Textures!NewName(g) \in LogNames \ g.names
<1> DEFINE T == LogNames \ g.names
<1>1. T \in SUBSET Nat /\ T # {}
  BY DEF Textures!LogBounds, Textures!Drivers
<1>2. \E n \in T : \A m \in T : n <= m
  <2> HIDE DEF T
  <2> QED
    BY <1>1, SmallestOf
<1> QED
  BY <1>2 DEF Textures!NewName

LEMMA FieldSet ==
    ASSUME NEW t \in Textures!Fields, NEW f \in {"param", "image"}, NEW v \in TextureValues
    PROVE  Textures!Set(t, f, v) \in Textures!Fields
  BY DEF Textures!Set, Textures!Fields

LEMMA FreshField == Textures!Fresh \in Textures!Fields
  BY DEF Textures!Fresh, Textures!Fields

LEMMA ReplayedType ==
    ASSUME Textures!LogBounds, NEW g \in Textures!Drivers, NEW e \in Textures!Entries
    PROVE  Textures!Replayed(g, e) \in Textures!Drivers
<1>1. CASE e.op = "gen"
  <2>1. CASE g.names = LogNames
    BY <1>1, <2>1 DEF Textures!Replayed, Textures!GenTextures
  <2>2. CASE g.names # LogNames
    <3>1. PICK n \in LogNames \ g.names : n = Textures!NewName(g)
      BY <2>2, NamesFree
    <3>2. Textures!Replayed(g, e) = [g EXCEPT !.names = @ \cup {n}, !.tex[n] = Textures!Fresh]
      BY <1>1, <2>2, <3>1 DEF Textures!Replayed, Textures!GenTextures
    <3>3. Textures!Replayed(g, e) = [names |-> g.names \cup {n}, bound |-> g.bound,
                            tex |-> [g.tex EXCEPT ![n] = Textures!Fresh]]
      BY <3>2 DEF Textures!Drivers
    <3>4. [g.tex EXCEPT ![n] = Textures!Fresh] \in [LogNames -> Textures!Fields]
      BY FreshField DEF Textures!Drivers
    <3> QED
      BY <3>3, <3>4 DEF Textures!Drivers
  <2> QED
    BY <2>1, <2>2
<1>2. CASE e.op = "delete"
  <2>1. e.name \in LogNames
    BY <1>2 DEF Textures!Entries
  <2>2. Textures!Replayed(g, e) = [g EXCEPT !.names = @ \ {e.name}, !.bound = IF @ = e.name THEN 0 ELSE @]
    BY <1>2 DEF Textures!Replayed, Textures!DeleteTextures
  <2> QED
    BY <2>1, <2>2 DEF Textures!Drivers
<1>3. CASE e.op = "bind"
  <2>1. e.name \in LogNames \cup {0}
    BY <1>3 DEF Textures!Entries
  <2>2. Textures!Replayed(g, e) = [g EXCEPT !.bound = e.name]
    BY <1>3 DEF Textures!Replayed, Textures!BindTexture
  <2> QED
    BY <2>1, <2>2 DEF Textures!Drivers
<1>4. CASE e.op \in {"param", "image"}
  <2>1. e.value \in TextureValues
    BY <1>4 DEF Textures!Entries
  <2>2. Textures!Replayed(g, e) = Textures!Write(g, e.op, e.value)
    BY <1>4 DEF Textures!Replayed
  <2>3. CASE g.bound \in g.names
    <3>1. PICK n \in LogNames : n = g.bound
      BY <2>3 DEF Textures!Drivers
    <3>2. PICK t \in Textures!Fields : t = Textures!Set(g.tex[n], e.op, e.value)
      BY <1>4, <2>1, FieldSet DEF Textures!Drivers
    <3>3. Textures!Replayed(g, e) = [g EXCEPT !.tex[n] = t]
      BY <2>2, <2>3, <3>1, <3>2 DEF Textures!Write
    <3> QED
      BY <3>3 DEF Textures!Drivers
  <2> QED
    BY <2>2, <2>3 DEF Textures!Write
<1> QED
  BY <1>1, <1>2, <1>3, <1>4 DEF Textures!Entries

LEMMA WalkedType ==
    ASSUME Textures!LogBounds, NEW w \in Textures!WalkStates, NEW e \in Textures!Entries
    PROVE  Textures!Walked(w, e) \in Textures!WalkStates
<1>1. CASE e.op = "gen"
  <2>1. PICK n \in LogNames : n = e.name
    BY <1>1 DEF Textures!Entries
  <2>2. Textures!Walked(w, e) = [kept |-> Append(w.kept, e), live |-> w.live \cup {n},
                        state |-> [w.state EXCEPT ![n] = Textures!Fresh],
                        order |-> Textures!PushOnce(w.order, n), bound |-> w.bound]
    BY <1>1, <2>1 DEF Textures!Walked, Textures!Born, Textures!WalkStates
  <2>3. Append(w.kept, e) \in Seq(Textures!Entries) /\ Textures!PushOnce(w.order, n) \in Seq(LogNames)
    BY <2>1 DEF Textures!WalkStates, Textures!PushOnce
  <2>4. [w.state EXCEPT ![n] = Textures!Fresh] \in [LogNames -> Textures!Fields]
    BY FreshField DEF Textures!WalkStates
  <2> QED
    BY <2>2, <2>3, <2>4 DEF Textures!WalkStates
<1>2. CASE e.op = "delete"
  <2>1. e.name \in LogNames
    BY <1>2 DEF Textures!Entries
  <2>2. Textures!Walked(w, e) = [kept |-> Append(w.kept, e), live |-> w.live \ {e.name},
                        state |-> w.state, order |-> w.order,
                        bound |-> IF w.bound = e.name THEN 0 ELSE w.bound]
    BY <1>2 DEF Textures!Walked, Textures!WalkStates
  <2>3. Append(w.kept, e) \in Seq(Textures!Entries)
    BY DEF Textures!WalkStates
  <2> QED
    BY <2>2, <2>3 DEF Textures!WalkStates
<1>3. CASE e.op = "bind"
  <2>1. e.name \in LogNames \cup {0}
    BY <1>3 DEF Textures!Entries
  <2>2. Textures!Walked(w, e) = [w EXCEPT !.bound = e.name]
    BY <1>3 DEF Textures!Walked
  <2> QED
    BY <2>1, <2>2 DEF Textures!WalkStates
<1>4. CASE e.op \in {"param", "image"}
  <2>1. e.value \in TextureValues
    BY <1>4 DEF Textures!Entries
  <2>3. CASE w.bound \in w.live
    <3>1. PICK n \in LogNames : n = w.bound
      BY <2>3 DEF Textures!WalkStates
    <3>2. PICK t \in Textures!Fields : t = Textures!Set(w.state[n], e.op, e.value)
      BY <1>4, <2>1, FieldSet DEF Textures!WalkStates
    <3>3. Textures!Walked(w, e) = [w EXCEPT !.state[n] = t]
      BY <1>4, <2>3, <3>1, <3>2 DEF Textures!Walked
    <3> QED
      BY <3>3 DEF Textures!WalkStates
  <2>4. CASE w.bound \notin w.live
    BY <1>4, <2>4 DEF Textures!Walked
  <2> QED
    BY <2>3, <2>4
<1> QED
  BY <1>1, <1>2, <1>3, <1>4 DEF Textures!Entries

(* A replay. *)
LEMMA BootedType ==
    ASSUME Textures!LogBounds
    PROVE  Textures!Booted \in Textures!Drivers
  BY FreshField DEF Textures!Booted, Textures!Drivers, Textures!LogBounds

LEMMA ReplaysIs ==
    ASSUME Textures!LogBounds, NEW s \in Seq(Textures!Entries)
    PROVE  /\ Textures!Replays(s) \in [0..Len(s) -> Textures!Drivers] /\ Textures!Replays(s)[0] = Textures!Booted
           /\ \A k \in 1..Len(s) : Textures!Replays(s)[k] = Textures!Replayed(Textures!Replays(s)[k - 1], s[k])
<1> DEFINE f == [g \in Textures!Drivers |-> [e \in Textures!Entries |-> Textures!Replayed(g, e)]]
<1>1. Stepping(f, Textures!Drivers, Textures!Entries)
  BY ReplayedType DEF Stepping
<1>2. PICK r \in [0..Len(s) -> Textures!Drivers] :
            r[0] = Textures!Booted /\ \A k \in 1..Len(s) : r[k] = f[r[k - 1]][s[k]]
  <2>1. Textures!Booted \in Textures!Drivers
    BY BootedType
  <2> HIDE DEF f
  <2> QED
    BY <1>1, <2>1, FoldExists
<1>3. PICK n \in Nat : n = Len(s) /\ \A k \in 1..n : s[k] \in Textures!Entries
  OBVIOUS
<1>4. \A k \in 1..n : r[k] = Textures!Replayed(r[k - 1], s[k])
  <2> SUFFICES ASSUME NEW k \in 1..n
               PROVE  r[k] = Textures!Replayed(r[k - 1], s[k])
    OBVIOUS
  <2>1. k - 1 \in 0..n /\ s[k] \in Textures!Entries
    BY <1>3
  <2> QED
    BY <1>2, <1>3, <2>1
<1>5. r = [k \in 0..Len(s) |-> IF k = 0 THEN Textures!Booted ELSE Textures!Replayed(r[k - 1], s[k])]
  BY <1>2, <1>3, <1>4
<1> DEFINE q == Textures!Replays(s)
<1>6. q = [k \in 0..Len(s) |-> IF k = 0 THEN Textures!Booted ELSE Textures!Replayed(q[k - 1], s[k])]
  BY <1>5 DEF Textures!Replays
<1> HIDE DEF q
<1>7. \A k \in 0..n : q[k] = r[k]
  <2>1. q[0] = r[0]
    BY <1>2, <1>3, <1>6
  <2>2. \A k \in 1..n : q[k - 1] = r[k - 1] => q[k] = r[k]
    BY <1>3, <1>4, <1>6
  <2> DEFINE T == {k \in 0..n : q[k] = r[k]}
  <2>3. 0 \in T /\ \A k \in 1..n : k - 1 \in T => k \in T
    BY <2>1, <2>2
  <2>4. \A k \in 0..n : k \in T
    <3> HIDE DEF T
    <3> QED
      BY <2>3, AllUpTo
  <2> QED
    BY <2>4
<1>8. q = r
  BY <1>2, <1>3, <1>6, <1>7
<1> QED
  BY <1>2, <1>3, <1>4, <1>8 DEF q

LEMMA ReplaysAppend ==
    ASSUME Textures!LogBounds, NEW s \in Seq(Textures!Entries), NEW e \in Textures!Entries
    PROVE  /\ \A k \in 0..Len(s) : Textures!Replays(Append(s, e))[k] = Textures!Replays(s)[k]
           /\ Textures!ReplayGlTextureLog(Append(s, e)) = Textures!Replayed(Textures!ReplayGlTextureLog(s), e)
<1>1. PICK n \in Nat : n = Len(s)
  OBVIOUS
<1>a. Append(s, e) \in Seq(Textures!Entries)
  OBVIOUS
<1>2. PICK x \in Seq(Textures!Entries) : x = Append(s, e)
  BY <1>a
<1>3. Len(x) = n + 1 /\ x[n + 1] = e /\ \A k \in 1..n : x[k] = s[k]
  BY <1>1, <1>2
<1>4. PICK q : q = Textures!Replays(s)
  OBVIOUS
<1>5. PICK p : p = Textures!Replays(x)
  OBVIOUS
<1>6. q[0] = Textures!Booted /\ \A k \in 1..n : q[k] = Textures!Replayed(q[k - 1], s[k])
  BY <1>1, <1>4, ReplaysIs
<1>7. p[0] = Textures!Booted /\ \A k \in 1..n + 1 : p[k] = Textures!Replayed(p[k - 1], x[k])
  BY <1>3, <1>5, ReplaysIs
<1> DEFINE T == {k \in 0..n : p[k] = q[k]}
<1>b. \A k \in 1..n : p[k - 1] = q[k - 1] => p[k] = q[k]
  BY <1>3, <1>6, <1>7
<1>8. 0 \in T /\ \A k \in 1..n : k - 1 \in T => k \in T
  BY <1>6, <1>7, <1>b
<1>9. \A k \in 0..n : k \in T
  <2> HIDE DEF T
  <2> QED
    BY <1>8, AllUpTo
<1>10. p[n + 1] = Textures!Replayed(q[n], e)
  <2>1. n + 1 \in 1..n + 1 /\ n \in 0..n /\ n + 1 - 1 = n
    OBVIOUS
  <2> QED
    BY <2>1, <1>3, <1>7, <1>9
<1> QED
  BY <1>1, <1>2, <1>3, <1>4, <1>5, <1>9, <1>10 DEF Textures!ReplayGlTextureLog

LEMMA ReplayType ==
    ASSUME Textures!LogBounds, NEW s \in Seq(Textures!Entries)
    PROVE  Textures!ReplayGlTextureLog(s) \in Textures!Drivers
<1>1. Len(s) \in 0..Len(s)
  OBVIOUS
<1> QED
  BY <1>1, ReplaysIs DEF Textures!ReplayGlTextureLog

(* A walk. *)
LEMMA NothingType ==
    ASSUME Textures!LogBounds
    PROVE  Textures!Nothing \in Textures!WalkStates
<1>1. <<>> \in Seq(Textures!Entries) /\ <<>> \in Seq(LogNames)
  OBVIOUS
<1>2. [n \in LogNames |-> Textures!Fresh] \in [LogNames -> Textures!Fields]
  BY FreshField
<1> QED
  BY <1>1, <1>2 DEF Textures!Nothing, Textures!WalkStates

LEMMA WalksIs ==
    ASSUME Textures!LogBounds, NEW s \in Seq(Textures!Entries)
    PROVE  /\ Textures!Walks(s) \in [0..Len(s) -> Textures!WalkStates] /\ Textures!Walks(s)[0] = Textures!Nothing
           /\ \A k \in 1..Len(s) : Textures!Walks(s)[k] = Textures!Walked(Textures!Walks(s)[k - 1], s[k])
<1> DEFINE f == [g \in Textures!WalkStates |-> [e \in Textures!Entries |-> Textures!Walked(g, e)]]
<1>1. Stepping(f, Textures!WalkStates, Textures!Entries)
  BY WalkedType DEF Stepping
<1>2. PICK r \in [0..Len(s) -> Textures!WalkStates] :
            r[0] = Textures!Nothing /\ \A k \in 1..Len(s) : r[k] = f[r[k - 1]][s[k]]
  <2>1. Textures!Nothing \in Textures!WalkStates
    BY NothingType
  <2> HIDE DEF f
  <2> QED
    BY <1>1, <2>1, FoldExists
<1>3. PICK n \in Nat : n = Len(s) /\ \A k \in 1..n : s[k] \in Textures!Entries
  OBVIOUS
<1>4. \A k \in 1..n : r[k] = Textures!Walked(r[k - 1], s[k])
  <2> SUFFICES ASSUME NEW k \in 1..n
               PROVE  r[k] = Textures!Walked(r[k - 1], s[k])
    OBVIOUS
  <2>1. k - 1 \in 0..n /\ s[k] \in Textures!Entries
    BY <1>3
  <2> QED
    BY <1>2, <1>3, <2>1
<1>5. r = [k \in 0..Len(s) |-> IF k = 0 THEN Textures!Nothing ELSE Textures!Walked(r[k - 1], s[k])]
  BY <1>2, <1>3, <1>4
<1> DEFINE q == Textures!Walks(s)
<1>6. q = [k \in 0..Len(s) |-> IF k = 0 THEN Textures!Nothing ELSE Textures!Walked(q[k - 1], s[k])]
  BY <1>5 DEF Textures!Walks
<1> HIDE DEF q
<1>7. \A k \in 0..n : q[k] = r[k]
  <2>1. q[0] = r[0]
    BY <1>2, <1>3, <1>6
  <2>2. \A k \in 1..n : q[k - 1] = r[k - 1] => q[k] = r[k]
    BY <1>3, <1>4, <1>6
  <2> DEFINE T == {k \in 0..n : q[k] = r[k]}
  <2>3. 0 \in T /\ \A k \in 1..n : k - 1 \in T => k \in T
    BY <2>1, <2>2
  <2>4. \A k \in 0..n : k \in T
    <3> HIDE DEF T
    <3> QED
      BY <2>3, AllUpTo
  <2> QED
    BY <2>4
<1>8. q = r
  BY <1>2, <1>3, <1>6, <1>7
<1> QED
  BY <1>2, <1>3, <1>4, <1>8 DEF q

LEMMA WalksAppend ==
    ASSUME Textures!LogBounds, NEW s \in Seq(Textures!Entries), NEW e \in Textures!Entries
    PROVE  /\ \A k \in 0..Len(s) : Textures!Walks(Append(s, e))[k] = Textures!Walks(s)[k]
           /\ Textures!Walk(Append(s, e)) = Textures!Walked(Textures!Walk(s), e)
<1>1. PICK n \in Nat : n = Len(s)
  OBVIOUS
<1>a. Append(s, e) \in Seq(Textures!Entries)
  OBVIOUS
<1>2. PICK x \in Seq(Textures!Entries) : x = Append(s, e)
  BY <1>a
<1>3. Len(x) = n + 1 /\ x[n + 1] = e /\ \A k \in 1..n : x[k] = s[k]
  BY <1>1, <1>2
<1>4. PICK q : q = Textures!Walks(s)
  OBVIOUS
<1>5. PICK p : p = Textures!Walks(x)
  OBVIOUS
<1>6. q[0] = Textures!Nothing /\ \A k \in 1..n : q[k] = Textures!Walked(q[k - 1], s[k])
  BY <1>1, <1>4, WalksIs
<1>7. p[0] = Textures!Nothing /\ \A k \in 1..n + 1 : p[k] = Textures!Walked(p[k - 1], x[k])
  BY <1>3, <1>5, WalksIs
<1> DEFINE T == {k \in 0..n : p[k] = q[k]}
<1>b. \A k \in 1..n : p[k - 1] = q[k - 1] => p[k] = q[k]
  BY <1>3, <1>6, <1>7
<1>8. 0 \in T /\ \A k \in 1..n : k - 1 \in T => k \in T
  BY <1>6, <1>7, <1>b
<1>9. \A k \in 0..n : k \in T
  <2> HIDE DEF T
  <2> QED
    BY <1>8, AllUpTo
<1>10. p[n + 1] = Textures!Walked(q[n], e)
  <2>1. n + 1 \in 1..n + 1 /\ n \in 0..n /\ n + 1 - 1 = n
    OBVIOUS
  <2> QED
    BY <2>1, <1>3, <1>7, <1>9
<1> QED
  BY <1>1, <1>2, <1>3, <1>4, <1>5, <1>9, <1>10 DEF Textures!Walk

LEMMA WalkType ==
    ASSUME Textures!LogBounds, NEW s \in Seq(Textures!Entries)
    PROVE  Textures!Walk(s) \in Textures!WalkStates
<1>1. Len(s) \in 0..Len(s)
  OBVIOUS
<1> QED
  BY <1>1, WalksIs DEF Textures!Walk

(* One more entry. *)
LEMMA GeneratedAppend ==
    ASSUME NEW s \in Seq(Textures!Entries), NEW e \in Textures!Entries
    PROVE  Textures!Generated(Append(s, e))
               = Textures!Generated(s) \cup {n \in LogNames : e.op = "gen" /\ e.name = n}
<1>1. PICK m \in Nat : m = Len(s)
  OBVIOUS
<1>2. PICK x : x = Append(s, e)
  OBVIOUS
<1>3. /\ DOMAIN x = 1..m + 1 /\ DOMAIN s = 1..m /\ x[m + 1] = e
      /\ \A k \in 1..m : x[k] = s[k]
  BY <1>1, <1>2
<1>4. ASSUME NEW n \in LogNames
      PROVE  (\E k \in 1..m + 1 : x[k].op = "gen" /\ x[k].name = n)
                 <=> (\E k \in 1..m : s[k].op = "gen" /\ s[k].name = n)
                     \/ (e.op = "gen" /\ e.name = n)
  <2>1. ASSUME NEW k \in 1..m + 1, x[k].op = "gen" /\ x[k].name = n
        PROVE  (\E l \in 1..m : s[l].op = "gen" /\ s[l].name = n)
                   \/ (e.op = "gen" /\ e.name = n)
    <3>1. CASE k = m + 1
      BY <1>3, <2>1, <3>1
    <3>2. CASE k \in 1..m
      BY <1>3, <2>1, <3>2
    <3> QED
      BY <3>1, <3>2
  <2>2. ASSUME NEW k \in 1..m, s[k].op = "gen" /\ s[k].name = n
        PROVE  \E l \in 1..m + 1 : x[l].op = "gen" /\ x[l].name = n
    <3>1. k \in 1..m + 1 /\ x[k] = s[k]
      BY <1>3
    <3> QED
      BY <2>2, <3>1
  <2>3. ASSUME e.op = "gen" /\ e.name = n
        PROVE  \E l \in 1..m + 1 : x[l].op = "gen" /\ x[l].name = n
    <3>1. m + 1 \in 1..m + 1
      OBVIOUS
    <3> QED
      BY <1>3, <2>3, <3>1
  <2> QED
    BY <2>1, <2>2, <2>3
<1>5. Textures!Generated(x) = {n \in LogNames : \E k \in 1..m + 1 : x[k].op = "gen" /\ x[k].name = n}
  BY <1>3 DEF Textures!Generated
<1>6. Textures!Generated(s) = {n \in LogNames : \E k \in 1..m : s[k].op = "gen" /\ s[k].name = n}
  BY <1>3 DEF Textures!Generated
<1> QED
  BY <1>2, <1>4, <1>5, <1>6

LEMMA IdsAppend ==
    ASSUME Textures!LogBounds, NEW s \in Seq(Textures!Entries), NEW e \in Textures!Entries, Textures!IdsMatch(s),
           e.op = "gen" => /\ Textures!ReplayGlTextureLog(s).names # LogNames
                           /\ Textures!NewName(Textures!ReplayGlTextureLog(s)) = e.name
    PROVE  Textures!IdsMatch(Append(s, e))
<1>1. PICK m \in Nat : m = Len(s)
  OBVIOUS
<1>2. PICK x : x = Append(s, e)
  OBVIOUS
<1>3. /\ DOMAIN x = 1..m + 1 /\ DOMAIN s = 1..m /\ x[m + 1] = e
      /\ \A k \in 1..m : x[k] = s[k]
  BY <1>1, <1>2
<1>4. PICK p : p = Textures!Replays(x)
  OBVIOUS
<1>5. PICK q : q = Textures!Replays(s)
  OBVIOUS
<1>6. \A k \in 0..m : p[k] = q[k]
  BY <1>1, <1>2, <1>4, <1>5, ReplaysAppend
<1> SUFFICES ASSUME NEW k \in 1..m + 1, x[k].op = "gen"
             PROVE  p[k - 1].names # LogNames /\ Textures!NewName(p[k - 1]) = x[k].name
  BY <1>2, <1>3, <1>4 DEF Textures!IdsMatch
<1>7. CASE k = m + 1
  <2>1. p[k - 1] = q[m]
    BY <1>6, <1>7
  <2> QED
    BY <1>1, <1>3, <1>5, <1>7, <2>1 DEF Textures!ReplayGlTextureLog
<1>8. CASE k \in 1..m
  <2>1. k - 1 \in 0..m /\ x[k] = s[k]
    BY <1>3, <1>8
  <2>2. p[k - 1] = q[k - 1]
    BY <1>6, <2>1
  <2> QED
    BY <1>3, <1>5, <1>8, <2>1, <2>2 DEF Textures!IdsMatch
<1> QED
  BY <1>7, <1>8

(* The bind of a texture found live, and a write to it. *)
LEMMA BindRestores ==
    ASSUME Textures!LogBounds, NEW s, NEW names, NEW w, NEW state, Textures!Restores(s, names, w, state),
           NEW n \in LogNames, NEW e, e = [op |-> "bind", name |-> n]
    PROVE  /\ Textures!Restores(Append(s, e), names, w, state)
           /\ Textures!ReplayGlTextureLog(Append(s, e)).bound = n /\ Textures!Walk(Append(s, e)).bound = n
<1>1. s \in Seq(Textures!Entries) /\ e \in Textures!Entries /\ Append(s, e) \in Seq(Textures!Entries)
  BY DEF Textures!Restores, Textures!Entries
<1>2. PICK g \in Textures!Drivers : g = Textures!ReplayGlTextureLog(s)
  BY <1>1, ReplayType
<1>3. PICK v \in Textures!WalkStates : v = Textures!Walk(s)
  BY <1>1, WalkType
<1>4. Textures!ReplayGlTextureLog(Append(s, e)) = [g EXCEPT !.bound = n]
  BY <1>1, <1>2, ReplaysAppend DEF Textures!Replayed, Textures!BindTexture
<1>5. Textures!Walk(Append(s, e)) = [v EXCEPT !.bound = n]
  BY <1>1, <1>3, WalksAppend DEF Textures!Walked
<1>6. Textures!Generated(Append(s, e)) = Textures!Generated(s)
  <2>1. {m \in LogNames : e.op = "gen" /\ e.name = m} = {}
    OBVIOUS
  <2>2. Textures!Generated(Append(s, e)) = Textures!Generated(s) \cup {m \in LogNames : e.op = "gen" /\ e.name = m}
    BY <1>1, GeneratedAppend
  <2> QED
    BY <2>1, <2>2
<1>7. Textures!IdsMatch(Append(s, e))
  BY <1>1, IdsAppend DEF Textures!Restores
<1>8. PICK h : h = [g EXCEPT !.bound = n]
  OBVIOUS
<1>9. h.bound = n /\ h.names = g.names /\ h.tex = g.tex
  BY <1>8 DEF Textures!Drivers
<1>10. PICK u : u = [v EXCEPT !.bound = n]
  OBVIOUS
<1>11. u.bound = n /\ u.kept = v.kept /\ u.live = v.live /\ u.order = v.order /\ u.state = v.state
  BY <1>10 DEF Textures!WalkStates
<1>12. Textures!ReplayGlTextureLog(Append(s, e)) = h /\ Textures!Walk(Append(s, e)) = u
  BY <1>4, <1>5, <1>8, <1>10
<1>13. Textures!Restores(Append(s, e), names, w, state)
  BY <1>1, <1>2, <1>3, <1>6, <1>7, <1>9, <1>11, <1>12 DEF Textures!Restores
<1> QED
  BY <1>9, <1>11, <1>12, <1>13

LEMMA WriteKeepsBound ==
    ASSUME Textures!LogBounds, NEW s \in Seq(Textures!Entries), NEW f \in {"param", "image"}, NEW v \in TextureValues
    PROVE  /\ Textures!ReplayGlTextureLog(Append(s, [op |-> f, value |-> v])).bound
                  = Textures!ReplayGlTextureLog(s).bound
           /\ Textures!Walk(Append(s, [op |-> f, value |-> v])).bound = Textures!Walk(s).bound
<1>1. PICK e \in Textures!Entries : e = [op |-> f, value |-> v]
  BY DEF Textures!Entries
<1>2. e.op = f /\ e.value = v /\ f # "gen" /\ f # "delete" /\ f # "bind"
  BY <1>1
<1>3. PICK g \in Textures!Drivers : g = Textures!ReplayGlTextureLog(s)
  BY ReplayType
<1>4. PICK u \in Textures!WalkStates : u = Textures!Walk(s)
  BY WalkType
<1>5. Textures!ReplayGlTextureLog(Append(s, e)) = Textures!Replayed(g, e)
  BY <1>3, ReplaysAppend
<1>6. Textures!Walk(Append(s, e)) = Textures!Walked(u, e)
  BY <1>4, WalksAppend
<1>7. Textures!Replayed(g, e).bound = g.bound
  BY <1>2 DEF Textures!Replayed, Textures!Write, Textures!Drivers
<1>8. Textures!Walked(u, e).bound = u.bound
  BY <1>2 DEF Textures!Walked, Textures!WalkStates
<1> QED
  BY <1>1, <1>3, <1>4, <1>5, <1>6, <1>7, <1>8

LEMMA WriteRestores ==
    ASSUME Textures!LogBounds, NEW s, NEW names \in SUBSET LogNames, NEW w \in Textures!WalkStates,
           NEW state \in [LogNames -> Textures!Fields], Textures!Restores(s, names, w, state),
           w.live \subseteq names, NEW n \in w.live,
           Textures!ReplayGlTextureLog(s).bound = n, Textures!Walk(s).bound = n,
           NEW f \in {"param", "image"}, NEW v \in TextureValues
    PROVE  Textures!Restores(Append(s, [op |-> f, value |-> v]), names, w,
                    [state EXCEPT ![n] = Textures!Set(state[n], f, v)])
<1>e. PICK e : e = [op |-> f, value |-> v]
  OBVIOUS
<1>1. s \in Seq(Textures!Entries) /\ e \in Textures!Entries /\ Append(s, e) \in Seq(Textures!Entries)
  BY <1>e DEF Textures!Restores, Textures!Entries
<1>2. PICK g \in Textures!Drivers : g = Textures!ReplayGlTextureLog(s)
  BY <1>1, ReplayType
<1>3. PICK u \in Textures!WalkStates : u = Textures!Walk(s)
  BY <1>1, WalkType
<1>0. n \in LogNames /\ g.bound = n /\ n \in g.names /\ u.bound = n /\ n \in u.live
  BY <1>2, <1>3 DEF Textures!Restores, Textures!WalkStates
<1>t. e.op = f /\ e.value = v /\ f # "gen" /\ f # "delete" /\ f # "bind"
  BY <1>e
<1>4. Textures!ReplayGlTextureLog(Append(s, e)) = [g EXCEPT !.tex[n] = Textures!Set(g.tex[n], f, v)]
  BY <1>0, <1>t, <1>1, <1>2, ReplaysAppend DEF Textures!Replayed, Textures!Write
<1>5. Textures!Walk(Append(s, e)) = [u EXCEPT !.state[n] = Textures!Set(u.state[n], f, v)]
  <2>1. Textures!Walk(Append(s, e)) = Textures!Walked(u, e)
    BY <1>1, <1>3, WalksAppend
  <2> QED
    BY <2>1, <1>0, <1>t DEF Textures!Walked
<1>6. Textures!Generated(Append(s, e)) = Textures!Generated(s)
  <2>1. {m \in LogNames : e.op = "gen" /\ e.name = m} = {}
    BY <1>t
  <2>2. Textures!Generated(Append(s, e)) = Textures!Generated(s) \cup {m \in LogNames : e.op = "gen" /\ e.name = m}
    BY <1>1, GeneratedAppend
  <2> QED
    BY <2>1, <2>2
<1>7. Textures!IdsMatch(Append(s, e))
  BY <1>t, <1>1, IdsAppend DEF Textures!Restores
<1>8. PICK h : h = [g EXCEPT !.tex[n] = Textures!Set(g.tex[n], f, v)]
  OBVIOUS
<1>9. h.bound = n /\ h.names = g.names /\ h.tex = [g.tex EXCEPT ![n] = Textures!Set(g.tex[n], f, v)]
  BY <1>0, <1>8 DEF Textures!Drivers
<1>10. PICK x : x = [u EXCEPT !.state[n] = Textures!Set(u.state[n], f, v)]
  OBVIOUS
<1>11. /\ x.bound = n /\ x.kept = u.kept /\ x.live = u.live /\ x.order = u.order
       /\ x.state = [u.state EXCEPT ![n] = Textures!Set(u.state[n], f, v)]
  BY <1>0, <1>10 DEF Textures!WalkStates
<1>12. g.tex \in [LogNames -> Textures!Fields] /\ u.state \in [LogNames -> Textures!Fields] /\ w.live \subseteq LogNames
  BY DEF Textures!Drivers, Textures!WalkStates
<1>13. PICK y : y = [state EXCEPT ![n] = Textures!Set(state[n], f, v)]
  OBVIOUS
<1>14. \A m \in w.live : g.tex[m] = state[m] /\ u.state[m] = state[m]
  BY <1>2, <1>3 DEF Textures!Restores
<1>15. \A m \in w.live : h.tex[m] = y[m] /\ x.state[m] = y[m]
  BY <1>9, <1>11, <1>12, <1>13, <1>14, <1>0
<1>a. Textures!ReplayGlTextureLog(Append(s, e)) = h /\ Textures!Walk(Append(s, e)) = x
  BY <1>4, <1>5, <1>8, <1>10
<1>b. h.names = g.names /\ x.kept = u.kept /\ x.live = u.live /\ x.order = u.order
  BY <1>9, <1>11
<1>16. Textures!Restores(Append(s, e), names, w, y)
  BY <1>1, <1>2, <1>3, <1>6, <1>7, <1>a, <1>b, <1>15 DEF Textures!Restores
<1> QED
  BY <1>9, <1>11, <1>13, <1>16, <1>a, <1>e

LEMMA FieldsSet ==
    ASSUME Textures!LogBounds, NEW t \in Textures!Fields, NEW fields \in Textures!Fields, t = Textures!Fresh \/ t = fields
    PROVE  /\ fields.param = 0 => t.param = fields.param
           /\ fields.image = 0 => t.image = fields.image
           /\ fields = Textures!Fresh => t = fields
           /\ fields # Textures!Fresh /\ fields.param = 0 => Textures!Set(t, "image", fields.image) = fields
           /\ fields # Textures!Fresh /\ fields.image = 0 => Textures!Set(t, "param", fields.param) = fields
           /\ Textures!Set(Textures!Set(t, "param", fields.param), "image", fields.image) = fields
           /\ fields.param # 0 => fields.param \in TextureValues
           /\ fields.image # 0 => fields.image \in TextureValues
           /\ fields # Textures!Fresh <=> fields.param # 0 \/ fields.image # 0
<1>1. /\ t = [param |-> t.param, image |-> t.image]
      /\ fields = [param |-> fields.param, image |-> fields.image]
      /\ fields.param \in TextureValues \cup {0} /\ fields.image \in TextureValues \cup {0}
  BY DEF Textures!Fields
<1>2. Textures!Set(t, "param", fields.param) = [param |-> fields.param, image |-> t.image]
  BY <1>1 DEF Textures!Set
<1>3. Textures!Set(t, "image", fields.image) = [param |-> t.param, image |-> fields.image]
  BY <1>1 DEF Textures!Set
<1>4. Textures!Set(Textures!Set(t, "param", fields.param), "image", fields.image) = fields
  BY <1>1, <1>2 DEF Textures!Set
<1>5. /\ fields.param = 0 => t.param = fields.param
      /\ fields.image = 0 => t.image = fields.image
  BY <1>1 DEF Textures!Fresh
<1>6. fields = Textures!Fresh <=> fields.param = 0 /\ fields.image = 0
  BY <1>1 DEF Textures!Fresh
<1>7. fields = Textures!Fresh => t = fields
  OBVIOUS
<1>8. fields.image = 0 => Textures!Set(t, "param", fields.param) = fields
  BY <1>1, <1>2, <1>5
<1>9. fields.param = 0 => Textures!Set(t, "image", fields.image) = fields
  BY <1>1, <1>3, <1>5
<1> QED
  BY <1>1, <1>4, <1>5, <1>6, <1>7, <1>8, <1>9

(* The bind and the writes that bring one texture back. *)
LEMMA EmittedRestores ==
    ASSUME Textures!LogBounds, NEW s, NEW names \in SUBSET LogNames, NEW w \in Textures!WalkStates,
           NEW state \in [LogNames -> Textures!Fields], Textures!Restores(s, names, w, state),
           w.live \subseteq names, NEW n \in w.live, NEW fields \in Textures!Fields,
           state[n] = Textures!Fresh \/ state[n] = fields
    PROVE  Textures!Restores(Textures!Emitted(s, n, fields), names, w, [state EXCEPT ![n] = fields])
<1>0. n \in LogNames /\ state[n] \in Textures!Fields
  BY DEF Textures!WalkStates
<1>1. CASE fields = Textures!Fresh
  <2>1. state[n] = fields /\ [state EXCEPT ![n] = fields] = state
    BY <1>0, <1>1
  <2>2. Textures!Emitted(s, n, fields) = s
    BY <1>1 DEF Textures!Emitted
  <2> QED
    BY <2>1, <2>2
<1>2. CASE fields # Textures!Fresh
  <2>1. PICK b : b = Append(s, [op |-> "bind", name |-> n])
    OBVIOUS
  <2>2. /\ Textures!Restores(b, names, w, state)
        /\ Textures!ReplayGlTextureLog(b).bound = n /\ Textures!Walk(b).bound = n
    BY <1>0, <2>1, BindRestores
  <2>3. CASE fields.param = 0
    <3>1. fields.image \in TextureValues /\ Textures!Set(state[n], "image", fields.image) = fields /\ fields.image # 0
      BY <1>0, <1>2, <2>3, FieldsSet
    <3>2. Textures!Emitted(s, n, fields) = Append(b, [op |-> "image", value |-> fields.image])
      BY <1>2, <2>1, <2>3, <3>1 DEF Textures!Emitted
    <3>3. Textures!Restores(Append(b, [op |-> "image", value |-> fields.image]), names, w,
                   [state EXCEPT ![n] = Textures!Set(state[n], "image", fields.image)])
      BY <2>2, <3>1, WriteRestores
    <3> QED
      BY <3>1, <3>2, <3>3
  <2>4. CASE fields.param # 0
    <3>1. fields.param \in TextureValues
      BY <1>0, <2>4, FieldsSet
    <3>e. PICK e : e = [op |-> "param", value |-> fields.param]
      OBVIOUS
    <3>2. PICK p : p = Append(b, e)
      OBVIOUS
    <3>3. PICK y : y = [state EXCEPT ![n] = Textures!Set(state[n], "param", fields.param)]
      OBVIOUS
    <3>4. /\ Textures!Restores(p, names, w, y)
          /\ Textures!ReplayGlTextureLog(p).bound = n /\ Textures!Walk(p).bound = n
      <4>1. Textures!Restores(Append(b, [op |-> "param", value |-> fields.param]), names, w,
                     [state EXCEPT ![n] = Textures!Set(state[n], "param", fields.param)])
        BY <2>2, <3>1, WriteRestores
      <4>2. b \in Seq(Textures!Entries)
        BY <2>2 DEF Textures!Restores
      <4>3. /\ Textures!ReplayGlTextureLog(Append(b, [op |-> "param", value |-> fields.param])).bound = n
            /\ Textures!Walk(Append(b, [op |-> "param", value |-> fields.param])).bound = n
        BY <2>2, <3>1, <4>2, WriteKeepsBound
      <4> QED
        BY <3>2, <3>3, <3>e, <4>1, <4>2, <4>3
    <3>5. CASE fields.image = 0
      <4>1. Textures!Emitted(s, n, fields) = p
        BY <1>2, <2>1, <2>4, <3>2, <3>e, <3>5 DEF Textures!Emitted
      <4>2. y = [state EXCEPT ![n] = fields]
        BY <1>0, <1>2, <3>3, <3>5, FieldsSet
      <4> QED
        BY <3>4, <4>1, <4>2
    <3>6. CASE fields.image # 0
      <4>1. Textures!Emitted(s, n, fields) = Append(p, [op |-> "image", value |-> fields.image])
        BY <1>2, <2>1, <2>4, <3>2, <3>e, <3>6 DEF Textures!Emitted
      <4>2. fields.image \in TextureValues
        BY <1>0, <3>6, FieldsSet
      <4>3. Textures!Set(state[n], "param", fields.param) \in Textures!Fields
        BY <1>0, <3>1, FieldSet
      <4>4. y \in [LogNames -> Textures!Fields] /\ y[n] = Textures!Set(state[n], "param", fields.param)
        BY <1>0, <3>3, <4>3
      <4>8. Textures!Restores(Append(p, [op |-> "image", value |-> fields.image]), names, w,
                     [y EXCEPT ![n] = Textures!Set(y[n], "image", fields.image)])
        BY <3>4, <4>2, <4>4, WriteRestores
      <4>6. Textures!Set(y[n], "image", fields.image) = fields
        BY <1>0, <4>4, FieldsSet
      <4>7. [y EXCEPT ![n] = fields] = [state EXCEPT ![n] = fields]
        BY <1>0, <3>3
      <4> QED
        BY <4>1, <4>6, <4>7, <4>8
    <3> QED
      BY <3>5, <3>6
  <2> QED
    BY <2>3, <2>4
<1> QED
  BY <1>1, <1>2

(* What is written out after each name. *)
LEMMA EmittedType ==
    ASSUME Textures!LogBounds, NEW s \in Seq(Textures!Entries), NEW n \in LogNames, NEW fields \in Textures!Fields
    PROVE  Textures!Emitted(s, n, fields) \in Seq(Textures!Entries)
<1>1. PICK b \in Seq(Textures!Entries) : b = Append(s, [op |-> "bind", name |-> n])
  <2>1. [op |-> "bind", name |-> n] \in Textures!Entries
    BY DEF Textures!Entries
  <2>2. Append(s, [op |-> "bind", name |-> n]) \in Seq(Textures!Entries)
    BY <2>1
  <2> QED
    BY <2>2
<1>2. ASSUME NEW f \in {"param", "image"}, NEW v \in TextureValues, NEW x \in Seq(Textures!Entries)
      PROVE  Append(x, [op |-> f, value |-> v]) \in Seq(Textures!Entries)
  <2>1. [op |-> f, value |-> v] \in Textures!Entries
    BY DEF Textures!Entries
  <2> QED
    BY <2>1
<1>3. /\ fields.param # 0 => fields.param \in TextureValues
      /\ fields.image # 0 => fields.image \in TextureValues
      /\ fields # Textures!Fresh => fields.param # 0 \/ fields.image # 0
  BY FieldsSet
<1>4. PICK p \in Seq(Textures!Entries) :
        p = IF fields.param = 0 THEN b ELSE Append(b, [op |-> "param", value |-> fields.param])
  BY <1>2, <1>3
<1>5. CASE fields = Textures!Fresh
  BY <1>5 DEF Textures!Emitted
<1>6. CASE fields # Textures!Fresh /\ fields.image = 0
  <2>1. Textures!Emitted(s, n, fields) = p
    BY <1>1, <1>4, <1>6 DEF Textures!Emitted
  <2> QED
    BY <2>1
<1>7. CASE fields # Textures!Fresh /\ fields.image # 0
  <2>1. Textures!Emitted(s, n, fields) = Append(p, [op |-> "image", value |-> fields.image])
    BY <1>1, <1>4, <1>7 DEF Textures!Emitted
  <2>2. fields.image \in TextureValues
    BY <1>3, <1>7
  <2> QED
    BY <1>2, <2>1, <2>2
<1> QED
  BY <1>5, <1>6, <1>7

LEMMA EmissionsAre ==
    ASSUME Textures!LogBounds, NEW w \in Textures!WalkStates
    PROVE  /\ Textures!Emissions(w)[0] = w.kept
           /\ \A k \in 1..Len(w.order) :
                 Textures!Emissions(w)[k] = IF w.order[k] \in w.live
                                   THEN Textures!Emitted(Textures!Emissions(w)[k - 1], w.order[k], w.state[w.order[k]])
                                   ELSE Textures!Emissions(w)[k - 1]
<1> DEFINE S == Seq(Textures!Entries)
           f == [s \in S |-> [n \in LogNames |->
                    IF n \in w.live THEN Textures!Emitted(s, n, w.state[n]) ELSE s]]
<1>0. w.kept \in S /\ w.order \in Seq(LogNames) /\ w.state \in [LogNames -> Textures!Fields]
  BY DEF Textures!WalkStates
<1>1. Stepping(f, S, LogNames)
  BY <1>0, EmittedType DEF Stepping
<1>2. PICK r \in [0..Len(w.order) -> S] :
            r[0] = w.kept /\ \A k \in 1..Len(w.order) : r[k] = f[r[k - 1]][w.order[k]]
  <2>1. PICK b \in S : b = w.kept
    BY <1>0
  <2>2. PICK s \in Seq(LogNames) : s = w.order
    BY <1>0
  <2> HIDE DEF f, S
  <2>3. \E r \in [0..Len(s) -> S] : r[0] = b /\ \A k \in 1..Len(s) : r[k] = f[r[k - 1]][s[k]]
    BY <1>1, FoldExists
  <2> QED
    BY <2>1, <2>2, <2>3
<1>3. PICK n \in Nat : n = Len(w.order) /\ \A k \in 1..n : w.order[k] \in LogNames
  BY <1>0
<1>4. \A k \in 1..n : r[k] = IF w.order[k] \in w.live
                              THEN Textures!Emitted(r[k - 1], w.order[k], w.state[w.order[k]]) ELSE r[k - 1]
  <2> SUFFICES ASSUME NEW k \in 1..n
               PROVE  r[k] = IF w.order[k] \in w.live
                             THEN Textures!Emitted(r[k - 1], w.order[k], w.state[w.order[k]]) ELSE r[k - 1]
    OBVIOUS
  <2>1. k - 1 \in 0..n /\ w.order[k] \in LogNames /\ r[k - 1] \in S
    BY <1>2, <1>3
  <2>2. r[k] = f[r[k - 1]][w.order[k]]
    BY <1>2, <1>3
  <2> HIDE DEF S
  <2> QED
    BY <2>1, <2>2
<1>5. r = [k \in 0..Len(w.order) |->
             IF k = 0 THEN w.kept
             ELSE IF w.order[k] \in w.live
                  THEN Textures!Emitted(r[k - 1], w.order[k], w.state[w.order[k]]) ELSE r[k - 1]]
  BY <1>2, <1>3, <1>4
<1> DEFINE q == Textures!Emissions(w)
<1>6. q = [k \in 0..Len(w.order) |->
             IF k = 0 THEN w.kept
             ELSE IF w.order[k] \in w.live
                  THEN Textures!Emitted(q[k - 1], w.order[k], w.state[w.order[k]]) ELSE q[k - 1]]
  BY <1>5 DEF Textures!Emissions
<1> HIDE DEF q
<1> QED
  BY <1>6, <1>3 DEF q

(* Walk(log).state, of the first j names of the order only. *)
LEMMA EmissionsRestore ==
    ASSUME Textures!LogBounds, NEW names \in SUBSET LogNames, NEW w \in Textures!WalkStates,
           w.live \subseteq names, w.live \subseteq Textures!Elems(w.order),
           Textures!Restores(w.kept, names, w, [n \in LogNames |-> Textures!Fresh])
    PROVE  Textures!Restores(Textures!Emissions(w)[Len(w.order)], names, w, w.state)
<1>0. PICK n \in Nat : n = Len(w.order) /\ \A k \in 1..n : w.order[k] \in LogNames
  BY DEF Textures!WalkStates
<1>1. PICK out : out = Textures!Emissions(w)
  OBVIOUS
<1> DEFINE first(j) == {w.order[k] : k \in 1..j}
           state(j) == [m \in LogNames |-> IF m \in first(j) THEN w.state[m] ELSE Textures!Fresh]
           T == {j \in 0..n : Textures!Restores(out[j], names, w, state(j))}
<1>2. 0 \in T
  <2>1. state(0) = [m \in LogNames |-> Textures!Fresh]
    OBVIOUS
  <2>2. out[0] = w.kept
    BY <1>1, EmissionsAre
  <2> QED
    BY <2>1, <2>2
<1>3. ASSUME NEW j \in 1..n, j - 1 \in T
      PROVE  j \in T
  <2>1. PICK m \in LogNames : m = w.order[j]
    BY <1>0
  <2>2. j - 1 \in 0..n /\ Textures!Restores(out[j - 1], names, w, state(j - 1))
    BY <1>3
  <2>3. first(j) = first(j - 1) \cup {m}
    BY <2>1
  <2>4. w.state \in [LogNames -> Textures!Fields] /\ state(j - 1) \in [LogNames -> Textures!Fields]
    BY FreshField DEF Textures!WalkStates
  <2>5. PICK y \in [LogNames -> Textures!Fields] : y = state(j - 1)
    BY <2>4
  <2>6. y[m] = Textures!Fresh \/ y[m] = w.state[m]
    BY <2>5
  <2>7. state(j) = [y EXCEPT ![m] = w.state[m]]
    BY <2>3, <2>4, <2>5
  <2>8. out[j] = IF m \in w.live THEN Textures!Emitted(out[j - 1], m, w.state[m]) ELSE out[j - 1]
    BY <1>0, <1>1, <2>1, EmissionsAre
  <2>9. Textures!Restores(out[j - 1], names, w, y)
    BY <2>2, <2>5
  <2>10. Textures!Restores(out[j], names, w, [y EXCEPT ![m] = w.state[m]])
    <3>1. CASE m \in w.live
      <4>1. PICK fields \in Textures!Fields : fields = w.state[m]
        BY <2>4
      <4>2. PICK s : s = out[j - 1]
        OBVIOUS
      <4>3. Textures!Restores(Textures!Emitted(s, m, fields), names, w, [y EXCEPT ![m] = fields])
        BY <3>1, <4>1, <4>2, <2>6, <2>9, EmittedRestores
      <4> QED
        BY <3>1, <4>1, <4>2, <4>3, <2>8
    <3>2. CASE m \notin w.live
      <4>1. \A l \in w.live : l \in LogNames /\ [y EXCEPT ![m] = w.state[m]][l] = y[l]
        BY <3>2 DEF Textures!WalkStates
      <4> QED
        BY <3>2, <4>1, <2>8, <2>9 DEF Textures!Restores
    <3> QED
      BY <3>1, <3>2
  <2>11. PICK z : z = [y EXCEPT ![m] = w.state[m]]
    OBVIOUS
  <2>12. z = state(j)
    BY <2>7, <2>11
  <2> HIDE DEF state
  <2>13. Textures!Restores(out[j], names, w, z)
    BY <2>10, <2>11
  <2>14. Textures!Restores(out[j], names, w, state(j))
    BY <2>12, <2>13
  <2> QED
    BY <2>14
<1>4. n \in T
  <2>1. \A j \in 0..n : j \in T
    <3> HIDE DEF T
    <3> QED
      BY <1>2, <1>3, AllUpTo
  <2>2. n \in 0..n
    OBVIOUS
  <2> QED
    BY <2>1, <2>2
<1>5. \A m \in w.live : state(n)[m] = w.state[m]
  BY <1>0 DEF Textures!Elems, Textures!WalkStates
<1> HIDE DEF state
<1> QED
  BY <1>0, <1>1, <1>4, <1>5 DEF Textures!Restores

(* What compaction keeps, one generation or deletion later. *)
LEMMA GenRestores ==
    ASSUME Textures!LogBounds, NEW g \in Textures!Drivers, g.names # LogNames, NEW w \in Textures!WalkStates,
           Textures!Restores(w.kept, g.names, w, [n \in LogNames |-> Textures!Fresh]),
           NEW e, e = [op |-> "gen", name |-> Textures!NewName(g)]
    PROVE  Textures!Restores(Textures!Walked(w, e).kept, Textures!GenTextures(g).names, Textures!Walked(w, e), [n \in LogNames |-> Textures!Fresh])
<1>1. PICK n \in LogNames \ g.names : n = Textures!NewName(g)
  BY NamesFree
<1>2. PICK s \in Seq(Textures!Entries) : s = w.kept
  BY DEF Textures!WalkStates
<1>3. e \in Textures!Entries /\ e.op = "gen" /\ e.name = n /\ Append(s, e) \in Seq(Textures!Entries)
  BY <1>1 DEF Textures!Entries
<1>4. PICK h \in Textures!Drivers : h = Textures!ReplayGlTextureLog(s)
  BY ReplayType
<1>5. PICK v \in Textures!WalkStates : v = Textures!Walk(s)
  BY WalkType
<1>6. h.names = g.names /\ Textures!NewName(h) = n
  BY <1>1, <1>2, <1>4 DEF Textures!Restores, Textures!NewName
<1>7. Textures!ReplayGlTextureLog(Append(s, e)) = [h EXCEPT !.names = @ \cup {n}, !.tex[n] = Textures!Fresh]
  <2>1. Textures!ReplayGlTextureLog(Append(s, e)) = Textures!Replayed(h, e)
    BY <1>3, <1>4, ReplaysAppend
  <2> QED
    BY <2>1, <1>3, <1>6 DEF Textures!Replayed, Textures!GenTextures
<1>8. Textures!Walk(Append(s, e)) = Textures!Walked(v, e)
  BY <1>3, <1>5, WalksAppend
<1>9. ASSUME NEW x \in Textures!WalkStates
      PROVE  /\ Textures!Walked(x, e).kept = Append(x.kept, e) /\ Textures!Walked(x, e).live = x.live \cup {n}
             /\ Textures!Walked(x, e).state = [x.state EXCEPT ![n] = Textures!Fresh]
             /\ Textures!Walked(x, e).order = Textures!PushOnce(x.order, n)
  BY <1>3 DEF Textures!Walked, Textures!Born, Textures!WalkStates
<1>10. Textures!IdsMatch(Append(s, e))
  BY <1>1, <1>2, <1>3, <1>4, <1>6, IdsAppend DEF Textures!Restores
<1>11. PICK y : y = Textures!Walked(w, e)
  OBVIOUS
<1>12. y.kept = Append(s, e) /\ y.live = w.live \cup {n}
  BY <1>2, <1>9, <1>11
<1>13. PICK z : z = Textures!Walked(v, e)
  OBVIOUS
<1>14. /\ z.kept = Append(v.kept, e) /\ z.live = v.live \cup {n}
       /\ z.state = [v.state EXCEPT ![n] = Textures!Fresh] /\ z.order = Textures!PushOnce(v.order, n)
  BY <1>9, <1>13
<1>15. PICK k : k = [h EXCEPT !.names = @ \cup {n}, !.tex[n] = Textures!Fresh]
  OBVIOUS
<1>16. k.names = g.names \cup {n} /\ k.tex = [h.tex EXCEPT ![n] = Textures!Fresh]
  BY <1>6, <1>15 DEF Textures!Drivers
<1>17. Textures!GenTextures(g).names = g.names \cup {n}
  BY <1>1 DEF Textures!GenTextures, Textures!Drivers
<1>18. /\ v.kept = w.kept /\ v.live = w.live /\ w.live \subseteq Textures!Elems(v.order)
       /\ \A m \in w.live : h.tex[m] = [l \in LogNames |-> Textures!Fresh][m] /\ v.state[m] = [l \in LogNames |-> Textures!Fresh][m]
  BY <1>2, <1>4, <1>5 DEF Textures!Restores
<1>19. /\ z.kept = y.kept /\ z.live = y.live
  BY <1>2, <1>12, <1>14, <1>18
<1>20. y.live \subseteq Textures!Elems(z.order)
  <2>1. v.order \in Seq(LogNames)
    BY DEF Textures!WalkStates
  <2>2. Textures!Elems(Textures!PushOnce(v.order, n)) = Textures!Elems(v.order) \cup {n}
    BY <2>1, PushOnceElems, PushOnceThere
  <2> QED
    BY <2>2, <1>12, <1>14, <1>18
<1>21. \A m \in y.live : /\ k.tex[m] = [l \in LogNames |-> Textures!Fresh][m]
                         /\ z.state[m] = [l \in LogNames |-> Textures!Fresh][m]
  <2>1. h.tex \in [LogNames -> Textures!Fields] /\ v.state \in [LogNames -> Textures!Fields] /\ w.live \subseteq LogNames
    BY DEF Textures!Drivers, Textures!WalkStates
  <2>2. \A m \in w.live : h.tex[m] = Textures!Fresh /\ v.state[m] = Textures!Fresh
    BY <2>1, <1>18
  <2>3. \A m \in y.live : m \in LogNames /\ (m = n \/ m \in w.live)
    BY <2>1, <1>12
  <2>4. \A m \in LogNames : /\ k.tex[m] = IF m = n THEN Textures!Fresh ELSE h.tex[m]
                        /\ z.state[m] = IF m = n THEN Textures!Fresh ELSE v.state[m]
    BY <2>1, <1>14, <1>16
  <2> QED
    BY <2>2, <2>3, <2>4
<1>22. Textures!ReplayGlTextureLog(y.kept) = k /\ Textures!Walk(y.kept) = z
  BY <1>7, <1>8, <1>12, <1>13, <1>15
<1>23. Textures!Restores(y.kept, Textures!GenTextures(g).names, y, [l \in LogNames |-> Textures!Fresh])
  BY <1>3, <1>10, <1>12, <1>16, <1>17, <1>19, <1>20, <1>21, <1>22 DEF Textures!Restores
<1> QED
  BY <1>11, <1>23

LEMMA DeleteRestores ==
    ASSUME Textures!LogBounds, NEW g \in Textures!Drivers, NEW w \in Textures!WalkStates,
           Textures!Restores(w.kept, g.names, w, [n \in LogNames |-> Textures!Fresh]),
           NEW d \in LogNames, NEW e, e = [op |-> "delete", name |-> d]
    PROVE  Textures!Restores(Textures!Walked(w, e).kept, Textures!DeleteTextures(g, d).names, Textures!Walked(w, e),
                    [n \in LogNames |-> Textures!Fresh])
<1>2. PICK s \in Seq(Textures!Entries) : s = w.kept
  BY DEF Textures!WalkStates
<1>3. e \in Textures!Entries /\ e.op = "delete" /\ e.name = d /\ Append(s, e) \in Seq(Textures!Entries)
  BY DEF Textures!Entries
<1>4. PICK h \in Textures!Drivers : h = Textures!ReplayGlTextureLog(s)
  BY ReplayType
<1>5. PICK v \in Textures!WalkStates : v = Textures!Walk(s)
  BY WalkType
<1>6. h.names = g.names
  BY <1>2, <1>4 DEF Textures!Restores
<1>7. Textures!ReplayGlTextureLog(Append(s, e)) = Textures!DeleteTextures(h, d)
  <2>1. Textures!ReplayGlTextureLog(Append(s, e)) = Textures!Replayed(h, e)
    BY <1>3, <1>4, ReplaysAppend
  <2> QED
    BY <2>1, <1>3 DEF Textures!Replayed
<1>8. Textures!Walk(Append(s, e)) = Textures!Walked(v, e)
  BY <1>3, <1>5, WalksAppend
<1>9. ASSUME NEW x \in Textures!WalkStates
      PROVE  /\ Textures!Walked(x, e).kept = Append(x.kept, e) /\ Textures!Walked(x, e).live = x.live \ {d}
             /\ Textures!Walked(x, e).state = x.state /\ Textures!Walked(x, e).order = x.order
  BY <1>3 DEF Textures!Walked, Textures!WalkStates
<1>10. Textures!IdsMatch(Append(s, e))
  <2>1. Textures!IdsMatch(s)
    BY <1>2 DEF Textures!Restores
  <2> QED
    BY <2>1, <1>3, IdsAppend
<1>11. PICK y : y = Textures!Walked(w, e)
  OBVIOUS
<1>12. y.kept = Append(s, e) /\ y.live = w.live \ {d}
  BY <1>2, <1>9, <1>11
<1>13. PICK z : z = Textures!Walked(v, e)
  OBVIOUS
<1>14. /\ z.kept = Append(v.kept, e) /\ z.live = v.live \ {d}
       /\ z.state = v.state /\ z.order = v.order
  BY <1>9, <1>13
<1>15. PICK k : k = Textures!DeleteTextures(h, d)
  OBVIOUS
<1>16. k.names = g.names \ {d} /\ k.tex = h.tex /\ Textures!DeleteTextures(g, d).names = g.names \ {d}
  BY <1>6, <1>15 DEF Textures!Drivers, Textures!DeleteTextures
<1>18. /\ v.kept = w.kept /\ v.live = w.live /\ w.live \subseteq Textures!Elems(v.order)
       /\ \A m \in w.live : h.tex[m] = [l \in LogNames |-> Textures!Fresh][m] /\ v.state[m] = [l \in LogNames |-> Textures!Fresh][m]
  BY <1>2, <1>4, <1>5 DEF Textures!Restores
<1>19. /\ z.kept = y.kept /\ z.live = y.live /\ y.live \subseteq w.live
  BY <1>2, <1>12, <1>14, <1>18
<1>22. Textures!ReplayGlTextureLog(y.kept) = k /\ Textures!Walk(y.kept) = z
  BY <1>7, <1>8, <1>12, <1>13, <1>15
<1>23. Textures!Restores(y.kept, Textures!DeleteTextures(g, d).names, y, [l \in LogNames |-> Textures!Fresh])
  BY <1>3, <1>10, <1>12, <1>14, <1>16, <1>18, <1>19, <1>22 DEF Textures!Restores
<1> QED
  BY <1>11, <1>23

-----------------------------------------------------------------------------
(* The session. *)
LEMMA LogInvInit ==
    ASSUME Textures!LogBounds, Textures!LogInit
    PROVE  Textures!LogInv
<1>1. PICK n \in BootTextures \cup {0} : v1 = [Textures!Booted EXCEPT !.bound = n]
  BY DEF Textures!LogInit
<1>2. v2 = <<>> /\ v3 = TRUE /\ v4 = {}
  BY DEF Textures!LogInit
<1>0. <<>> \in Seq(Textures!Entries)
  OBVIOUS
<1>3. PICK s \in Seq(Textures!Entries) : s = <<>>
  BY <1>0
<1>4. Len(s) = 0 /\ DOMAIN s = {}
  BY <1>3
<1>5. Textures!ReplayGlTextureLog(s) = Textures!Booted /\ Textures!Walk(s) = Textures!Nothing
  BY <1>4, ReplaysIs, WalksIs DEF Textures!ReplayGlTextureLog, Textures!Walk
<1>6. Textures!IdsMatch(s) /\ Textures!Generated(s) = {}
  BY <1>4 DEF Textures!IdsMatch, Textures!Generated
<1>7. v1 \in Textures!Drivers /\ v1.names = BootTextures /\ v1.bound \in BootTextures \cup {0}
  BY <1>1, BootedType DEF Textures!Booted, Textures!Drivers, Textures!LogBounds
<1>8. Textures!Nothing.kept = s /\ Textures!Nothing.live = {}
  BY <1>3 DEF Textures!Nothing
<1>9. Textures!Booted.names = BootTextures
  BY DEF Textures!Booted
<1>10. Textures!Restores(s, v1.names, Textures!Nothing, [m \in LogNames |-> Textures!Fresh])
  BY <1>5, <1>6, <1>7, <1>8, <1>9 DEF Textures!Restores
<1> QED
  BY <1>2, <1>3, <1>5, <1>6, <1>7, <1>8, <1>10 DEF Textures!LogInv, Textures!Sound

LEMMA GenSound ==
    ASSUME Textures!LogBounds, NEW s, NEW g, NEW u, NEW d, Textures!Sound(s, Textures!Walk(s), g, u, d), g.names # LogNames
    PROVE  Textures!Sound(Append(s, [op |-> "gen", name |-> Textures!NewName(g)]),
                 Textures!Walk(Append(s, [op |-> "gen", name |-> Textures!NewName(g)])), Textures!GenTextures(g), u,
                 d \ ({Textures!NewName(g)} \X Textures!FieldNames))
<1>1. s \in Seq(Textures!Entries) /\ g \in Textures!Drivers
  BY DEF Textures!Sound
<1>2. PICK n \in LogNames \ g.names : n = Textures!NewName(g)
  BY <1>1, NamesFree
<1>3. PICK e \in Textures!Entries : e = [op |-> "gen", name |-> n]
  BY DEF Textures!Entries
<1>4. e.op = "gen" /\ e.name = n /\ Append(s, e) \in Seq(Textures!Entries)
  BY <1>1, <1>3
<1>5. PICK w \in Textures!WalkStates : w = Textures!Walk(s)
  BY <1>1, WalkType
<1>6. PICK y : y = Textures!Walked(w, e)
  OBVIOUS
<1>7. Textures!Walk(Append(s, e)) = y
  BY <1>1, <1>5, <1>6, WalksAppend
<1>8. /\ y.kept = Append(w.kept, e) /\ y.live = w.live \cup {n}
      /\ y.state = [w.state EXCEPT ![n] = Textures!Fresh] /\ y.order = Textures!PushOnce(w.order, n)
      /\ y.bound = w.bound
  BY <1>4, <1>6 DEF Textures!Walked, Textures!Born, Textures!WalkStates
<1>9. PICK h : h = Textures!GenTextures(g)
  OBVIOUS
<1>10. h = [g EXCEPT !.names = @ \cup {n}, !.tex[n] = Textures!Fresh]
  BY <1>2, <1>9 DEF Textures!GenTextures
<1>11. h.names = g.names \cup {n} /\ h.tex = [g.tex EXCEPT ![n] = Textures!Fresh] /\ h.bound = g.bound
  BY <1>1, <1>10 DEF Textures!Drivers
<1>12. h \in Textures!Drivers
  <2>1. Textures!Replayed(g, e) = h
    BY <1>4, <1>9 DEF Textures!Replayed
  <2> QED
    BY <1>1, <2>1, ReplayedType
<1>13. h.bound \in h.names \cup {0}
  BY <1>11 DEF Textures!Sound
<1>14. Textures!Restores(y.kept, h.names, y, [m \in LogNames |-> Textures!Fresh])
  <2>1. Textures!Restores(w.kept, g.names, w, [m \in LogNames |-> Textures!Fresh])
    BY <1>5 DEF Textures!Sound
  <2>2. e = [op |-> "gen", name |-> Textures!NewName(g)]
    BY <1>2, <1>3
  <2> QED
    BY <1>1, <1>6, <1>9, <2>1, <2>2, GenRestores
<1>15. {m \in LogNames : e.op = "gen" /\ e.name = m} = {n}
  BY <1>4
<1>16. Textures!Generated(Append(s, e)) = Textures!Generated(s) \cup {n}
  BY <1>1, <1>15, GeneratedAppend
<1>17. Textures!Generated(y.kept) = Textures!Generated(w.kept) \cup {n}
  <2>1. w.kept \in Seq(Textures!Entries)
    BY DEF Textures!WalkStates
  <2> QED
    BY <1>8, <1>15, <2>1, GeneratedAppend
<1>18. /\ w.live = g.names \cap Textures!Generated(s) /\ w.live \subseteq Textures!Elems(w.order)
       /\ Textures!Generated(s) = Textures!Generated(w.kept) /\ (u \/ w.bound = g.bound)
       /\ \A m \in w.live : Textures!Alike(m, w.state[m], g.tex[m], d)
  BY <1>5 DEF Textures!Sound
<1>19. y.live = h.names \cap Textures!Generated(Append(s, e))
  BY <1>8, <1>11, <1>16, <1>18
<1>20. y.live \subseteq Textures!Elems(y.order)
  <2>1. w.order \in Seq(LogNames)
    BY DEF Textures!WalkStates
  <2>2. Textures!Elems(Textures!PushOnce(w.order, n)) = Textures!Elems(w.order) \cup {n}
    BY <2>1, PushOnceElems, PushOnceThere
  <2> QED
    BY <2>2, <1>8, <1>18
<1>21. \A m \in y.live : Textures!Alike(m, y.state[m], h.tex[m], d \ ({n} \X Textures!FieldNames))
  <2>1. w.state \in [LogNames -> Textures!Fields] /\ g.tex \in [LogNames -> Textures!Fields] /\ w.live \subseteq LogNames
    BY <1>1 DEF Textures!WalkStates, Textures!Drivers
  <2>2. \A m \in LogNames : /\ y.state[m] = IF m = n THEN Textures!Fresh ELSE w.state[m]
                        /\ h.tex[m] = IF m = n THEN Textures!Fresh ELSE g.tex[m]
    BY <2>1, <1>8, <1>11
  <2> TAKE m \in y.live
  <2>3. m \in LogNames /\ (m = n \/ m \in w.live)
    BY <2>1, <1>8
  <2>4. CASE m = n
    BY <2>2, <2>3, <2>4 DEF Textures!Alike
  <2>5. CASE m # n
    <3>1. Textures!Alike(m, y.state[m], h.tex[m], d)
      BY <1>18, <2>2, <2>3, <2>5
    <3> QED
      BY <2>5, <3>1 DEF Textures!Alike
  <2> QED
    BY <2>4, <2>5
<1>22. u \/ y.bound = h.bound
  BY <1>8, <1>11, <1>18
<1>23. Textures!Sound(Append(s, e), y, h, u, d \ ({n} \X Textures!FieldNames))
  BY <1>4, <1>12, <1>13, <1>14, <1>16, <1>17, <1>18, <1>19, <1>20, <1>21, <1>22 DEF Textures!Sound
<1> QED
  BY <1>2, <1>3, <1>7, <1>9, <1>23

LEMMA DeleteSound ==
    ASSUME Textures!LogBounds, NEW s, NEW g, NEW u, NEW d, Textures!Sound(s, Textures!Walk(s), g, u, d), NEW n \in g.names
    PROVE  Textures!Sound(Append(s, [op |-> "delete", name |-> n]),
                 Textures!Walk(Append(s, [op |-> "delete", name |-> n])), Textures!DeleteTextures(g, n), u, d)
<1>1. s \in Seq(Textures!Entries) /\ g \in Textures!Drivers /\ n \in LogNames
  BY DEF Textures!Sound, Textures!Drivers
<1>3. PICK e \in Textures!Entries : e = [op |-> "delete", name |-> n]
  BY <1>1 DEF Textures!Entries
<1>4. e.op = "delete" /\ e.name = n /\ Append(s, e) \in Seq(Textures!Entries)
  BY <1>1, <1>3
<1>5. PICK w \in Textures!WalkStates : w = Textures!Walk(s)
  BY <1>1, WalkType
<1>6. PICK y : y = Textures!Walked(w, e)
  OBVIOUS
<1>7. Textures!Walk(Append(s, e)) = y
  BY <1>1, <1>5, <1>6, WalksAppend
<1>8. /\ y.kept = Append(w.kept, e) /\ y.live = w.live \ {n}
      /\ y.state = w.state /\ y.order = w.order
      /\ y.bound = IF w.bound = n THEN 0 ELSE w.bound
  BY <1>4, <1>6 DEF Textures!Walked, Textures!WalkStates
<1>9. PICK h : h = Textures!DeleteTextures(g, n)
  OBVIOUS
<1>11. h.names = g.names \ {n} /\ h.tex = g.tex /\ h.bound = IF g.bound = n THEN 0 ELSE g.bound
  BY <1>1, <1>9 DEF Textures!Drivers, Textures!DeleteTextures
<1>12. h \in Textures!Drivers
  <2>1. Textures!Replayed(g, e) = h
    BY <1>4, <1>9 DEF Textures!Replayed
  <2> QED
    BY <1>1, <2>1, ReplayedType
<1>13. h.bound \in h.names \cup {0}
  BY <1>11 DEF Textures!Sound
<1>14. Textures!Restores(y.kept, h.names, y, [m \in LogNames |-> Textures!Fresh])
  <2>1. Textures!Restores(w.kept, g.names, w, [m \in LogNames |-> Textures!Fresh])
    BY <1>5 DEF Textures!Sound
  <2> QED
    BY <1>1, <1>3, <1>6, <1>9, <2>1, DeleteRestores
<1>15. {m \in LogNames : e.op = "gen" /\ e.name = m} = {}
  BY <1>4
<1>16. Textures!Generated(Append(s, e)) = Textures!Generated(s)
  BY <1>1, <1>15, GeneratedAppend
<1>17. Textures!Generated(y.kept) = Textures!Generated(w.kept)
  <2>1. w.kept \in Seq(Textures!Entries)
    BY DEF Textures!WalkStates
  <2>2. Textures!Generated(Append(w.kept, e))
           = Textures!Generated(w.kept) \cup {m \in LogNames : e.op = "gen" /\ e.name = m}
    BY <2>1, GeneratedAppend
  <2> QED
    BY <1>8, <1>15, <2>2
<1>18. /\ w.live = g.names \cap Textures!Generated(s) /\ w.live \subseteq Textures!Elems(w.order)
       /\ Textures!Generated(s) = Textures!Generated(w.kept) /\ (u \/ w.bound = g.bound)
       /\ \A m \in w.live : Textures!Alike(m, w.state[m], g.tex[m], d)
  BY <1>5 DEF Textures!Sound
<1>19. y.live = h.names \cap Textures!Generated(Append(s, e))
  BY <1>8, <1>11, <1>16, <1>18
<1>20. y.live \subseteq Textures!Elems(y.order) /\ y.live \subseteq w.live
  BY <1>8, <1>18
<1>21. \A m \in y.live : Textures!Alike(m, y.state[m], h.tex[m], d)
  BY <1>8, <1>11, <1>18, <1>20
<1>22. u \/ y.bound = h.bound
  BY <1>8, <1>11, <1>18
<1>23. Textures!Sound(Append(s, e), y, h, u, d)
  BY <1>4, <1>12, <1>13, <1>14, <1>16, <1>17, <1>18, <1>19, <1>20, <1>21, <1>22 DEF Textures!Sound
<1> QED
  BY <1>3, <1>7, <1>9, <1>23

LEMMA BindSound ==
    ASSUME Textures!LogBounds, NEW s, NEW g, NEW u, NEW d, Textures!Sound(s, Textures!Walk(s), g, u, d),
           NEW n \in g.names \cup {0}
    PROVE  Textures!Sound(Append(s, [op |-> "bind", name |-> n]),
                 Textures!Walk(Append(s, [op |-> "bind", name |-> n])), Textures!BindTexture(g, n), FALSE, d)
<1>1. s \in Seq(Textures!Entries) /\ g \in Textures!Drivers /\ n \in LogNames \cup {0}
  BY DEF Textures!Sound, Textures!Drivers
<1>3. PICK e \in Textures!Entries : e = [op |-> "bind", name |-> n]
  BY <1>1 DEF Textures!Entries
<1>4. e.op = "bind" /\ e.name = n /\ Append(s, e) \in Seq(Textures!Entries)
  BY <1>1, <1>3
<1>5. PICK w \in Textures!WalkStates : w = Textures!Walk(s)
  BY <1>1, WalkType
<1>6. PICK y : y = Textures!Walked(w, e)
  OBVIOUS
<1>7. Textures!Walk(Append(s, e)) = y
  BY <1>1, <1>5, <1>6, WalksAppend
<1>8. /\ y.kept = w.kept /\ y.live = w.live
      /\ y.state = w.state /\ y.order = w.order /\ y.bound = n
  BY <1>4, <1>6 DEF Textures!Walked, Textures!WalkStates
<1>9. PICK h : h = Textures!BindTexture(g, n)
  OBVIOUS
<1>11. h.names = g.names /\ h.tex = g.tex /\ h.bound = n
  BY <1>1, <1>9 DEF Textures!Drivers, Textures!BindTexture
<1>12. h \in Textures!Drivers
  <2>1. Textures!Replayed(g, e) = h
    BY <1>4, <1>9 DEF Textures!Replayed
  <2> QED
    BY <1>1, <2>1, ReplayedType
<1>14. Textures!Restores(y.kept, h.names, y, [m \in LogNames |-> Textures!Fresh])
  <2>1. Textures!Restores(w.kept, g.names, w, [m \in LogNames |-> Textures!Fresh])
    BY <1>5 DEF Textures!Sound
  <2> QED
    BY <2>1, <1>8, <1>11 DEF Textures!Restores
<1>15. {m \in LogNames : e.op = "gen" /\ e.name = m} = {}
  BY <1>4
<1>16. Textures!Generated(Append(s, e)) = Textures!Generated(s)
  BY <1>1, <1>15, GeneratedAppend
<1>18. /\ w.live = g.names \cap Textures!Generated(s) /\ w.live \subseteq Textures!Elems(w.order)
       /\ Textures!Generated(s) = Textures!Generated(w.kept)
       /\ \A m \in w.live : Textures!Alike(m, w.state[m], g.tex[m], d)
  BY <1>5 DEF Textures!Sound
<1>23. Textures!Sound(Append(s, e), y, h, FALSE, d)
  BY <1>4, <1>8, <1>11, <1>12, <1>14, <1>16, <1>18 DEF Textures!Sound
<1> QED
  BY <1>3, <1>7, <1>9, <1>23

\* setting a field of both, or of either a field that is lost, leaves them alike
LEMMA SetAlike ==
    ASSUME NEW m, NEW p \in Textures!Fields, NEW q \in Textures!Fields, NEW d, NEW k,
           NEW f \in Textures!FieldNames, NEW v, Textures!Alike(m, p, q, d),
           \A x \in Textures!FieldNames : x # f /\ <<m, x>> \in d => <<m, x>> \in k
    PROVE  Textures!Alike(m, Textures!Set(p, f, v), Textures!Set(q, f, v), k)
<1>1. CASE f = "param"
  BY <1>1 DEF Textures!Alike, Textures!Set, Textures!Fields, Textures!FieldNames
<1>2. CASE f = "image"
  BY <1>2 DEF Textures!Alike, Textures!Set, Textures!Fields, Textures!FieldNames
<1> QED
  BY <1>1, <1>2 DEF Textures!FieldNames

LEMMA WrittenAlike ==
    ASSUME NEW m, NEW p \in Textures!Fields, NEW q \in Textures!Fields, NEW d, NEW k,
           NEW f \in Textures!FieldNames, NEW c, NEW v, Textures!Alike(m, p, q, d),
           d \subseteq k, <<m, f>> \in k
    PROVE  /\ Textures!Alike(m, Textures!Set(p, f, c), q, k)
           /\ Textures!Alike(m, p, Textures!Set(q, f, v), k)
           /\ Textures!Alike(m, Textures!Set(p, f, c), Textures!Set(q, f, v), k)
<1>1. CASE f = "param"
  BY <1>1 DEF Textures!Alike, Textures!Set, Textures!Fields
<1>2. CASE f = "image"
  BY <1>2 DEF Textures!Alike, Textures!Set, Textures!Fields
<1> QED
  BY <1>1, <1>2 DEF Textures!FieldNames

LEMMA LessAlike ==
    ASSUME NEW m, NEW p, NEW q, NEW d, NEW k, Textures!Alike(m, p, q, d), d \subseteq k
    PROVE  Textures!Alike(m, p, q, k)
  BY DEF Textures!Alike

LEMMA WriteSound ==
    ASSUME Textures!LogBounds, NEW s, NEW g, NEW u \in BOOLEAN, NEW d,
           Textures!Sound(s, Textures!Walk(s), g, u, d), NEW f \in Textures!FieldNames,
           NEW v \in TextureValues, NEW c \in TextureValues, NEW k,
           u => k = d \cup ({g.bound, Textures!Walk(s).bound} \X {f}),
           ~u /\ c = v => k = d \ {<<g.bound, f>>},
           ~u /\ c # v => k = d \cup {<<g.bound, f>>}
    PROVE  Textures!Sound(Append(s, [op |-> f, value |-> c]),
                 Textures!Walk(Append(s, [op |-> f, value |-> c])), Textures!Write(g, f, v), u, k)
<1>1. s \in Seq(Textures!Entries) /\ g \in Textures!Drivers
  BY DEF Textures!Sound
<1>3. PICK e \in Textures!Entries : e = [op |-> f, value |-> c]
  BY <1>1 DEF Textures!Entries, Textures!FieldNames
<1>4. /\ e.op = f /\ e.value = c /\ Append(s, e) \in Seq(Textures!Entries)
      /\ f # "gen" /\ f # "delete" /\ f # "bind"
  BY <1>1, <1>3 DEF Textures!FieldNames
<1>5. PICK w \in Textures!WalkStates : w = Textures!Walk(s)
  BY <1>1, WalkType
<1>6. PICK y : y = Textures!Walked(w, e)
  OBVIOUS
<1>7. Textures!Walk(Append(s, e)) = y
  BY <1>1, <1>5, <1>6, WalksAppend
<1>8. /\ y.kept = w.kept /\ y.live = w.live /\ y.order = w.order /\ y.bound = w.bound
      /\ y.state = IF w.bound \in w.live
                   THEN [w.state EXCEPT ![w.bound] = Textures!Set(@, f, c)] ELSE w.state
  BY <1>4, <1>6 DEF Textures!Walked, Textures!WalkStates
<1>9. PICK h : h = Textures!Write(g, f, v)
  OBVIOUS
<1>11. /\ h.names = g.names /\ h.bound = g.bound
       /\ h.tex = IF g.bound \in g.names
                  THEN [g.tex EXCEPT ![g.bound] = Textures!Set(@, f, v)] ELSE g.tex
  BY <1>1, <1>9 DEF Textures!Drivers, Textures!Write
<1>12. h \in Textures!Drivers
  <2>1. PICK x \in Textures!Entries : x = [op |-> f, value |-> v]
    BY <1>1 DEF Textures!Entries, Textures!FieldNames
  <2>2. Textures!Replayed(g, x) = h
    BY <1>4, <1>9, <2>1 DEF Textures!Replayed
  <2> QED
    BY <1>1, <2>2, ReplayedType
<1>14. Textures!Restores(y.kept, h.names, y, [m \in LogNames |-> Textures!Fresh])
  <2>1. Textures!Restores(w.kept, g.names, w, [m \in LogNames |-> Textures!Fresh])
    BY <1>5 DEF Textures!Sound
  <2> QED
    BY <2>1, <1>8, <1>11 DEF Textures!Restores
<1>15. {m \in LogNames : e.op = "gen" /\ e.name = m} = {}
  BY <1>4
<1>16. Textures!Generated(Append(s, e)) = Textures!Generated(s)
  BY <1>1, <1>15, GeneratedAppend
<1>18. /\ w.live = g.names \cap Textures!Generated(s) /\ w.live \subseteq Textures!Elems(w.order)
       /\ Textures!Generated(s) = Textures!Generated(w.kept) /\ (u \/ w.bound = g.bound)
       /\ \A m \in w.live : Textures!Alike(m, w.state[m], g.tex[m], d)
       /\ g.bound \in g.names \cup {0}
  BY <1>5 DEF Textures!Sound
<1>19. ASSUME NEW m \in w.live
       PROVE  Textures!Alike(m, y.state[m], h.tex[m], k)
  <2>1. /\ w.state \in [LogNames -> Textures!Fields] /\ g.tex \in [LogNames -> Textures!Fields]
        /\ w.live \subseteq g.names /\ g.names \subseteq LogNames
    BY <1>1, <1>18 DEF Textures!WalkStates, Textures!Drivers
  <2>2. PICK p \in Textures!Fields, q \in Textures!Fields :
           p = w.state[m] /\ q = g.tex[m] /\ Textures!Alike(m, p, q, d)
    BY <1>18, <2>1
  <2>3. /\ y.state[m] = IF w.bound = m THEN Textures!Set(p, f, c) ELSE p
        /\ h.tex[m] = IF g.bound = m THEN Textures!Set(q, f, v) ELSE q
    BY <1>8, <1>11, <2>1, <2>2
  <2>4. CASE u
    <3>1. /\ d \subseteq k
          /\ w.bound = m \/ g.bound = m => <<m, f>> \in k
      BY <1>5, <2>4
    <3>2. CASE w.bound # m /\ g.bound # m
      BY <2>2, <2>3, <3>1, <3>2, LessAlike
    <3>3. CASE w.bound = m \/ g.bound = m
      <4>1. <<m, f>> \in k
        BY <3>1, <3>3
      <4>2. /\ Textures!Alike(m, Textures!Set(p, f, c), q, k)
            /\ Textures!Alike(m, p, Textures!Set(q, f, v), k)
            /\ Textures!Alike(m, Textures!Set(p, f, c), Textures!Set(q, f, v), k)
        BY <2>2, <3>1, <4>1, WrittenAlike
      <4> QED
        BY <2>3, <3>3, <4>2
    <3> QED
      BY <3>2, <3>3
  <2>5. CASE ~u
    <3>1. w.bound = g.bound
      BY <1>18, <2>5
    <3>2. CASE g.bound # m
      <4>1. \A x : <<m, x>> \in d => <<m, x>> \in k
        BY <2>5, <3>2
      <4> QED
        BY <2>2, <2>3, <3>1, <3>2, <4>1 DEF Textures!Alike
    <3>3. CASE g.bound = m /\ c = v
      <4>1. \A x \in Textures!FieldNames : x # f /\ <<m, x>> \in d => <<m, x>> \in k
        BY <2>5, <3>3
      <4> QED
        BY <2>2, <2>3, <3>1, <3>3, <4>1, SetAlike
    <3>4. CASE g.bound = m /\ c # v
      <4>1. d \subseteq k /\ <<m, f>> \in k
        BY <2>5, <3>4
      <4>2. Textures!Alike(m, Textures!Set(p, f, c), Textures!Set(q, f, v), k)
        BY <2>2, <4>1, WrittenAlike
      <4> QED
        BY <2>3, <3>1, <3>4, <4>2
    <3> QED
      BY <3>2, <3>3, <3>4
  <2> QED
    BY <2>4, <2>5
<1>20. \A m \in y.live : Textures!Alike(m, y.state[m], h.tex[m], k)
  BY <1>8, <1>19
<1>21. u \/ y.bound = h.bound
  BY <1>8, <1>11, <1>18
<1>22. h.bound \in h.names \cup {0} /\ y.live = h.names \cap Textures!Generated(Append(s, e))
       /\ y.live \subseteq Textures!Elems(y.order) /\ Textures!Generated(Append(s, e)) = Textures!Generated(y.kept)
  BY <1>8, <1>11, <1>16, <1>18
<1>23. Textures!Sound(Append(s, e), y, h, u, k)
  BY <1>4, <1>12, <1>14, <1>20, <1>21, <1>22 DEF Textures!Sound
<1> QED
  BY <1>3, <1>7, <1>9, <1>23

LEMMA SubImageSound ==
    ASSUME Textures!LogBounds, NEW s, NEW g, NEW u, NEW d, Textures!Sound(s, Textures!Walk(s), g, u, d),
           NEW v \in TextureValues
    PROVE  Textures!Sound(s, Textures!Walk(s), Textures!Write(g, "image", v), u,
                          d \cup {<<g.bound, "image">>})
<1>1. g \in Textures!Drivers
  BY DEF Textures!Sound
<1>2. PICK h : h = Textures!Write(g, "image", v)
  OBVIOUS
<1>3. /\ h.names = g.names /\ h.bound = g.bound
      /\ h.tex = IF g.bound \in g.names
                 THEN [g.tex EXCEPT ![g.bound] = Textures!Set(@, "image", v)] ELSE g.tex
  BY <1>1, <1>2 DEF Textures!Drivers, Textures!Write
<1>4. h \in Textures!Drivers
  <2>1. PICK x \in Textures!Entries : x = [op |-> "image", value |-> v]
    BY DEF Textures!Entries
  <2>2. Textures!Replayed(g, x) = h
    BY <1>2, <2>1 DEF Textures!Replayed
  <2> QED
    BY <1>1, <2>2, ReplayedType
<1>5. s \in Seq(Textures!Entries)
  BY DEF Textures!Sound
<1>6. PICK w \in Textures!WalkStates : w = Textures!Walk(s)
  BY <1>5, WalkType
<1>7. /\ w.live = g.names \cap Textures!Generated(s)
      /\ \A m \in w.live : Textures!Alike(m, w.state[m], g.tex[m], d)
  BY <1>6 DEF Textures!Sound
<1>8. ASSUME NEW m \in w.live
      PROVE  Textures!Alike(m, w.state[m], h.tex[m], d \cup {<<g.bound, "image">>})
  <2>1. /\ w.state \in [LogNames -> Textures!Fields] /\ g.tex \in [LogNames -> Textures!Fields]
        /\ w.live \subseteq g.names /\ g.names \subseteq LogNames
    BY <1>1, <1>7 DEF Textures!WalkStates, Textures!Drivers
  <2>2. PICK p \in Textures!Fields, q \in Textures!Fields :
           p = w.state[m] /\ q = g.tex[m] /\ Textures!Alike(m, p, q, d)
    BY <1>7, <2>1
  <2>3. h.tex[m] = IF g.bound = m THEN Textures!Set(q, "image", v) ELSE q
    BY <1>3, <2>1, <2>2
  <2>4. "image" \in Textures!FieldNames
    BY DEF Textures!FieldNames
  <2>5. PICK k : k = d \cup {<<g.bound, "image">>}
    OBVIOUS
  <2>6. d \subseteq k
    BY <2>5
  <2>7. CASE g.bound = m
    <3>1. <<m, "image">> \in k
      BY <2>5, <2>7
    <3>2. Textures!Alike(m, p, Textures!Set(q, "image", v), k)
      BY <2>2, <2>4, <2>6, <3>1, WrittenAlike
    <3> QED
      BY <2>2, <2>3, <2>5, <2>7, <3>2
  <2>8. CASE g.bound # m
    <3>1. Textures!Alike(m, p, q, k)
      BY <2>2, <2>6, LessAlike
    <3> QED
      BY <2>2, <2>3, <2>5, <2>8, <3>1
  <2> QED
    BY <2>7, <2>8
<1>9. Textures!Sound(s, w, h, u, d \cup {<<g.bound, "image">>})
  BY <1>3, <1>4, <1>6, <1>8 DEF Textures!Sound
<1> QED
  BY <1>2, <1>6, <1>9

LEMMA CompactedRestores ==
    ASSUME Textures!LogBounds, NEW s, NEW g, NEW u, NEW d, Textures!Sound(s, Textures!Walk(s), g, u, d)
    PROVE  /\ Textures!Restores(Textures!CompactGlTextureLog(s), g.names, Textures!Walk(s), Textures!Walk(s).state)
           /\ Textures!CompactGlTextureLog(s) \in Seq(Textures!Entries)
<1>1. s \in Seq(Textures!Entries) /\ g \in Textures!Drivers
  BY DEF Textures!Sound
<1>2. PICK w \in Textures!WalkStates : w = Textures!Walk(s)
  BY <1>1, WalkType
<1>3. PICK names \in SUBSET LogNames : names = g.names
  BY <1>1 DEF Textures!Drivers
<1>4. /\ w.live \subseteq names /\ w.live \subseteq Textures!Elems(w.order)
      /\ Textures!Restores(w.kept, names, w, [n \in LogNames |-> Textures!Fresh])
  BY <1>2, <1>3 DEF Textures!Sound
<1>5. Textures!Restores(Textures!Emissions(w)[Len(w.order)], names, w, w.state)
  BY <1>4, EmissionsRestore
<1>6. Textures!CompactGlTextureLog(s) = Textures!Emissions(w)[Len(w.order)]
  BY <1>2 DEF Textures!CompactGlTextureLog
<1> QED
  BY <1>2, <1>3, <1>5, <1>6 DEF Textures!Restores

LEMMA CompactSound ==
    ASSUME Textures!LogBounds, NEW s, NEW g, NEW u, NEW d, Textures!Sound(s, Textures!Walk(s), g, u, d)
    PROVE  Textures!Sound(Textures!CompactGlTextureLog(s), Textures!Walk(Textures!CompactGlTextureLog(s)), g, TRUE, d)
<1>1. s \in Seq(Textures!Entries) /\ g \in Textures!Drivers
  BY DEF Textures!Sound
<1>2. PICK w \in Textures!WalkStates : w = Textures!Walk(s)
  BY <1>1, WalkType
<1>3. PICK x \in Seq(Textures!Entries) : x = Textures!CompactGlTextureLog(s)
  BY CompactedRestores
<1>4. Textures!Restores(x, g.names, w, w.state)
  BY <1>2, <1>3, CompactedRestores
<1>5. PICK y \in Textures!WalkStates : y = Textures!Walk(x)
  BY <1>3, WalkType
<1>6. /\ Textures!Generated(x) = Textures!Generated(w.kept) /\ y.kept = w.kept /\ y.live = w.live
      /\ w.live \subseteq Textures!Elems(y.order) /\ \A n \in w.live : y.state[n] = w.state[n]
  BY <1>4, <1>5 DEF Textures!Restores
<1>7. /\ w.live = g.names \cap Textures!Generated(s) /\ Textures!Generated(s) = Textures!Generated(w.kept)
      /\ Textures!Restores(w.kept, g.names, w, [m \in LogNames |-> Textures!Fresh])
      /\ \A m \in w.live : Textures!Alike(m, w.state[m], g.tex[m], d)
      /\ g.bound \in g.names \cup {0}
  BY <1>2 DEF Textures!Sound
<1>8. Textures!Restores(y.kept, g.names, y, [m \in LogNames |-> Textures!Fresh])
  BY <1>6, <1>7 DEF Textures!Restores
<1>9. Textures!Sound(x, y, g, TRUE, d)
  BY <1>1, <1>3, <1>6, <1>7, <1>8 DEF Textures!Sound
<1> QED
  BY <1>3, <1>5, <1>9

LEMMA LogInvSays ==
    ASSUME Textures!LogBounds, Textures!LogInv
    PROVE  Textures!TexturesReturn
<1>1. v2 \in Seq(Textures!Entries) /\ v1 \in Textures!Drivers /\ Textures!Sound(v2, Textures!Walk(v2), v1, v3, v4)
  BY DEF Textures!LogInv, Textures!Sound
<1>2. PICK w \in Textures!WalkStates : w = Textures!Walk(v2)
  BY <1>1, WalkType
<1>3. PICK x : x = Textures!CompactGlTextureLog(v2)
  OBVIOUS
<1>4. Textures!Restores(x, v1.names, w, w.state)
  BY <1>1, <1>2, <1>3, CompactedRestores
<1>5. Textures!IdsMatch(x) /\ \A n \in w.live : Textures!ReplayGlTextureLog(x).tex[n] = w.state[n]
  BY <1>4 DEF Textures!Restores
<1>6. w.live = v1.names \cap Textures!Generated(v2) /\ (\A n \in w.live : Textures!Alike(n, w.state[n], v1.tex[n], v4))
  BY <1>1, <1>2 DEF Textures!Sound
<1>7. Textures!Created = w.live
  BY <1>1, <1>6 DEF Textures!Created, Textures!Generated, Textures!Drivers
<1> QED
  BY <1>3, <1>5, <1>6, <1>7 DEF Textures!TexturesReturn

LEMMA LogInvStep ==
    ASSUME Textures!LogBounds, Textures!LogInv, [Textures!LogNext]_Textures!logVars
    PROVE  Textures!LogInv'
<1> DEFINE Written == (LogNames \cup {0}) \X Textures!FieldNames
<1>0. v3 \in BOOLEAN /\ v4 \subseteq Written /\ Textures!Sound(v2, Textures!Walk(v2), v1, v3, v4)
  BY DEF Textures!LogInv
<1>1. CASE Textures!RecordGen
  <2>1. /\ v1.names # LogNames /\ v2' = Append(v2, [op |-> "gen", name |-> Textures!NewName(v1)])
        /\ v1' = Textures!GenTextures(v1) /\ v3' = v3
        /\ v4' = v4 \ ({Textures!NewName(v1)} \X Textures!FieldNames)
    BY <1>1 DEF Textures!RecordGen, Textures!Recorded
  <2>2. Textures!Sound(v2', Textures!Walk(v2'), v1', v3, v4')
    BY <1>0, <2>1, GenSound
  <2> QED
    BY <1>0, <2>1, <2>2 DEF Textures!LogInv
<1>2. CASE Textures!RecordDelete
  <2>1. PICK n \in v1.names :
           /\ v2' = Append(v2, [op |-> "delete", name |-> n])
           /\ v1' = Textures!DeleteTextures(v1, n) /\ v3' = v3 /\ v4' = v4
    BY <1>2 DEF Textures!RecordDelete, Textures!Recorded
  <2>2. Textures!Sound(v2', Textures!Walk(v2'), v1', v3, v4)
    BY <1>0, <2>1, DeleteSound
  <2> QED
    BY <1>0, <2>1, <2>2 DEF Textures!LogInv
<1>3. CASE Textures!RecordBind
  <2>1. PICK n \in v1.names \cup {0} :
           /\ v2' = Append(v2, [op |-> "bind", name |-> n])
           /\ v1' = Textures!BindTexture(v1, n) /\ v3' = FALSE /\ v4' = v4
    BY <1>3 DEF Textures!RecordBind, Textures!Recorded
  <2>2. Textures!Sound(v2', Textures!Walk(v2'), v1', FALSE, v4)
    BY <1>0, <2>1, BindSound
  <2> QED
    BY <1>0, <2>1, <2>2 DEF Textures!LogInv
<1>4. CASE Textures!RecordWrite
  <2>1. PICK f \in Textures!FieldNames, v \in TextureValues, c \in TextureValues :
           /\ v2' = Append(v2, [op |-> f, value |-> c])
           /\ v1' = Textures!Write(v1, f, v) /\ v3' = v3 /\ v4' = Textures!LostBy(f, v, c)
    BY <1>4 DEF Textures!RecordWrite, Textures!Recorded, Textures!Copies, Textures!LogBounds
  <2>2. /\ v3 => v4' = v4 \cup ({v1.bound, Textures!Walk(v2).bound} \X {f})
        /\ ~v3 /\ c = v => v4' = v4 \ {<<v1.bound, f>>}
        /\ ~v3 /\ c # v => v4' = v4 \cup {<<v1.bound, f>>}
    BY <1>0, <2>1 DEF Textures!LostBy
  <2>3. Textures!Sound(v2', Textures!Walk(v2'), v1', v3, v4')
    BY <1>0, <2>1, <2>2, WriteSound
  <2>4. v1.bound \in LogNames \cup {0} /\ Textures!Walk(v2).bound \in LogNames \cup {0}
    BY <1>0, WalkType DEF Textures!Sound, Textures!Drivers, Textures!WalkStates
  <2>5. v3' \in BOOLEAN /\ v4' \subseteq Written
    BY <1>0, <2>1, <2>2, <2>4
  <2> QED
    BY <2>1, <2>3, <2>5 DEF Textures!LogInv
<1>7. CASE Textures!TexSubImage2D
  <2>1. PICK v \in TextureValues :
           /\ v1' = Textures!Write(v1, "image", v) /\ v2' = v2 /\ v3' = v3
           /\ v4' = v4 \cup {<<v1.bound, "image">>}
    BY <1>7 DEF Textures!TexSubImage2D
  <2>2. Textures!Sound(v2', Textures!Walk(v2'), v1', v3, v4')
    BY <1>0, <2>1, SubImageSound
  <2>3. v1.bound \in LogNames \cup {0} /\ "image" \in Textures!FieldNames
    BY <1>0 DEF Textures!Sound, Textures!Drivers, Textures!FieldNames
  <2>4. v4' \subseteq Written
    BY <1>0, <2>1, <2>3
  <2> QED
    BY <1>0, <2>1, <2>2, <2>4 DEF Textures!LogInv
<1>5. CASE Textures!CompactLog
  <2>1. v2' = Textures!CompactGlTextureLog(v2) /\ v1' = v1 /\ v3' = TRUE /\ v4' = v4
    BY <1>5 DEF Textures!CompactLog
  <2>2. Textures!Sound(v2', Textures!Walk(v2'), v1', TRUE, v4)
    BY <1>0, <2>1, CompactSound
  <2> QED
    BY <1>0, <2>1, <2>2 DEF Textures!LogInv
<1>6. CASE UNCHANGED Textures!logVars
  <2>1. v2' = v2 /\ v1' = v1 /\ v3' = v3 /\ v4' = v4
    BY <1>6 DEF Textures!logVars
  <2> QED
    BY <1>0, <2>1 DEF Textures!LogInv
<1> QED
  BY <1>1, <1>2, <1>3, <1>4, <1>5, <1>6, <1>7 DEF Textures!LogNext

-----------------------------------------------------------------------------
(* The backend that draws. *)
Presenter == INSTANCE GlPresenter WITH
    GuestTextures <- DrawnTextures, Sizes <- PbufferSizes,
    driver <- v1, gl <- v2, guest <- v3, overlay <- v4

LEMMA PresenterInvInit ==
    ASSUME Presenter!PresenterInit
    PROVE  Presenter!PresenterInv
<1>1. v2 \in Presenter!Contexts
  BY DEF Presenter!PresenterInit, Presenter!Contexts, Presenter!Targets, Presenter!Units
<1>2. v3 \in [active : Presenter!Units, client : Presenter!Units, bound : BOOLEAN, made : BOOLEAN, size : PbufferSizes \cup {0}]
  BY DEF Presenter!PresenterInit, Presenter!Units
<1>3. ~v1.fbo => v2.target = "window" /\ ~v3.bound
  BY DEF Presenter!PresenterInit
<1>4. Presenter!ScreenStaysOut
  BY DEF Presenter!PresenterInit, Presenter!ScreenStaysOut
<1>5. v1 \in [fbo : BOOLEAN, units : BOOLEAN] /\ v4 \in BOOLEAN
  BY DEF Presenter!PresenterInit
<1> QED
  BY <1>1, <1>2, <1>3, <1>4, <1>5 DEF Presenter!PresenterInv

LEMMA PresenterInvSays ==
    ASSUME Presenter!PresenterInv
    PROVE  Presenter!ScreenStaysOut
  BY DEF Presenter!PresenterInv

(* What the helpers leave of a context. *)
LEMMA SelectKeeps ==
    ASSUME NEW c \in Presenter!Contexts
    PROVE  /\ Presenter!SelectHostUnitZero(c) \in Presenter!Contexts
           /\ Presenter!SelectHostUnitZero(c).target = c.target /\ Presenter!SelectHostUnitZero(c).shows = c.shows
           /\ v1.units => /\ Presenter!SelectHostUnitZero(c).active = 0
                              /\ Presenter!SelectHostUnitZero(c).client = 0
<1>1. CASE v1.units
  <2>1. PICK d : d = [c EXCEPT !.active = 0, !.client = 0]
    OBVIOUS
  <2>2. Presenter!SelectHostUnitZero(c) = d
    BY <1>1, <2>1 DEF Presenter!SelectHostUnitZero
  <2>0. 0 \in Presenter!Units
    BY DEF Presenter!Units
  <2>3. d \in Presenter!Contexts
    BY <2>0, <2>1 DEF Presenter!Contexts
  <2>4. d.target = c.target /\ d.shows = c.shows /\ d.active = 0 /\ d.client = 0
    BY <2>1 DEF Presenter!Contexts
  <2> QED
    BY <2>2, <2>3, <2>4
<1>2. CASE ~v1.units
  BY <1>2 DEF Presenter!SelectHostUnitZero
<1> QED
  BY <1>1, <1>2

LEMMA RestoreKeeps ==
    ASSUME NEW c \in Presenter!Contexts,
           v3 \in [active : Presenter!Units, client : Presenter!Units, bound : BOOLEAN, made : BOOLEAN, size : PbufferSizes \cup {0}]
    PROVE  /\ Presenter!RestoreGuestTextureUnits(c) \in Presenter!Contexts
           /\ Presenter!RestoreGuestTextureUnits(c).target = c.target
           /\ Presenter!RestoreGuestTextureUnits(c).shows = c.shows
           /\ v1.units /\ c.active = 0 /\ c.client = 0 =>
                 /\ Presenter!RestoreGuestTextureUnits(c).active = v3.active
                 /\ Presenter!RestoreGuestTextureUnits(c).client = v3.client
<1>1. CASE v1.units
  <2>1. Presenter!RestoreGuestTextureUnits(c)
           = [c EXCEPT !.active = IF v3.active # 0 THEN v3.active ELSE c.active,
                       !.client = IF v3.client # 0 THEN v3.client ELSE c.client]
    BY <1>1 DEF Presenter!RestoreGuestTextureUnits
  <2> QED
    BY <2>1 DEF Presenter!Contexts, Presenter!Units
<1>2. CASE ~v1.units
  BY <1>2 DEF Presenter!RestoreGuestTextureUnits
<1> QED
  BY <1>1, <1>2

LEMMA DrawnKeeps ==
    ASSUME NEW c \in Presenter!Contexts, NEW what \in {"guest", "overlay", "screen"}
    PROVE  /\ Presenter!Drawn(c, what) \in Presenter!Contexts /\ Presenter!Drawn(c, what).target = c.target
           /\ Presenter!Drawn(c, what).active = c.active /\ Presenter!Drawn(c, what).client = c.client
           /\ c.shows["pbuffer"] # "screen" /\ (what = "screen" => c.target # "pbuffer") =>
                 Presenter!Drawn(c, what).shows["pbuffer"] # "screen"
  BY DEF Presenter!Drawn, Presenter!Contexts, Presenter!Targets

LEMMA OverlayKeeps ==
    ASSUME NEW c \in Presenter!Contexts, v4 \in BOOLEAN
    PROVE  /\ Presenter!DrawOverlay(c) \in Presenter!Contexts /\ Presenter!DrawOverlay(c).target = c.target
           /\ c.shows["pbuffer"] # "screen" => Presenter!DrawOverlay(c).shows["pbuffer"] # "screen"
<1>1. CASE v4
  <2>1. PICK d \in Presenter!Contexts : d = Presenter!SelectHostUnitZero(c)
    BY SelectKeeps
  <2>2. d.target = c.target /\ d.shows = c.shows
    BY <2>1, SelectKeeps
  <2>3. Presenter!DrawOverlay(c) = Presenter!Drawn(d, "overlay")
    BY <1>1, <2>1 DEF Presenter!DrawOverlay
  <2> QED
    BY <2>2, <2>3, DrawnKeeps
<1>2. CASE ~v4
  BY <1>2 DEF Presenter!DrawOverlay
<1> QED
  BY <1>1, <1>2

LEMMA PresentKeeps ==
    ASSUME Presenter!PresenterInv, NEW c \in Presenter!Contexts, c.shows["pbuffer"] # "screen",
           ~v1.fbo => c.target = "window"
    PROVE  /\ Presenter!PresentFrame(c) \in Presenter!Contexts
           /\ Presenter!PresentFrame(c).shows["pbuffer"] # "screen"
           /\ ~v1.fbo => Presenter!PresentFrame(c).target = "window"
           /\ v1.fbo /\ v1.units => /\ Presenter!PresentFrame(c).active = v3.active
                                            /\ Presenter!PresentFrame(c).client = v3.client
<1>0. /\ v4 \in BOOLEAN
      /\ v3 \in [active : Presenter!Units, client : Presenter!Units, bound : BOOLEAN, made : BOOLEAN, size : PbufferSizes \cup {0}]
  BY DEF Presenter!PresenterInv
<1>1. PICK b \in Presenter!Contexts : b = Presenter!DrawOverlay(c)
  BY <1>0, OverlayKeeps
<1>2. b.target = c.target /\ b.shows["pbuffer"] # "screen"
  BY <1>0, <1>1, OverlayKeeps
<1>3. PICK d \in Presenter!Contexts : d = Presenter!SelectHostUnitZero(b)
  BY SelectKeeps
<1>4. d.target = c.target /\ d.shows = b.shows /\ (v1.units => d.active = 0 /\ d.client = 0)
  BY <1>2, <1>3, SelectKeeps
<1>5. CASE v1.fbo
  <2>1. PICK e : e = [d EXCEPT !.target = "frame", !.viewport = "letterbox", !.clear = "black",
                               !.shows["window"] = d.shows["frame"]]
    OBVIOUS
  <2>2. e \in Presenter!Contexts /\ e.active = d.active /\ e.client = d.client
        /\ e.shows["pbuffer"] = d.shows["pbuffer"]
    BY <2>1 DEF Presenter!Contexts, Presenter!Targets
  <2>3. Presenter!PresentFrame(c) = Presenter!RestoreGuestTextureUnits(e)
    BY <1>1, <1>3, <1>5, <2>1 DEF Presenter!PresentFrame
  <2> QED
    BY <1>0, <1>2, <1>4, <1>5, <2>2, <2>3, RestoreKeeps
<1>6. CASE ~v1.fbo
  <2>1. Presenter!PresentFrame(c) = d
    BY <1>1, <1>3, <1>6 DEF Presenter!PresentFrame
  <2> QED
    BY <1>2, <1>4, <1>6, <2>1
<1> QED
  BY <1>5, <1>6

LEMMA PresenterInvStep ==
    ASSUME Presenter!PresenterInv, [Presenter!PresenterNext]_Presenter!presenterVars
    PROVE  Presenter!PresenterInv'
<1>0. /\ v1 \in [fbo : BOOLEAN, units : BOOLEAN] /\ v4 \in BOOLEAN
      /\ v3 \in [active : Presenter!Units, client : Presenter!Units, bound : BOOLEAN, made : BOOLEAN, size : PbufferSizes \cup {0}]
      /\ v2 \in Presenter!Contexts /\ (~v1.fbo => v2.target = "window" /\ ~v3.bound)
      /\ v2.shows["pbuffer"] # "screen"
      /\ v1.fbo /\ v1.units => v2.active = v3.active /\ v2.client = v3.client
  BY DEF Presenter!PresenterInv, Presenter!ScreenStaysOut
<1>k. ASSUME v1' = v1, v3' = v3, v4' \in BOOLEAN, v2' \in Presenter!Contexts,
             ~v1.fbo => v2'.target = "window", v2'.shows["pbuffer"] # "screen",
             v1.fbo /\ v1.units => v2'.active = v3.active /\ v2'.client = v3.client
      PROVE  Presenter!PresenterInv'
  BY <1>0, <1>k DEF Presenter!PresenterInv, Presenter!ScreenStaysOut
<1>1. CASE Presenter!BindTexture
  BY <1>0, <1>1, <1>k DEF Presenter!BindTexture, Presenter!Contexts
<1>2. CASE Presenter!ActiveTexture
  <2>1. /\ v1' = v1 /\ v4' = v4
        /\ \E u \in Presenter!Units : /\ v3' = [v3 EXCEPT !.active = u]
                            /\ v2' = IF v1.units THEN [v2 EXCEPT !.active = u] ELSE v2
    BY <1>2 DEF Presenter!ActiveTexture
  <2>2. PICK u \in Presenter!Units : /\ v3' = [v3 EXCEPT !.active = u]
                           /\ v2' = IF v1.units THEN [v2 EXCEPT !.active = u] ELSE v2
    BY <2>1
  <2>3. /\ v3' \in [active : Presenter!Units, client : Presenter!Units, bound : BOOLEAN, made : BOOLEAN, size : PbufferSizes \cup {0}]
        /\ v3'.active = u /\ v3'.client = v3.client /\ v3'.bound = v3.bound
    BY <1>0, <2>2
  <2>4. CASE v1.units
    <3>1. v2' = [v2 EXCEPT !.active = u]
      BY <2>2, <2>4
    <3>2. /\ v2' \in Presenter!Contexts /\ v2'.active = u /\ v2'.client = v2.client
          /\ v2'.target = v2.target /\ v2'.shows = v2.shows
      BY <1>0, <3>1 DEF Presenter!Contexts
    <3> QED
      BY <1>0, <2>1, <2>3, <3>2 DEF Presenter!PresenterInv, Presenter!ScreenStaysOut
  <2>5. CASE ~v1.units
    <3>1. v2' = v2
      BY <2>2, <2>5
    <3> QED
      BY <1>0, <2>1, <2>3, <2>5, <3>1 DEF Presenter!PresenterInv, Presenter!ScreenStaysOut
  <2> QED
    BY <2>4, <2>5
<1>3. CASE Presenter!ClientActiveTexture
  <2>1. /\ v1' = v1 /\ v4' = v4
        /\ \E u \in Presenter!Units : /\ v3' = [v3 EXCEPT !.client = u]
                            /\ v2' = IF v1.units THEN [v2 EXCEPT !.client = u] ELSE v2
    BY <1>3 DEF Presenter!ClientActiveTexture
  <2>2. PICK u \in Presenter!Units : /\ v3' = [v3 EXCEPT !.client = u]
                           /\ v2' = IF v1.units THEN [v2 EXCEPT !.client = u] ELSE v2
    BY <2>1
  <2>3. /\ v3' \in [active : Presenter!Units, client : Presenter!Units, bound : BOOLEAN, made : BOOLEAN, size : PbufferSizes \cup {0}]
        /\ v3'.client = u /\ v3'.active = v3.active /\ v3'.bound = v3.bound
    BY <1>0, <2>2
  <2>4. CASE v1.units
    <3>1. v2' = [v2 EXCEPT !.client = u]
      BY <2>2, <2>4
    <3>2. /\ v2' \in Presenter!Contexts /\ v2'.client = u /\ v2'.active = v2.active
          /\ v2'.target = v2.target /\ v2'.shows = v2.shows
      BY <1>0, <3>1 DEF Presenter!Contexts
    <3> QED
      BY <1>0, <2>1, <2>3, <3>2 DEF Presenter!PresenterInv, Presenter!ScreenStaysOut
  <2>5. CASE ~v1.units
    <3>1. v2' = v2
      BY <2>2, <2>5
    <3> QED
      BY <1>0, <2>1, <2>3, <2>5, <3>1 DEF Presenter!PresenterInv, Presenter!ScreenStaysOut
  <2> QED
    BY <2>4, <2>5
<1>4. CASE Presenter!SetState
  BY <1>0, <1>4, <1>k DEF Presenter!SetState, Presenter!Contexts
<1>5. CASE Presenter!DrawArrays
  <2>1. PICK c \in Presenter!Contexts : c = Presenter!SelectHostUnitZero(v2)
    BY <1>0, SelectKeeps
  <2>2. c.shows = v2.shows /\ c.target = v2.target /\ (v1.units => c.active = 0 /\ c.client = 0)
    BY <1>0, <2>1, SelectKeeps
  <2>3. PICK d \in Presenter!Contexts : d = Presenter!Drawn(c, "guest")
    BY DrawnKeeps
  <2>4. /\ d.target = v2.target /\ d.shows["pbuffer"] # "screen"
        /\ v1.units => d.active = 0 /\ d.client = 0
    BY <1>0, <2>2, <2>3, DrawnKeeps
  <2>5. v2' = Presenter!RestoreGuestTextureUnits(d) /\ v1' = v1 /\ v3' = v3 /\ v4' = v4
    BY <1>5, <2>1, <2>3 DEF Presenter!DrawArrays
  <2> QED
    BY <1>0, <1>k, <2>4, <2>5, RestoreKeeps
<1>6. CASE Presenter!BindOffscreenTarget
  <2>5. PICK s \in PbufferSizes, complete \in BOOLEAN :
           LET anew == ~v3.made \/ v3.size # s
               d == IF anew THEN [v2 EXCEPT !.texture[v2.active] = "pbuffer",
                                            !.shows["pbuffer"] = "nothing"]
                    ELSE v2
           IN  /\ v1.fbo
               /\ IF anew /\ ~complete
                  THEN /\ v3' = [v3 EXCEPT !.made = FALSE]
                       /\ v2' = [d EXCEPT !.target = "frame"]
                  ELSE /\ v3' = [v3 EXCEPT !.bound = TRUE, !.made = TRUE, !.size = s]
                       /\ v2' = [d EXCEPT !.target = "pbuffer", !.viewport = "pbuffer"]
               /\ UNCHANGED <<v1, v4>>
    BY <1>6 DEF Presenter!BindOffscreenTarget
  <2>6. PICK c : c = IF ~v3.made \/ v3.size # s
                     THEN [v2 EXCEPT !.texture[v2.active] = "pbuffer",
                                     !.shows["pbuffer"] = "nothing"]
                     ELSE v2
    OBVIOUS
  <2>1. /\ v1.fbo /\ v1' = v1 /\ v4' = v4
        /\ c = v2 \/ c = [v2 EXCEPT !.texture[v2.active] = "pbuffer",
                                    !.shows["pbuffer"] = "nothing"]
        /\ \/ /\ v3' = [v3 EXCEPT !.made = FALSE]
              /\ v2' = [c EXCEPT !.target = "frame"]
           \/ /\ v3' = [v3 EXCEPT !.bound = TRUE, !.made = TRUE, !.size = s]
              /\ v2' = [c EXCEPT !.target = "pbuffer", !.viewport = "pbuffer"]
    BY <2>5, <2>6
  <2>2. /\ c \in Presenter!Contexts /\ c.shows["pbuffer"] # "screen" /\ c.active = v2.active
        /\ c.client = v2.client
    <3>1. CASE c = v2
      BY <1>0, <3>1
    <3>2. CASE c = [v2 EXCEPT !.texture[v2.active] = "pbuffer", !.shows["pbuffer"] = "nothing"]
      BY <1>0, <3>2 DEF Presenter!Contexts, Presenter!Targets
    <3> QED
      BY <2>1, <3>1, <3>2
  <2>3. CASE v3' = [v3 EXCEPT !.made = FALSE] /\ v2' = [c EXCEPT !.target = "frame"]
    <3>1. /\ v2' \in Presenter!Contexts /\ v2'.shows["pbuffer"] # "screen" /\ v2'.active = v2.active
          /\ v2'.client = v2.client
      BY <2>2, <2>3 DEF Presenter!Contexts, Presenter!Targets
    <3>2. /\ v3' \in [active : Presenter!Units, client : Presenter!Units, bound : BOOLEAN, made : BOOLEAN, size : PbufferSizes \cup {0}]
          /\ v3'.active = v3.active /\ v3'.client = v3.client
      BY <1>0, <2>3
    <3> QED
      BY <1>0, <2>1, <3>1, <3>2 DEF Presenter!PresenterInv, Presenter!ScreenStaysOut
  <2>4. CASE /\ v3' = [v3 EXCEPT !.bound = TRUE, !.made = TRUE, !.size = s]
             /\ v2' = [c EXCEPT !.target = "pbuffer", !.viewport = "pbuffer"]
    <3>1. /\ v2' \in Presenter!Contexts /\ v2'.shows["pbuffer"] # "screen" /\ v2'.active = v2.active
          /\ v2'.client = v2.client
      BY <2>2, <2>4 DEF Presenter!Contexts, Presenter!Targets
    <3>2. /\ v3' \in [active : Presenter!Units, client : Presenter!Units, bound : BOOLEAN, made : BOOLEAN, size : PbufferSizes \cup {0}]
          /\ v3'.active = v3.active /\ v3'.client = v3.client
      BY <1>0, <2>4
    <3> QED
      BY <1>0, <2>1, <3>1, <3>2 DEF Presenter!PresenterInv, Presenter!ScreenStaysOut
  <2> QED
    BY <2>1, <2>3, <2>4
<1>7. CASE Presenter!UnbindOffscreenTarget
  <2>1. /\ v3.bound /\ v3' = [v3 EXCEPT !.bound = FALSE]
        /\ v2' = [v2 EXCEPT !.target = "frame", !.viewport = "frame"]
        /\ v1' = v1 /\ v4' = v4
    BY <1>7 DEF Presenter!UnbindOffscreenTarget
  <2>2. /\ v2' \in Presenter!Contexts /\ v2'.shows["pbuffer"] # "screen" /\ v2'.active = v2.active
        /\ v2'.client = v2.client
    BY <1>0, <2>1 DEF Presenter!Contexts, Presenter!Targets
  <2>3. /\ v3' \in [active : Presenter!Units, client : Presenter!Units, bound : BOOLEAN, made : BOOLEAN, size : PbufferSizes \cup {0}]
        /\ v3'.active = v3.active /\ v3'.client = v3.client
    BY <1>0, <2>1
  <2> QED
    BY <1>0, <2>1, <2>2, <2>3 DEF Presenter!PresenterInv, Presenter!ScreenStaysOut
<1>8. CASE Presenter!SwapBuffers
  BY <1>0, <1>8, <1>k, PresentKeeps DEF Presenter!SwapBuffers
<1>9. CASE Presenter!ReadPixelsRgba
  BY <1>0, <1>9, <1>k DEF Presenter!ReadPixelsRgba, Presenter!Contexts, Presenter!Targets
<1>10. CASE Presenter!PushVideoFrame
  <2>1. PICK b \in Presenter!Contexts : b = Presenter!QuadTarget(v2)
    BY <1>0 DEF Presenter!QuadTarget, Presenter!Contexts, Presenter!Targets
  <2>2. /\ b.shows = v2.shows /\ b.target # "pbuffer"
        /\ ~v1.fbo => b.target = "window"
    BY <1>0, <2>1 DEF Presenter!QuadTarget, Presenter!Contexts
  <2>3. PICK c \in Presenter!Contexts : c = Presenter!SelectHostUnitZero(b)
    BY SelectKeeps
  <2>4. c.shows = v2.shows /\ c.target = b.target
    BY <2>2, <2>3, SelectKeeps
  <2>5. PICK u \in Presenter!Units : u = IF v1.units THEN 0 ELSE v2.active
    BY <1>0 DEF Presenter!Contexts, Presenter!Units
  <2>6. PICK d \in Presenter!Contexts : d = [c EXCEPT !.texture[u] = "video"]
    BY DEF Presenter!Contexts
  <2>7. d.shows = v2.shows /\ d.target = b.target
    BY <2>4, <2>6 DEF Presenter!Contexts
  <2>8. PICK e \in Presenter!Contexts : e = Presenter!Drawn(d, "screen")
    BY DrawnKeeps
  <2>9. e.target = b.target /\ e.shows["pbuffer"] # "screen"
    BY <1>0, <2>2, <2>7, <2>8, DrawnKeeps
  <2>10. PICK p \in Presenter!Contexts : p = Presenter!PresentFrame(e)
    BY <2>2, <2>9, PresentKeeps
  <2>11. /\ p.shows["pbuffer"] # "screen" /\ (~v1.fbo => p.target = "window")
         /\ v1.fbo /\ v1.units => p.active = v3.active /\ p.client = v3.client
    BY <2>2, <2>9, <2>10, PresentKeeps
  <2>12. PICK q \in Presenter!Contexts : q = Presenter!RestoreGuestTextureUnits(p)
    BY <1>0, RestoreKeeps
  <2>13. /\ q.shows = p.shows /\ q.target = p.target
         /\ v1.fbo /\ v1.units => q.active = v3.active /\ q.client = v3.client
    BY <1>0, <2>11, <2>12 DEF Presenter!RestoreGuestTextureUnits, Presenter!Contexts
  <2>14. /\ v2' = IF v3.bound /\ v3.made THEN [q EXCEPT !.target = "pbuffer", !.viewport = "pbuffer"] ELSE q
         /\ v1' = v1 /\ v3' = v3 /\ v4' = v4
    BY <1>10, <2>1, <2>3, <2>5, <2>6, <2>8, <2>10, <2>12 DEF Presenter!PushVideoFrame
  <2>15. CASE v3.bound /\ v3.made
    <3>0. PICK r : r = [q EXCEPT !.target = "pbuffer"]
      OBVIOUS
    <3>1. r \in Presenter!Contexts /\ r.shows = q.shows /\ r.active = q.active /\ r.client = q.client
      BY <2>12, <3>0 DEF Presenter!Contexts, Presenter!Targets
    <3>2. v2' = [r EXCEPT !.viewport = "pbuffer"]
      BY <2>12, <2>14, <2>15, <3>0 DEF Presenter!Contexts
    <3>3. /\ v2' \in Presenter!Contexts /\ v2'.shows = r.shows /\ v2'.active = r.active
          /\ v2'.client = r.client
      BY <3>1, <3>2 DEF Presenter!Contexts
    <3> QED
      BY <1>0, <1>k, <2>11, <2>13, <2>14, <2>15, <3>1, <3>3
  <2>16. CASE ~(v3.bound /\ v3.made)
    BY <1>0, <1>k, <2>11, <2>13, <2>14, <2>16
  <2> QED
    BY <2>15, <2>16
<1>11. CASE Presenter!CaptureFrameRgba
  BY <1>0, <1>11, <1>k DEF Presenter!CaptureFrameRgba, Presenter!Contexts, Presenter!Targets
<1>12. CASE Presenter!CaptureScreenshot
  BY <1>0, <1>12, <1>k DEF Presenter!CaptureScreenshot, Presenter!Contexts, Presenter!Targets
<1>13. CASE Presenter!ToggleOverlay
  BY <1>0, <1>13, <1>k DEF Presenter!ToggleOverlay
<1>14. CASE UNCHANGED Presenter!presenterVars
  BY <1>0, <1>14, <1>k DEF Presenter!presenterVars
<1> QED
  BY <1>1, <1>2, <1>3, <1>4, <1>5, <1>6, <1>7, <1>8, <1>9, <1>10, <1>11, <1>12, <1>13, <1>14
     DEF Presenter!PresenterNext

-----------------------------------------------------------------------------
(* The translated code (DynarmicCore). *)
Jit == INSTANCE DynarmicCore WITH
    Cells <- CodeBytes, PageCells <- CodePage, MaxBlock <- MaxBlock, Budgets <- Budgets,
    code <- v1, blocks <- v2, pages <- v3, told <- v4, pc <- v5, phase <- v6, left <- v7,
    budget <- v8, executed <- v9, ticks <- v10, real <- v11

code == v1
blocks == v2
pages == v3
told == v4
pc == v5
phase == v6
left == v7
budget == v8
executed == v9
ticks == v10
real == v11
USE DEF code, blocks, pages, told, pc, phase, left, budget, executed, ticks, real

Phases == {"idle", "loop", "jit", "block", "step"}
CodeTypes == /\ code \in [Jit!CellSet -> {0, 1}] /\ told \in [Jit!CellSet -> {"yes", "later", "never"}]
             /\ pc \in 0..Jit!Trap /\ phase \in Phases

LEMMA DynarmicInvParts ==
    Jit!DynarmicInv <=> /\ CodeTypes /\ Jit!BlocksTyped /\ Jit!BlocksCurrent /\ Jit!RunningCurrent
                        /\ phase \in {"idle", "loop"} => Jit!Pending = {}
                        /\ Jit!Counted
  BY DEF Jit!DynarmicInv, CodeTypes, Phases

LEMMA DynarmicInvInitially == Jit!DynarmicBounds /\ Jit!DynarmicInit => Jit!DynarmicInv
<1> SUFFICES ASSUME Jit!DynarmicBounds, Jit!DynarmicInit
             PROVE  Jit!DynarmicInv
  OBVIOUS
<1> USE DEF Jit!DynarmicInit, Jit!DynarmicBounds
<1>1. Jit!BlocksTyped /\ Jit!BlocksCurrent
  BY DEF Jit!BlocksTyped, Jit!BlocksCurrent
<1>2. Jit!Counted
  BY DEF Jit!Counted
<1>3. CodeTypes
  BY DEF CodeTypes, Phases, Jit!Trap
<1>4. Jit!RunningCurrent
  BY DEF Jit!RunningCurrent, Jit!Current, Jit!Trap
<1>5. Jit!Pending = {}
  BY DEF Jit!Pending
<1> QED
  BY <1>1, <1>2, <1>3, <1>4, <1>5, DynarmicInvParts

LEMMA NoneMore == ASSUME NEW c \in Nat, NEW p \in 0..c, NEW n \in Nat, n = 0 PROVE p + n <= c
  OBVIOUS

LEMMA NothingRuns ==
    ASSUME CodeBytes \in Nat, left' = <<>>, pc' \in 0..CodeBytes, phase' \notin {"block", "step"}
    PROVE  Jit!RunningCurrent'
<1>1. left' \in Seq({0, 1}) /\ Len(left') = 0 /\ \A k \in 1..Len(left') : FALSE
  OBVIOUS
<1>2. pc' + Len(left') <= CodeBytes
  <2>1. Len(left') \in Nat
    BY <1>1
  <2> QED
    BY <1>1, <2>1, NoneMore, Zenon
<1>3. Jit!Current(pc, left)'
  BY <1>1 DEF Jit!Current, Jit!Page
<1>4. phase' # "block" /\ phase' # "step"
  OBVIOUS
<1> QED
  BY <1>1, <1>2, <1>3, <1>4 DEF Jit!RunningCurrent, Jit!Trap

(* Instructions stay what memory holds over a change that none of those that
   changed, or were in doubt, is among. *)
LEMMA CurrentStays ==
    ASSUME Jit!DynarmicBounds, NEW from \in Nat, NEW vs \in Seq({0, 1}), from + Len(vs) <= CodeBytes,
           Jit!Current(from, vs), NEW gone,
           \A d \in Jit!CellSet : \/ told'[d] = "yes" => told[d] = "yes" /\ code'[d] = code[d]
                                  \/ d \in gone,
           (from..from + Len(vs) - 1) \cap gone = {}, pages \subseteq pages'
    PROVE  Jit!Current(from, vs)'
<1> SUFFICES ASSUME NEW k \in 1..Len(vs)
             PROVE  /\ told'[from + k - 1] = "yes" => vs[k] = code'[from + k - 1]
                    /\ Jit!Page(from + k - 1) \in pages'
  BY DEF Jit!Current, Jit!Page
<1>1. PICK n \in Nat : n = Len(vs)
  OBVIOUS
<1>2. from + k - 1 \in from..from + n - 1 /\ from + k - 1 \in Jit!CellSet
  BY <1>1 DEF Jit!DynarmicBounds, Jit!CellSet
<1>3. from + k - 1 \notin gone
  BY <1>1, <1>2
<1>4. /\ told[from + k - 1] = "yes" => vs[k] = code[from + k - 1]
      /\ Jit!Page(from + k - 1) \in pages
  BY DEF Jit!Current
<1> QED
  BY <1>2, <1>3, <1>4

(* Dropping the translations that touch some cells leaves the others as they were. *)
LEMMA KeptBlocks ==
    ASSUME Jit!BlocksTyped, NEW cells, blocks' = Jit!Without(cells)
    PROVE  /\ Jit!BlocksTyped'
           /\ \A b \in DOMAIN blocks' :
                 /\ b \in DOMAIN blocks /\ blocks'[b] = blocks[b]
                 /\ (b[1]..b[1] + Len(blocks[b]) - 1) \cap cells = {}
<1>1. \A b \in DOMAIN blocks' :
          /\ b \in DOMAIN blocks /\ blocks'[b] = blocks[b]
          /\ (b[1]..b[1] + Len(blocks[b]) - 1) \cap cells = {}
  BY DEF Jit!Without, Jit!CellsOf
<1>2. blocks' = [b \in DOMAIN blocks' |-> blocks[b]]
  BY DEF Jit!Without
<1>3. blocks' \in [DOMAIN blocks' -> Seq({0, 1})]
  BY <1>1, <1>2 DEF Jit!BlocksTyped
<1> QED
  BY <1>1, <1>3 DEF Jit!BlocksTyped, Jit!Trap, Jit!CellSet

LEMMA BlocksInMemory ==
    ASSUME Jit!DynarmicBounds, Jit!BlocksTyped, NEW b \in DOMAIN blocks
    PROVE  b[1] \in Nat /\ blocks[b] \in Seq({0, 1}) /\ b[1] + Len(blocks[b]) <= CodeBytes
  BY DEF Jit!BlocksTyped, Jit!DynarmicBounds, Jit!CellSet, Jit!Trap

(* What a change of memory, or of what the JIT was told, leaves of the translations. *)
LEMMA BlocksStay ==
    ASSUME Jit!DynarmicBounds, Jit!BlocksTyped, Jit!BlocksCurrent, NEW cells,
           blocks' = Jit!Without(cells), pages \subseteq pages',
           \A d \in Jit!CellSet : \/ told'[d] = "yes" => told[d] = "yes" /\ code'[d] = code[d]
                                  \/ d \in cells
    PROVE  Jit!BlocksTyped' /\ Jit!BlocksCurrent'
<1>1. /\ Jit!BlocksTyped'
      /\ \A b \in DOMAIN blocks' : /\ b \in DOMAIN blocks /\ blocks'[b] = blocks[b]
                                   /\ (b[1]..b[1] + Len(blocks[b]) - 1) \cap cells = {}
  BY KeptBlocks
<1>2. ASSUME NEW b \in DOMAIN blocks', NEW k \in 1..Len(blocks'[b])
      PROVE  /\ told'[b[1] + k - 1] = "yes" => blocks'[b][k] = code'[b[1] + k - 1]
             /\ Jit!Page(b[1] + k - 1) \in pages'
  <2>1. b \in DOMAIN blocks /\ blocks'[b] = blocks[b]
    BY <1>1
  <2>2. PICK vs \in Seq({0, 1}), from \in Nat : vs = blocks[b] /\ from = b[1]
    BY <2>1, BlocksInMemory
  <2>3. from + Len(vs) <= CodeBytes /\ Jit!Current(from, vs) /\ (from..from + Len(vs) - 1) \cap cells = {}
    BY <1>1, <2>1, <2>2, BlocksInMemory DEF Jit!BlocksCurrent
  <2>4. Jit!Current(from, vs)'
    BY <2>3, CurrentStays
  <2> QED
    BY <2>1, <2>2, <2>4 DEF Jit!Current, Jit!Page
<1>3. Jit!BlocksCurrent'
  BY <1>2 DEF Jit!BlocksCurrent, Jit!Current, Jit!Page
<1> QED
  BY <1>1, <1>3

LEMMA NoneWithout ==
    ASSUME Jit!BlocksTyped
    PROVE  blocks = Jit!Without({})
<1>1. blocks = [b \in DOMAIN blocks |-> blocks[b]]
  BY DEF Jit!BlocksTyped
<1>2. {d \in DOMAIN blocks : Jit!CellsOf(d) \cap {} = {}} = DOMAIN blocks
  OBVIOUS
<1> QED
  BY <1>1, <1>2 DEF Jit!Without

(* The host writes code, or has the JIT told. *)
LEMMA HostStepsKeep ==
    ASSUME Jit!DynarmicBounds, Jit!DynarmicInv, Jit!HostWrite \/ Jit!NotifyCodeChanged \/ Jit!Reset
    PROVE  Jit!DynarmicInv'
<1>1. phase = "idle" /\ UNCHANGED <<phase, left, budget, executed, ticks, real>>
  BY DEF Jit!HostWrite, Jit!NotifyCodeChanged, Jit!Reset, Jit!countVars
<1>2. /\ CodeTypes /\ Jit!BlocksTyped /\ Jit!BlocksCurrent /\ left = <<>> /\ Jit!Pending = {}
      /\ Jit!Counted
  BY <1>1, DynarmicInvParts DEF Jit!RunningCurrent
<1>3. Jit!Counted'
  BY <1>1, <1>2 DEF Jit!Counted, Jit!CountsLikeInterpreter, Jit!TicksMakeUp
<1>4. CodeTypes' /\ Jit!BlocksTyped' /\ Jit!BlocksCurrent' /\ Jit!Pending' = {}
  <2>1. CASE Jit!HostWrite
    <3>1. PICK c \in Jit!CellSet :
             code' = [code EXCEPT ![c] = 1 - @] /\ told' = [told EXCEPT ![c] = "never"]
      BY <2>1 DEF Jit!HostWrite
    <3>2. UNCHANGED <<blocks, pages, pc, phase>>
      BY <2>1 DEF Jit!HostWrite
    <3>3. \A d \in Jit!CellSet : told'[d] = "yes" => told[d] = "yes" /\ code'[d] = code[d]
      BY <1>2, <3>1 DEF CodeTypes
    <3>4. Jit!BlocksTyped' /\ Jit!BlocksCurrent'
      BY <1>2, <3>2, <3>3, NoneWithout, BlocksStay
    <3>5. CodeTypes'
      BY <1>2, <3>1, <3>2 DEF CodeTypes, Jit!CellSet, Jit!Trap
    <3>6. Jit!Pending' = {}
      BY <1>2, <3>1 DEF CodeTypes, Jit!Pending, Jit!CellSet
    <3> QED
      BY <3>4, <3>5, <3>6
  <2>2. CASE Jit!NotifyCodeChanged
    <3>1. PICK cells \in {Jit!CellSet} \cup {{c} : c \in Jit!CellSet} :
             /\ blocks' = Jit!Without(cells)
             /\ told' = [c \in Jit!CellSet |-> IF c \in cells THEN "yes" ELSE told[c]]
      BY <2>2 DEF Jit!NotifyCodeChanged
    <3>2. UNCHANGED <<code, pages, pc, phase>>
      BY <2>2 DEF Jit!NotifyCodeChanged
    <3>3. \A d \in Jit!CellSet : \/ told'[d] = "yes" => told[d] = "yes" /\ code'[d] = code[d]
                                 \/ d \in cells
      BY <3>1, <3>2
    <3>4. Jit!BlocksTyped' /\ Jit!BlocksCurrent'
      BY <1>2, <3>1, <3>2, <3>3, BlocksStay
    <3>5. CodeTypes'
      BY <1>2, <3>1, <3>2 DEF CodeTypes, Jit!CellSet, Jit!Trap
    <3>6. Jit!Pending' = {}
      BY <1>2, <3>1 DEF CodeTypes, Jit!Pending, Jit!CellSet
    <3> QED
      BY <3>4, <3>5, <3>6
  <2>3. CASE Jit!Reset
    <3>1. /\ blocks' = [b \in {} |-> <<>>] /\ told' = [c \in Jit!CellSet |-> "yes"] /\ pc' = 0
          /\ UNCHANGED <<code, phase>>
      BY <2>3 DEF Jit!Reset
    <3>2. Jit!BlocksTyped' /\ Jit!BlocksCurrent'
      BY <3>1 DEF Jit!BlocksTyped, Jit!BlocksCurrent
    <3>3. 0 \in 0..Jit!Trap
      BY DEF Jit!DynarmicBounds, Jit!Trap
    <3>4. CodeTypes'
      BY <1>2, <3>1, <3>3 DEF CodeTypes, Jit!CellSet, Jit!Trap
    <3>5. Jit!Pending' = {}
      BY <3>1 DEF Jit!Pending, Jit!CellSet
    <3> QED
      BY <3>2, <3>4, <3>5
  <2> QED
    BY <2>1, <2>2, <2>3
<1>5. Jit!RunningCurrent'
  <2>1. pc' \in 0..CodeBytes /\ left' = <<>> /\ phase' = "idle"
    BY <1>1, <1>2, <1>4 DEF CodeTypes, Jit!Trap
  <2> QED
    BY <2>1, NothingRuns DEF Jit!DynarmicBounds
<1> QED
  BY <1>3, <1>4, <1>5 DEF Jit!DynarmicInv, CodeTypes, Phases, Jit!Trap, Jit!CellSet

(* Into a translation that is kept, or one made now: either way its instructions are
   what memory holds, but where they are in doubt. *)
LEMMA EntersKeeps ==
    ASSUME Jit!DynarmicBounds, Jit!DynarmicInv, NEW step \in BOOLEAN, NEW n \in 1..MaxBlock,
           pc # Jit!Trap, Jit!Enters(step, n), UNCHANGED <<code, told, pc>>
    PROVE  /\ Jit!BlocksTyped' /\ Jit!BlocksCurrent'
           /\ left' \in Seq({0, 1}) /\ Len(left') = n /\ pc' + Len(left') <= Jit!Trap
           /\ Jit!Current(pc, left)'
<1> DEFINE key == <<pc, step>>
           v == IF key \in DOMAIN blocks THEN blocks[key] ELSE [k \in 1..n |-> code[pc + k - 1]]
<1>1. /\ pc + n <= Jit!Trap /\ n = Len(v) /\ left' = v
      /\ blocks' = [b \in DOMAIN blocks \cup {key} |-> IF b = key THEN v ELSE blocks[b]]
      /\ pages' = IF key \in DOMAIN blocks THEN pages ELSE pages \cup Jit!Fetched(pc, n)
  BY DEF Jit!Enters
<1>2. /\ CodeTypes /\ Jit!BlocksTyped /\ Jit!BlocksCurrent
      /\ CodeBytes \in Nat /\ MaxBlock \in Nat /\ pc \in Jit!CellSet /\ pc \in Nat /\ n \in Nat
  BY DynarmicInvParts DEF CodeTypes, Jit!DynarmicBounds, Jit!Trap, Jit!CellSet
<1>3. v \in Seq({0, 1})
  <2>1. CASE key \in DOMAIN blocks
    BY <1>2, <2>1 DEF Jit!BlocksTyped
  <2>2. CASE key \notin DOMAIN blocks
    <3>1. \A k \in 1..n : pc + k - 1 \in Jit!CellSet
      BY <1>1, <1>2 DEF Jit!Trap, Jit!CellSet
    <3>2. \A k \in 1..n : code[pc + k - 1] \in {0, 1}
      BY <1>2, <3>1 DEF CodeTypes
    <3>3. v = [k \in 1..n |-> code[pc + k - 1]]
      BY <2>2
    <3> HIDE DEF v
    <3>4. v \in [1..n -> {0, 1}]
      BY <3>2, <3>3
    <3> QED
      BY <1>2, <3>4
  <2> QED
    BY <2>1, <2>2
<1>4. \A k \in 1..n : /\ told[pc + k - 1] = "yes" => v[k] = code[pc + k - 1]
                      /\ Jit!Page(pc + k - 1) \in pages'
  <2>1. CASE key \in DOMAIN blocks
    <3>1. Jit!Current(pc, blocks[key]) /\ v = blocks[key] /\ pages' = pages
      BY <1>1, <1>2, <2>1 DEF Jit!BlocksCurrent
    <3> QED
      BY <1>1, <3>1 DEF Jit!Current
  <2>2. CASE key \notin DOMAIN blocks
    <3> SUFFICES ASSUME NEW k \in 1..n
                 PROVE  v[k] = code[pc + k - 1] /\ Jit!Page(pc + k - 1) \in pages'
      OBVIOUS
    <3>1. v[k] = code[pc + k - 1]
      BY <2>2
    <3>2. k - 1 \in 0..n - 1 /\ pc + (k - 1) = pc + k - 1
      BY <1>2
    <3>3. Jit!Page(pc + k - 1) \in Jit!Fetched(pc, n)
      BY <3>2 DEF Jit!Fetched
    <3> QED
      BY <1>1, <2>2, <3>1, <3>3
  <2> QED
    BY <2>1, <2>2
<1>5. /\ blocks' = [b \in DOMAIN blocks \cup {key} |-> IF b = key THEN v ELSE blocks[b]]
      /\ pages \subseteq pages' /\ n = Len(v) /\ left' = v /\ pc + n <= Jit!Trap
      /\ key \in Jit!CellSet \X BOOLEAN /\ key[1] = pc
  BY <1>1, <1>2
<1> HIDE DEF v, key
<1>6. Jit!BlocksTyped'
  <2>1. blocks' \in [DOMAIN blocks' -> Seq({0, 1})] /\ DOMAIN blocks' \subseteq Jit!CellSet \X BOOLEAN
    BY <1>2, <1>3, <1>5 DEF Jit!BlocksTyped
  <2>2. \A b \in DOMAIN blocks' : Len(blocks'[b]) \in 1..MaxBlock /\ b[1] + Len(blocks'[b]) <= Jit!Trap
    BY <1>2, <1>5 DEF Jit!BlocksTyped
  <2> QED
    BY <2>1, <2>2 DEF Jit!BlocksTyped, Jit!CellSet, Jit!Trap
<1>7. Jit!BlocksCurrent'
  <2> SUFFICES ASSUME NEW b \in DOMAIN blocks', NEW k \in 1..Len(blocks'[b])
               PROVE  /\ told'[b[1] + k - 1] = "yes" => blocks'[b][k] = code'[b[1] + k - 1]
                      /\ Jit!Page(b[1] + k - 1) \in pages'
    BY DEF Jit!BlocksCurrent, Jit!Current, Jit!Page
  <2>1. CASE b = key
    BY <1>4, <1>5, <2>1
  <2>2. CASE b # key
    BY <1>2, <1>5, <2>2 DEF Jit!BlocksCurrent, Jit!Current
  <2> QED
    BY <2>1, <2>2
<1>8. Jit!Current(pc, left)'
  BY <1>4, <1>5 DEF Jit!Current, Jit!Page
<1> QED
  BY <1>3, <1>5, <1>6, <1>7, <1>8

(* What waits is dropped, when no block runs any more. *)
LEMMA DropsKeep ==
    ASSUME Jit!DynarmicBounds, Jit!DynarmicInv, Jit!Drops, UNCHANGED <<code, pages, pc>>,
           left' = <<>>, phase' \in {"idle", "loop"}, Jit!Counted'
    PROVE  Jit!DynarmicInv'
<1>1. CodeTypes /\ Jit!BlocksTyped /\ Jit!BlocksCurrent
  BY DynarmicInvParts
<1>2. /\ blocks' = Jit!Without(Jit!Pending)
      /\ told' = [c \in Jit!CellSet |-> IF told[c] = "later" THEN "yes" ELSE told[c]]
  BY DEF Jit!Drops
<1>3. \A d \in Jit!CellSet : \/ told'[d] = "yes" => told[d] = "yes" /\ code'[d] = code[d]
                             \/ d \in Jit!Pending
  BY <1>2 DEF Jit!Pending
<1>4. Jit!BlocksTyped' /\ Jit!BlocksCurrent'
  BY <1>1, <1>2, <1>3, BlocksStay
<1>5. \A c \in Jit!CellSet : told'[c] \in {"yes", "never"}
  BY <1>1, <1>2 DEF CodeTypes
<1>6. CodeTypes'
  <2>1. told' \in [Jit!CellSet -> {"yes", "later", "never"}]
    BY <1>2, <1>5
  <2> QED
    BY <1>1, <2>1 DEF CodeTypes, Phases, Jit!CellSet, Jit!Trap
<1>7. Jit!Pending' = {}
  BY <1>5 DEF Jit!Pending, Jit!CellSet
<1>8. Jit!RunningCurrent'
  BY <1>1, NothingRuns DEF CodeTypes, Jit!Trap, Jit!DynarmicBounds
<1> QED
  BY <1>4, <1>6, <1>7, <1>8 DEF Jit!DynarmicInv, CodeTypes, Phases, Jit!Trap, Jit!CellSet

(* Run, the head of its loop, and a step outside it. *)
LEMMA BeginningsKeep ==
    ASSUME Jit!DynarmicBounds, Jit!DynarmicInv, Jit!Run \/ Jit!RunLoop \/ (Jit!Step /\ pc = Jit!Trap)
    PROVE  Jit!DynarmicInv'
<1>0. /\ CodeTypes /\ Jit!BlocksTyped /\ Jit!BlocksCurrent /\ Jit!Counted
      /\ phase \in {"idle", "loop"} /\ left = <<>> /\ Jit!Pending = {} /\ CodeBytes \in Nat
  BY DynarmicInvParts DEF Jit!Run, Jit!RunLoop, Jit!Step, Jit!RunningCurrent, Jit!DynarmicBounds
<1>1. UNCHANGED <<code, blocks, pages, told>> /\ left' = <<>>
  BY <1>0 DEF Jit!Run, Jit!RunLoop, Jit!Step, Jit!Returns
<1>2. Jit!BlocksTyped' /\ Jit!BlocksCurrent' /\ Jit!Pending' = {}
  BY <1>0, <1>1 DEF Jit!BlocksTyped, Jit!BlocksCurrent, Jit!Current, Jit!Trap, Jit!CellSet, Jit!Page,
                    Jit!Pending
<1>3. Jit!Counted' /\ pc' \in 0..Jit!Trap /\ phase' \in {"idle", "loop", "jit"}
  <2>1. CASE Jit!Run
    <3>1. PICK n \in Budgets : budget' = n
      BY <2>1 DEF Jit!Run
    <3>2. phase = "idle" /\ phase' = "loop" /\ UNCHANGED <<pc, executed, ticks, real>>
      BY <2>1 DEF Jit!Run
    <3>3. budget' \in Nat /\ executed' = 0 /\ real' = 0 /\ ticks' \in Nat
      BY <1>0, <3>1, <3>2 DEF Jit!Counted, Jit!DynarmicBounds
    <3> QED
      BY <1>0, <3>2, <3>3 DEF CodeTypes, Jit!Counted, Jit!CountsLikeInterpreter, Jit!Trap
  <2>2. CASE phase = "loop" /\ Jit!Returns /\ (UNCHANGED pc \/ pc' \in Jit!CellSet)
    <3>1. Jit!Counted'
      BY <2>2 DEF Jit!Returns, Jit!Counted
    <3> QED
      BY <1>0, <2>2, <3>1 DEF CodeTypes, Jit!Returns, Jit!Trap, Jit!CellSet
  <2>3. CASE /\ phase = "loop" /\ executed < budget
             /\ phase' = "jit" /\ ticks' = budget - executed
             /\ UNCHANGED <<left, budget, executed, real, pc>>
    <3>1. executed = real /\ {budget, executed, real} \subseteq Nat
      BY <1>0, <2>3 DEF Jit!Counted, Jit!CountsLikeInterpreter
    <3>2. /\ executed' < budget' /\ executed' = real' /\ ticks' = budget' - real' /\ ticks' \in Nat
          /\ left' = <<>> /\ Len(left') = 0
      BY <1>1, <2>3, <3>1
    <3>3. Jit!Counted'
      BY <2>3, <3>1, <3>2 DEF Jit!Counted, Jit!TicksMakeUp, Jit!DynarmicBounds
    <3> QED
      BY <1>0, <2>3, <3>3 DEF CodeTypes
  <2>4. CASE Jit!Step /\ pc = Jit!Trap
    <3>1. phase = "idle" /\ pc' \in Jit!CellSet /\ UNCHANGED <<phase, left, ticks, budget, executed, real>>
      BY <2>4 DEF Jit!Step
    <3>2. Jit!Counted'
      BY <1>0, <3>1 DEF Jit!Counted
    <3> QED
      BY <1>0, <3>1, <3>2 DEF Jit!CellSet, Jit!Trap
  <2> QED
    BY <2>1, <2>2, <2>3, <2>4 DEF Jit!RunLoop
<1>4. CodeTypes' /\ Jit!RunningCurrent'
  <2>1. pc' \in 0..CodeBytes /\ phase' \notin {"block", "step"} /\ phase' \in Phases
    BY <1>3 DEF Jit!Trap, Phases
  <2>2. Jit!RunningCurrent'
    BY <1>0, <1>1, <2>1, NothingRuns
  <2> QED
    BY <1>0, <1>1, <2>1, <2>2 DEF CodeTypes, Phases, Jit!Trap, Jit!CellSet
<1> QED
  BY <1>2, <1>3, <1>4 DEF Jit!DynarmicInv, CodeTypes, Phases, Jit!Trap, Jit!CellSet

LEMMA EntriesKeep ==
    ASSUME Jit!DynarmicBounds, Jit!DynarmicInv,
           (Jit!Step /\ pc # Jit!Trap) \/ Jit!JitBlock \/ Jit!FallsBack
    PROVE  Jit!DynarmicInv'
<1>0. CodeTypes /\ Jit!Counted /\ MaxBlock \in Nat \ {0} /\ 1 \in 1..MaxBlock
  BY DynarmicInvParts DEF Jit!DynarmicBounds
<1>1. UNCHANGED <<code, told, pc, budget, executed, real>> /\ pc # Jit!Trap
  BY DEF Jit!Step, Jit!JitBlock, Jit!FallsBack, Jit!countVars
<1>2. PICK step \in BOOLEAN, n \in 1..MaxBlock :
         /\ Jit!Enters(step, n)
         /\ \/ phase = "idle" /\ n = 1 /\ phase' = "step" /\ ticks' = 1
            \/ phase = "jit" /\ n = 1 /\ phase' = "step" /\ ticks' = 1 /\ ticks = budget - executed
            \/ phase = "jit" /\ phase' = "block" /\ ticks' = ticks /\ ticks > 0
  BY <1>0 DEF Jit!Step, Jit!JitBlock, Jit!FallsBack, Jit!countVars
<1>3. /\ Jit!BlocksTyped' /\ Jit!BlocksCurrent'
      /\ left' \in Seq({0, 1}) /\ Len(left') = n /\ pc' + Len(left') <= Jit!Trap
      /\ Jit!Current(pc, left)'
  BY <1>1, <1>2, EntersKeeps
<1>4. Jit!RunningCurrent'
  <2>1. left' # <<>> /\ n <= MaxBlock /\ phase' \in {"step", "block"} /\ (phase' = "step" => n <= 1)
    BY <1>0, <1>2, <1>3
  <2> QED
    BY <1>3, <2>1 DEF Jit!RunningCurrent, Jit!Current, Jit!Trap, Jit!Page
<1>5. Jit!Counted'
  <2>1. {budget, executed, real, ticks} \subseteq Nat
    BY <1>0 DEF Jit!Counted
  <2>2. CASE phase = "idle" /\ n = 1 /\ phase' = "step" /\ ticks' = 1
    BY <1>0, <1>1, <2>1, <2>2 DEF Jit!Counted
  <2>3. CASE phase = "jit" /\ n = 1 /\ phase' = "step" /\ ticks' = 1 /\ ticks = budget - executed
    <3>1. executed = real /\ executed < budget
      BY <1>0, <2>1, <2>3 DEF Jit!Counted, Jit!TicksMakeUp
    <3> QED
      BY <1>1, <1>3, <2>1, <2>3, <3>1 DEF Jit!Counted
  <2>4. CASE phase = "jit" /\ phase' = "block" /\ ticks' = ticks /\ ticks > 0
    <3>1. executed < budget /\ executed <= real /\ real <= budget /\ ticks = budget - real
      BY <1>0, <2>1, <2>4 DEF Jit!Counted, Jit!TicksMakeUp
    <3>2. real + n < budget + MaxBlock
      BY <1>0, <2>1, <2>4, <3>1
    <3> QED
      BY <1>1, <1>3, <2>1, <2>4, <3>1, <3>2 DEF Jit!Counted, Jit!TicksMakeUp
  <2> QED
    BY <1>2, <2>2, <2>3, <2>4
<1>6. CodeTypes'
  BY <1>0, <1>1, <1>2 DEF CodeTypes, Phases, Jit!CellSet, Jit!Trap
<1>7. phase' \notin {"idle", "loop"}
  BY <1>2
<1> QED
  BY <1>3, <1>4, <1>5, <1>6, <1>7 DEF Jit!DynarmicInv, CodeTypes, Phases, Jit!Trap, Jit!CellSet

(* A store the JIT is not told of is to a page without translations. *)
LEMMA StoresKeep ==
    ASSUME Jit!DynarmicBounds, CodeTypes, NEW c \in Jit!CellSet, Jit!StoreTo(c), UNCHANGED pages,
           NEW from \in Nat, NEW vs \in Seq({0, 1}), from + Len(vs) <= CodeBytes, Jit!Current(from, vs)
    PROVE  Jit!Current(from, vs)'
<1> DEFINE gone == IF Jit!Page(c) \in pages THEN {} ELSE {c}
<1>1. \A d \in Jit!CellSet : \/ told'[d] = "yes" => told[d] = "yes" /\ code'[d] = code[d]
                             \/ d \in gone
  BY DEF CodeTypes, Jit!StoreTo
<1>2. (from..from + Len(vs) - 1) \cap gone = {}
  <2>1. CASE Jit!Page(c) \in pages
    BY <2>1
  <2>2. CASE Jit!Page(c) \notin pages
    <3> SUFFICES ASSUME c \in from..from + Len(vs) - 1
                 PROVE  FALSE
      BY <2>2
    <3>1. PICK n \in Nat : n = Len(vs)
      OBVIOUS
    <3>2. c - from + 1 \in 1..n /\ from + (c - from + 1) - 1 = c
      BY <3>1
    <3> QED
      BY <2>2, <3>1, <3>2 DEF Jit!Current
  <2> QED
    BY <2>1, <2>2
<1> HIDE DEF gone
<1> QED
  BY <1>1, <1>2, CurrentStays

LEMMA InstructionKeeps ==
    ASSUME Jit!DynarmicBounds, Jit!DynarmicInv, Jit!Instruction
    PROVE  Jit!DynarmicInv'
<1>0. /\ CodeTypes /\ Jit!BlocksTyped /\ Jit!BlocksCurrent /\ Jit!RunningCurrent /\ Jit!Counted
      /\ CodeBytes \in Nat
  BY DynarmicInvParts DEF Jit!DynarmicBounds
<1>1. /\ phase \in {"block", "step"} /\ left # <<>> /\ left' = Tail(left)
      /\ (IF left' = <<>> THEN pc' \in 0..Jit!Trap ELSE pc' = pc + 1)
      /\ real' = real + 1 /\ ticks' = (IF ticks = 0 THEN 0 ELSE ticks - 1)
      /\ phase' = (IF phase = "block" /\ left' = <<>> THEN "jit" ELSE phase)
      /\ UNCHANGED <<blocks, pages, budget, executed>>
  BY DEF Jit!Instruction
<1>2. UNCHANGED <<code, told>> \/ \E c \in Jit!CellSet : Jit!StoreTo(c)
  BY DEF Jit!Instruction
<1>3. ASSUME NEW from \in Nat, NEW vs \in Seq({0, 1}), from + Len(vs) <= CodeBytes,
             Jit!Current(from, vs)
      PROVE  Jit!Current(from, vs)'
  <2>1. CASE UNCHANGED <<code, told>>
    BY <1>1, <1>3, <2>1 DEF Jit!Current, Jit!Page
  <2>2. CASE \E c \in Jit!CellSet : Jit!StoreTo(c)
    <3>1. PICK c \in Jit!CellSet : Jit!StoreTo(c)
      BY <2>2
    <3> QED
      BY <1>0, <1>1, <1>3, <3>1, StoresKeep
  <2> QED
    BY <1>2, <2>1, <2>2
<1>4. Jit!BlocksTyped' /\ Jit!BlocksCurrent'
  <2>1. Jit!BlocksTyped'
    BY <1>0, <1>1 DEF Jit!BlocksTyped, Jit!CellSet, Jit!Trap
  <2>2. ASSUME NEW b \in DOMAIN blocks
        PROVE  Jit!Current(b[1], blocks[b])'
    <3>1. PICK vs \in Seq({0, 1}), from \in Nat : vs = blocks[b] /\ from = b[1]
      BY <1>0, BlocksInMemory
    <3>2. from + Len(vs) <= CodeBytes /\ Jit!Current(from, vs)
      BY <1>0, <3>1, BlocksInMemory DEF Jit!BlocksCurrent
    <3>3. Jit!Current(from, vs)'
      BY <1>3, <3>2
    <3> QED
      BY <1>1, <3>1, <3>3 DEF Jit!Current, Jit!Page
  <2> QED
    BY <1>1, <2>1, <2>2 DEF Jit!BlocksCurrent, Jit!Current, Jit!Page
<1>5. PICK n \in Nat \ {0}, vs \in Seq({0, 1}), from \in Nat :
         vs = left /\ n = Len(vs) /\ from = pc /\ from + n <= CodeBytes /\ vs # <<>>
  BY <1>0, <1>1 DEF CodeTypes, Jit!RunningCurrent, Jit!Trap
<1>6. Jit!Current(from, vs)'
  BY <1>0, <1>3, <1>5 DEF Jit!RunningCurrent
<1>7. /\ left' \in Seq({0, 1}) /\ Len(left') = n - 1 /\ (left' = <<>> <=> n = 1)
      /\ \A k \in 1..n - 1 : left'[k] = vs[k + 1]
  <2>1. PICK w : w = Tail(vs)
    OBVIOUS
  <2>2. w \in Seq({0, 1}) /\ Len(w) = n - 1 /\ \A k \in 1..n - 1 : w[k] = vs[k + 1]
    BY <1>5, <2>1
  <2>3. w = <<>> <=> n = 1
    <3>1. ASSUME w = <<>>
          PROVE  n = 1
      BY <2>2, <3>1
    <3>2. ASSUME n = 1
          PROVE  w = <<>>
      BY <2>2, <3>2
    <3> QED
      BY <3>1, <3>2
  <2>4. left' = w
    BY <1>1, <1>5, <2>1
  <2> QED
    BY <2>2, <2>3, <2>4
<1>8. pc' \in 0..CodeBytes /\ pc' + Len(left') <= CodeBytes
  <2>1. CASE n = 1
    BY <1>0, <1>1, <1>7, <2>1 DEF Jit!Trap
  <2>2. CASE n # 1
    <3>1. pc' = from + 1 /\ Len(left') = n - 1
      BY <1>1, <1>5, <1>7, <2>2
    <3> QED
      BY <1>0, <1>5, <2>2, <3>1
  <2> QED
    BY <2>1, <2>2
<1>9. Jit!Current(pc, left)'
  <2> SUFFICES ASSUME NEW k \in 1..n - 1
               PROVE  /\ told'[pc' + k - 1] = "yes" => left'[k] = code'[pc' + k - 1]
                      /\ Jit!Page(pc' + k - 1) \in pages'
    BY <1>7 DEF Jit!Current, Jit!Page
  <2>1. k + 1 \in 1..n /\ pc' = from + 1 /\ from + (k + 1) - 1 = pc' + k - 1
    BY <1>1, <1>5, <1>7
  <2>2. /\ told'[from + (k + 1) - 1] = "yes" => vs[k + 1] = code'[from + (k + 1) - 1]
        /\ Jit!Page(from + (k + 1) - 1) \in pages'
    BY <1>5, <1>6, <2>1 DEF Jit!Current, Jit!Page
  <2> QED
    BY <1>7, <2>1, <2>2
<1>10. /\ phase = "block" => n <= MaxBlock
       /\ phase = "step" => n = 1
  BY <1>0, <1>5 DEF Jit!RunningCurrent
<1>11. Jit!RunningCurrent'
  <2>1. phase' \in {"jit", "block", "step"} /\ (phase' = "jit" <=> phase = "block" /\ left' = <<>>)
        /\ (phase' \in {"block", "step"} => phase' = phase)
    BY <1>1
  <2>2. /\ phase' \notin {"block", "step"} => left' = <<>>
        /\ phase' = "block" => left' # <<>> /\ Len(left') <= MaxBlock
        /\ phase' = "step" => Len(left') <= 1
    <3>1. MaxBlock \in Nat /\ Len(left') = n - 1 /\ n \in Nat
      BY <1>7 DEF Jit!DynarmicBounds
    <3>2. CASE phase = "block"
      BY <1>10, <2>1, <3>1, <3>2
    <3>3. CASE phase = "step"
      BY <1>10, <2>1, <3>1, <3>3
    <3> QED
      BY <1>1, <3>2, <3>3
  <2> QED
    BY <1>7, <1>8, <1>9, <2>1, <2>2 DEF Jit!RunningCurrent, Jit!Current, Jit!Trap, Jit!Page
<1>12. CodeTypes'
  <2>1. code' \in [Jit!CellSet -> {0, 1}] /\ told' \in [Jit!CellSet -> {"yes", "later", "never"}]
    BY <1>0, <1>2 DEF CodeTypes, Jit!StoreTo
  <2> QED
    BY <1>1, <1>8, <2>1 DEF CodeTypes, Phases, Jit!CellSet, Jit!Trap
<1>13. Jit!Counted'
  <2>1. {budget, executed, real, ticks} \subseteq Nat /\ MaxBlock \in Nat
    BY <1>0 DEF Jit!Counted, Jit!DynarmicBounds
  <2>2. ticks' \in Nat /\ real' \in Nat
    BY <1>1, <2>1
  <2>3. CASE phase = "block"
    <3>1. executed < budget /\ Jit!TicksMakeUp /\ real + n < budget + MaxBlock
      BY <1>0, <1>5, <2>3 DEF Jit!Counted
    <3>2. Jit!TicksMakeUp'
      <4>1. CASE ticks = 0
        BY <1>1, <2>1, <3>1, <4>1 DEF Jit!TicksMakeUp
      <4>2. CASE ticks # 0
        <5>1. executed <= real /\ real <= budget /\ ticks = budget - real
          BY <3>1, <4>2 DEF Jit!TicksMakeUp
        <5>2. real' = real + 1 /\ ticks' = ticks - 1 /\ UNCHANGED <<budget, executed>>
          BY <1>1, <4>2
        <5>3. executed <= real + 1 /\ real + 1 <= budget /\ ticks - 1 = budget - (real + 1)
          BY <2>1, <4>2, <5>1
        <5> QED
          BY <5>2, <5>3 DEF Jit!TicksMakeUp
      <4> QED
        BY <4>1, <4>2
    <3>3. real' + Len(left') < budget' + MaxBlock
      <4>1. real' = real + 1 /\ budget' = budget /\ Len(left') = n - 1 /\ n \in Nat
        BY <1>1, <1>7
      <4> QED
        BY <2>1, <3>1, <4>1
    <3>4. phase' \in {"jit", "block"}
      BY <1>1, <2>3
    <3> QED
      BY <1>1, <2>1, <2>2, <3>1, <3>2, <3>3, <3>4 DEF Jit!Counted
  <2>4. CASE phase = "step"
    <3>1. phase' = "step" /\ Len(left') = 0 /\ n = 1
      BY <1>1, <1>7, <1>10, <2>4
    <3>2. CASE budget = 0
      BY <1>0, <1>1, <2>1, <2>2, <2>4, <3>1, <3>2 DEF Jit!Counted
    <3>3. CASE budget # 0
      <4>1. executed < budget /\ real + 1 = executed + 1
        BY <1>0, <1>5, <2>4, <3>1, <3>3 DEF Jit!Counted
      <4> QED
        <5>1. real' = real + 1 /\ UNCHANGED <<budget, executed>>
          BY <1>1
        <5>2. executed' < budget' /\ real' + 0 = executed' + 1
          BY <2>1, <4>1, <5>1
        <5> QED
          BY <1>1, <2>1, <2>2, <3>1, <3>3, <5>1, <5>2 DEF Jit!Counted
    <3> QED
      BY <3>2, <3>3
  <2> QED
    BY <1>1, <2>3, <2>4
<1>14. phase' \notin {"idle", "loop"}
  BY <1>1
<1> QED
  BY <1>4, <1>11, <1>12, <1>13, <1>14 DEF Jit!DynarmicInv, CodeTypes, Phases, Jit!Trap, Jit!CellSet

(* The JIT returns; what Run counts is what has run. *)
LEMMA JitEndsKeep ==
    ASSUME Jit!DynarmicBounds, Jit!DynarmicInv, Jit!JitReturns \/ Jit!JitThrows \/ Jit!StepReturns
    PROVE  Jit!DynarmicInv'
<1>0. Jit!RunningCurrent /\ Jit!Counted /\ MaxBlock \in Nat \ {0}
  BY DynarmicInvParts DEF Jit!DynarmicBounds
<1>1. Jit!Drops /\ UNCHANGED <<code, pages, pc>>
  BY DEF Jit!JitReturns, Jit!JitThrows, Jit!StepReturns
<1>2. CASE Jit!Returns
  <2>1. Jit!Counted' /\ left' = <<>> /\ phase' = "idle"
    BY <1>2 DEF Jit!Returns, Jit!Counted
  <2> QED
    BY <1>1, <2>1, DropsKeep
<1>3. CASE Jit!JitReturns
  <2>1. phase = "jit" /\ phase' = "loop" /\ UNCHANGED <<left, budget, ticks, real>>
    BY <1>3 DEF Jit!JitReturns
  <2>2. left = <<>> /\ Len(left) = 0
    BY <1>0, <2>1 DEF Jit!RunningCurrent
  <2>3. /\ ticks \in Nat /\ real \in Nat /\ budget \in Nat /\ executed \in Nat
        /\ executed < budget /\ real < budget + MaxBlock
        /\ \/ executed <= real /\ real <= budget /\ ticks = budget - real
           \/ real > budget /\ ticks = 0
    BY <1>0, <2>1, <2>2 DEF Jit!Counted, Jit!TicksMakeUp
  <2>4. /\ executed' \in Nat /\ executed' <= budget /\ executed' <= real
        /\ executed' < real => executed' = budget /\ real < executed' + MaxBlock
    <3>1. CASE ticks > 0 /\ executed' = executed + Jit!Ran((budget - executed) - (ticks - 1))
      <4>1. (budget - executed) - (ticks - 1) = real - executed + 1 /\ real - executed + 1 > 0
        BY <2>3, <3>1
      <4>2. executed' = real
        BY <2>3, <3>1, <4>1 DEF Jit!Ran
      <4> QED
        BY <2>3, <3>1, <4>2
    <3>2. CASE executed' = executed + ((budget - executed) - ticks)
      BY <1>0, <2>3, <3>2
    <3> QED
      BY <1>3, <3>1, <3>2 DEF Jit!JitReturns
  <2>5. Jit!Counted'
    BY <2>1, <2>3, <2>4 DEF Jit!Counted, Jit!CountsLikeInterpreter
  <2> QED
    BY <1>1, <2>1, <2>2, <2>5, DropsKeep
<1>4. CASE /\ phase = "step" /\ left = <<>> /\ budget # 0 /\ executed' = executed + 1 /\ phase' = "loop"
           /\ UNCHANGED <<left, budget, ticks, real>>
  <2>1. {budget, executed, real, ticks} \subseteq Nat /\ executed < budget /\ real = executed + 1
    BY <1>0, <1>4 DEF Jit!Counted
  <2>2. Jit!Counted'
    BY <1>4, <2>1 DEF Jit!Counted, Jit!CountsLikeInterpreter
  <2> QED
    BY <1>1, <1>4, <2>2, DropsKeep
<1> QED
  BY <1>2, <1>3, <1>4 DEF Jit!JitThrows, Jit!StepReturns

LEMMA DynarmicInvStays ==
    ASSUME Jit!DynarmicBounds, Jit!DynarmicInv, [Jit!DynarmicNext]_Jit!dynarmicVars
    PROVE  Jit!DynarmicInv'
<1>1. CASE UNCHANGED Jit!dynarmicVars
  BY <1>1 DEF Jit!dynarmicVars, Jit!DynarmicInv, Jit!BlocksTyped, Jit!BlocksCurrent, Jit!RunningCurrent,
              Jit!Current, Jit!Counted, Jit!TicksMakeUp, Jit!CountsLikeInterpreter, Jit!Trap,
              Jit!CellSet, Jit!Pending, Jit!Page
<1> QED
  BY <1>1, HostStepsKeep, BeginningsKeep, EntriesKeep, InstructionKeeps, JitEndsKeep
     DEF Jit!DynarmicNext

LEMMA CodeCurrentByInv ==
    Jit!DynarmicBounds /\ Jit!DynarmicInv => Jit!GuestCodeIsCurrent /\ Jit!CountsLikeInterpreter
<1> SUFFICES ASSUME Jit!DynarmicBounds, Jit!DynarmicInv
             PROVE  Jit!GuestCodeIsCurrent /\ Jit!CountsLikeInterpreter
  OBVIOUS
<1>1. CodeTypes /\ Jit!RunningCurrent /\ Jit!Counted /\ (phase \in {"idle", "loop"} => Jit!Pending = {})
  BY DynarmicInvParts
<1>2. ASSUME left # <<>>, told[pc] = "yes"
      PROVE  Head(left) = code[pc]
  <2>1. 1 \in 1..Len(left) /\ Head(left) = left[1] /\ pc + 1 - 1 = pc
    BY <1>1, <1>2 DEF CodeTypes, Jit!RunningCurrent, Jit!DynarmicBounds, Jit!Trap
  <2> QED
    BY <1>1, <1>2, <2>1 DEF Jit!RunningCurrent, Jit!Current
<1> QED
  BY <1>1, <1>2 DEF Jit!Counted, Jit!GuestCodeIsCurrent, Jit!CountsLikeInterpreter

LEMMA DynarmicTypesHold == Jit!DynarmicInv => Jit!DynarmicTypeOK
  BY DEF Jit!DynarmicInv, Jit!BlocksTyped, Jit!RunningCurrent, Jit!DynarmicTypeOK

(* Wherever blocks end and pages lie, whatever is stored from inside a block, and
   however the JIT comes back, an instruction that runs is the one memory holds, but for
   what the host hid and what the guest has stored to since the JIT was entered;
   and Run counts as the interpreter does (DynarmicArmCore::Run, Step,
   Callbacks::MemoryWrite8, NotifyCodeChanged). *)
THEOREM TranslatedCodeIsCurrent ==
    ASSUME Jit!DynarmicBounds
    PROVE  Jit!DynarmicSpec => [](Jit!GuestCodeIsCurrent /\ Jit!CountsLikeInterpreter)
  BY CodeCurrentByInv, DynarmicInvInitially, DynarmicInvStays, PTL DEF Jit!DynarmicSpec

-----------------------------------------------------------------------------
(* The surfaces (EglSurfaces). *)
Egl == INSTANCE EglSurfaces WITH
    MaxWidth <- MaxWidth, MaxHeight <- MaxHeight, PageCells <- SurfacePage,
    RegionStart <- RegionStart, RegionEnd <- RegionEnd, MaxActivity <- MaxActivity,
    surfaces <- v1, next <- v2, current <- v3, backend <- v4, activity <- v5,
    memory <- v6, settled <- v7

surfaces == v1
next == v2
current == v3
backend == v4
activity == v5
memory == v6
settled == v7
USE DEF surfaces, next, current, backend, activity, memory, settled

LEMMA NextPage ==
    ASSUME NEW n \in Nat, Egl!EglBounds
    PROVE  Egl!PageAfter(n) \in Nat /\ n <= Egl!PageAfter(n)
<1> DEFINE m == n + SurfacePage - 1
           q == m \div SurfacePage
           r == m % SurfacePage
<1>1. SurfacePage \in Nat /\ SurfacePage > 0 /\ m \in Nat
  BY DEF Egl!EglBounds
<1>2. q \in Nat /\ r \in 0..SurfacePage - 1 /\ m = SurfacePage * q + r
  BY <1>1
<1>3. Egl!PageAfter(n) = q * SurfacePage
  BY DEF Egl!PageAfter
<1>4. q * SurfacePage = m - r
  <2> HIDE DEF m, q, r
  <2> QED
    BY <1>1, <1>2
<1>5. m - r >= n
  BY <1>1, <1>2
<1> QED
  BY <1>1, <1>2, <1>3, <1>4, <1>5

LEMMA Areas ==
    ASSUME NEW w, NEW h, NEW m, NEW n, m \in Nat, n \in Nat, w \in 0..m, h \in 0..n
    PROVE  w * h \in Nat /\ w * h <= m * n
<1>1. w \in Nat /\ h \in Nat /\ w <= m /\ h <= n
  OBVIOUS
<1>2. w * h \in Nat /\ m * n \in Nat /\ m * h \in Nat
  BY <1>1
<1>3. w * h <= m * h
  BY <1>1
<1>4. m * h <= m * n
  BY <1>1
<1> QED
  BY <1>2, <1>3, <1>4

LEMMA SizesAnswered ==
    ASSUME Egl!EglBounds, Egl!SurfacesTyped, NEW h \in DOMAIN surfaces
    PROVE  /\ Egl!QuerySurface(h, "WIDTH") = surfaces[h].width
           /\ Egl!QuerySurface(h, "HEIGHT") = surfaces[h].height
<1>1. "WIDTH" \notin DOMAIN Egl!ConfigAttrib /\ "HEIGHT" \notin DOMAIN Egl!ConfigAttrib
  BY DEF Egl!ConfigAttrib
<1> QED
  BY <1>1 DEF Egl!QuerySurface

LEMMA EglInvInitially ==
    ASSUME Egl!EglBounds, Egl!EglInit
    PROVE  Egl!EglInv
<1> USE DEF Egl!EglInit, Egl!EglBounds
<1>1. DOMAIN surfaces = {} /\ DOMAIN memory = {}
  OBVIOUS
<1>2. Egl!SurfacesTyped
  BY <1>1 DEF Egl!SurfacesTyped
<1>3. Egl!SurfacesApart
  BY <1>1 DEF Egl!SurfacesApart
<1>4. Egl!BackendTyped
  <2>1. backend \in [fbo : BOOLEAN, target : {"frame", "pbuffer"}, bound : BOOLEAN,
                     size : (0..MaxWidth) \X (0..MaxHeight), frame : Nat, pbuffer : Nat]
    <3> DEFINE sizes == (0..MaxWidth) \X (0..MaxHeight)
    <3>1. <<0, 0>> \in sizes
      OBVIOUS
    <3> HIDE DEF sizes
    <3>2. backend \in [fbo : BOOLEAN, target : {"frame", "pbuffer"}, bound : BOOLEAN,
                       size : sizes, frame : Nat, pbuffer : Nat]
      <4>1. {FALSE} \subseteq BOOLEAN /\ {"frame"} \subseteq {"frame", "pbuffer"}
            /\ {<<0, 0>>} \subseteq sizes /\ {0} \subseteq Nat
        BY <3>1
      <4> QED
        BY <4>1, Zenon
    <3> QED
      BY <3>2 DEF sizes
  <2>5. backend.bound = FALSE
    OBVIOUS
  <2>2. activity \in [sum : Nat, last : Int] /\ activity.last <= activity.sum
    OBVIOUS
  <2>3. current \in [draw : {0} \cup DOMAIN surfaces, context : BOOLEAN]
    OBVIOUS
  <2>4. memory \in [DOMAIN memory -> Nat]
    BY <1>1
  <2> QED
    BY <1>1, <2>1, <2>2, <2>3, <2>4, <2>5 DEF Egl!BackendTyped
<1>5. Egl!ReadbackFollowsDrawing
  BY <1>1 DEF Egl!ReadbackFollowsDrawing, Egl!WouldSkip
<1> QED
  BY <1>2, <1>3, <1>4, <1>5 DEF Egl!EglInv

\* a step that leaves the surfaces alone
LEMMA SurfacesStay ==
    ASSUME Egl!EglInv, UNCHANGED <<surfaces, next>>
    PROVE  Egl!SurfacesTyped' /\ Egl!SurfacesApart'
BY DEF Egl!EglInv, Egl!SurfacesTyped, Egl!SurfacesApart, Egl!SurfaceEnd, Egl!Surface

LEMMA CreateWindowKeeps ==
    ASSUME Egl!EglBounds, Egl!EglInv, Egl!CreateWindowSurface
    PROVE  Egl!EglInv'
<1> DEFINE window == [width |-> MaxWidth, height |-> MaxHeight, buffer |-> 0]
<1>1. /\ surfaces' = Egl!Put(surfaces, Egl!WindowHandle, window)
      /\ UNCHANGED <<next, current, backend, activity, memory, settled>>
  BY DEF Egl!CreateWindowSurface
<1>2. window \in Egl!Surface /\ window.buffer = 0
  BY DEF Egl!Surface, Egl!EglBounds
<1> HIDE DEF window
<1>3. surfaces' = [h \in DOMAIN surfaces \cup {1} |->
                     IF h = 1 THEN window ELSE surfaces[h]]
  BY <1>1 DEF Egl!WindowHandle, Egl!Put
<1>4. /\ DOMAIN surfaces' = {1} \cup DOMAIN surfaces /\ surfaces'[1] = window
      /\ \A h \in DOMAIN surfaces : h # 1 => surfaces'[h] = surfaces[h]
  BY <1>3
<1>5. Egl!SurfacesTyped'
  <2>1. \A h \in DOMAIN surfaces' : surfaces'[h] \in Egl!Surface
    BY <1>2, <1>4 DEF Egl!EglInv, Egl!SurfacesTyped
  <2>2. surfaces' \in [DOMAIN surfaces' -> Egl!Surface]
    BY <1>3, <1>4, <2>1
  <2>3. next' = next
    BY <1>1
  <2>4. DOMAIN surfaces' \subseteq 1..next'.handle - 1
    BY <1>4, <2>3 DEF Egl!EglInv, Egl!SurfacesTyped
  <2> QED
    BY <2>2, <2>3, <2>4 DEF Egl!EglInv, Egl!SurfacesTyped
<1>6. \A h \in DOMAIN surfaces' : surfaces'[h].buffer # 0 =>
        h \in DOMAIN surfaces /\ surfaces'[h] = surfaces[h]
  BY <1>2, <1>4
<1>7. Egl!SurfacesApart'
  BY <1>1, <1>6 DEF Egl!EglInv, Egl!SurfacesApart, Egl!SurfaceEnd
<1>8. Egl!BackendTyped'
  BY <1>1, <1>4, <1>6 DEF Egl!EglInv, Egl!BackendTyped
<1>9. Egl!ReadbackFollowsDrawing'
  BY <1>1, <1>6 DEF Egl!EglInv, Egl!ReadbackFollowsDrawing, Egl!WouldSkip
<1> QED
  BY <1>5, <1>7, <1>8, <1>9 DEF Egl!EglInv

LEMMA CreatePbufferKeeps ==
    ASSUME Egl!EglBounds, Egl!EglInv, Egl!CreatePbufferSurface
    PROVE  Egl!EglInv'
<1>1. PICK width \in 1..MaxWidth, height \in 1..MaxHeight :
        /\ next.pixels + width * height * 2 <= RegionEnd
        /\ surfaces' = Egl!Put(surfaces, next.handle, [width |-> width, height |-> height,
                                                   buffer |-> next.pixels])
        /\ memory' = Egl!Put(memory, next.handle, 0)
        /\ next' = [pixels |-> Egl!PageAfter(next.pixels + width * height * 2),
                    handle |-> next.handle + 1]
        /\ UNCHANGED <<current, backend, activity, settled>>
  BY DEF Egl!CreatePbufferSurface
<1> DEFINE new == [width |-> width, height |-> height, buffer |-> next.pixels]
           n == next.handle
           end == next.pixels + width * height * 2
<1>2. /\ next.pixels \in Nat /\ n \in Nat /\ n > 1
      /\ DOMAIN surfaces \subseteq 1..n - 1
      /\ surfaces \in [DOMAIN surfaces -> Egl!Surface]
  BY DEF Egl!EglInv, Egl!SurfacesTyped
<1>3. width \in 0..MaxWidth /\ height \in 0..MaxHeight /\ width * height \in Nat
  BY DEF Egl!EglBounds
<1>4. end \in Nat /\ next.pixels <= end /\ end <= RegionEnd
  BY <1>1, <1>2, <1>3
<1>5. new \in Egl!Surface /\ Egl!SurfaceEnd(new) = end /\ new.buffer = next.pixels
  BY <1>2, <1>3 DEF Egl!Surface, Egl!SurfaceEnd
<1>6. next'.pixels \in Nat /\ next'.pixels >= end /\ next'.handle = n + 1
  BY <1>1, <1>4, NextPage
<1>7. surfaces' = [h \in DOMAIN surfaces \cup {n} |-> IF h = n THEN new ELSE surfaces[h]]
  BY <1>1 DEF Egl!Put
<1>8. memory' = [h \in DOMAIN memory \cup {n} |-> IF h = n THEN 0 ELSE memory[h]]
  BY <1>1 DEF Egl!Put
<1>9. UNCHANGED <<current, backend, activity, settled>>
  BY <1>1
<1> HIDE DEF new, n, end
<1>10. /\ DOMAIN surfaces' = {n} \cup DOMAIN surfaces /\ surfaces'[n] = new
       /\ n \notin DOMAIN surfaces
       /\ \A h \in DOMAIN surfaces : surfaces'[h] = surfaces[h]
  BY <1>2, <1>7
<1>11. Egl!SurfacesTyped'
  <2>1. \A h \in DOMAIN surfaces' : surfaces'[h] \in Egl!Surface
    BY <1>2, <1>5, <1>10
  <2>2. surfaces' \in [DOMAIN surfaces' -> Egl!Surface]
    BY <1>7, <1>10, <2>1
  <2>3. DOMAIN surfaces' \subseteq 1..next'.handle - 1
    BY <1>2, <1>6, <1>10
  <2>4. next'.handle \in Nat /\ next'.handle > 1
    BY <1>2, <1>6
  <2> QED
    BY <1>6, <2>2, <2>3, <2>4 DEF Egl!SurfacesTyped
<1>12. \A h \in DOMAIN surfaces : surfaces[h].buffer # 0 =>
         /\ Egl!SurfaceEnd(surfaces[h]) <= next.pixels /\ Egl!SurfaceEnd(surfaces[h]) <= RegionEnd
         /\ Egl!SurfaceEnd(surfaces[h]) \in Nat
  <2>1. \A h \in DOMAIN surfaces : surfaces[h] \in Egl!Surface
    BY <1>2
  <2>2. \A s \in Egl!Surface : Egl!SurfaceEnd(s) \in Nat
    <3> SUFFICES ASSUME NEW s \in Egl!Surface
                 PROVE  Egl!SurfaceEnd(s) \in Nat
      OBVIOUS
    <3>1. s.width \in 0..MaxWidth /\ s.height \in 0..MaxHeight /\ s.buffer \in Nat
      BY DEF Egl!Surface
    <3>2. s.width * s.height \in Nat
      BY <3>1 DEF Egl!EglBounds
    <3> QED
      BY <3>1, <3>2 DEF Egl!SurfaceEnd
  <2> QED
    BY <2>1, <2>2 DEF Egl!EglInv, Egl!SurfacesApart
<1>13. Egl!SurfacesApart'
  <2>1. \A h \in DOMAIN surfaces' : surfaces'[h].buffer # 0 =>
          /\ Egl!SurfaceEnd(surfaces'[h]) <= next'.pixels
          /\ Egl!SurfaceEnd(surfaces'[h]) <= RegionEnd
    <3> SUFFICES ASSUME NEW h \in DOMAIN surfaces', surfaces'[h].buffer # 0
                 PROVE  /\ Egl!SurfaceEnd(surfaces'[h]) <= next'.pixels
                        /\ Egl!SurfaceEnd(surfaces'[h]) <= RegionEnd
      OBVIOUS
    <3>1. CASE h = n
      BY <1>4, <1>5, <1>6, <1>10, <3>1
    <3>2. CASE h # n
      BY <1>2, <1>4, <1>6, <1>10, <1>12, <3>2
    <3> QED
      BY <3>1, <3>2
  <2>2. ASSUME NEW g \in DOMAIN surfaces', NEW h \in DOMAIN surfaces', g # h,
               surfaces'[g].buffer # 0, surfaces'[h].buffer # 0
        PROVE  \/ Egl!SurfaceEnd(surfaces'[h]) <= surfaces'[g].buffer
               \/ Egl!SurfaceEnd(surfaces'[g]) <= surfaces'[h].buffer
    <3>1. CASE g = n
      BY <1>5, <1>10, <1>12, <2>2, <3>1
    <3>2. CASE h = n
      BY <1>5, <1>10, <1>12, <2>2, <3>2
    <3>3. CASE g # n /\ h # n
      BY <1>10, <2>2, <3>3 DEF Egl!EglInv, Egl!SurfacesApart
    <3> QED
      BY <3>1, <3>2, <3>3
  <2>3. \A s : Egl!SurfaceEnd(s) = s.buffer + s.width * s.height * 2
    BY DEF Egl!SurfaceEnd
  <2> QED
    BY <2>1, <2>2 DEF Egl!SurfacesApart, Egl!SurfaceEnd
<1>14. /\ DOMAIN memory' = {n} \cup DOMAIN memory
       /\ \A h \in DOMAIN memory : h # n => memory'[h] = memory[h]
       /\ memory' \in [DOMAIN memory' -> Nat]
  <2>1. DOMAIN memory' = {n} \cup DOMAIN memory
    BY <1>8
  <2>2. \A h \in DOMAIN memory' : (IF h = n THEN 0 ELSE memory[h]) \in Nat
    BY <2>1 DEF Egl!EglInv, Egl!BackendTyped
  <2> QED
    BY <1>8, <2>1, <2>2
<1>15. Egl!BackendTyped'
  <2>1. \A h \in DOMAIN surfaces' : surfaces'[h].buffer # 0 => h \in DOMAIN memory'
    BY <1>10, <1>14 DEF Egl!EglInv, Egl!BackendTyped
  <2>2. current' \in [draw : {0} \cup DOMAIN surfaces', context : BOOLEAN]
    BY <1>9, <1>10 DEF Egl!EglInv, Egl!BackendTyped
  <2>3. /\ backend' = backend /\ activity' = activity
    BY <1>9
  <2>4. memory' \in [DOMAIN memory' -> Nat]
    BY <1>14
  <2> QED
    BY <2>1, <2>2, <2>3, <2>4 DEF Egl!EglInv, Egl!BackendTyped
<1>16. Egl!ReadbackFollowsDrawing'
  <2> SUFFICES ASSUME current'.draw \in DOMAIN surfaces',
                      surfaces'[current'.draw].buffer # 0,
                      backend'.bound, activity'.sum = activity'.last, settled'
               PROVE  memory'[current'.draw] = backend'.pbuffer
    BY DEF Egl!ReadbackFollowsDrawing, Egl!WouldSkip
  <2>1. current.draw \in {0} \cup DOMAIN surfaces
    BY DEF Egl!EglInv, Egl!BackendTyped
  <2>2. current.draw \in DOMAIN surfaces /\ current.draw # n
    BY <1>2, <1>9, <1>10, <2>1
  <2>3. surfaces[current.draw].buffer # 0 /\ current.draw \in DOMAIN memory
    BY <1>9, <1>10, <2>2 DEF Egl!EglInv, Egl!BackendTyped
  <2>4. memory[current.draw] = backend.pbuffer
    BY <1>9, <2>2, <2>3 DEF Egl!EglInv, Egl!ReadbackFollowsDrawing, Egl!WouldSkip
  <2> QED
    BY <1>9, <1>14, <2>2, <2>3, <2>4
<1> QED
  BY <1>11, <1>13, <1>15, <1>16 DEF Egl!EglInv

LEMMA DestroyKeeps ==
    ASSUME Egl!EglBounds, Egl!EglInv, Egl!DestroySurface
    PROVE  Egl!EglInv'
<1>1. PICK gone \in DOMAIN surfaces :
        /\ surfaces' = [s \in DOMAIN surfaces \ {gone} |-> surfaces[s]]
        /\ current' = [current EXCEPT !.draw = IF @ = gone THEN 0 ELSE @]
        /\ UNCHANGED <<next, backend, activity, memory, settled>>
  BY DEF Egl!DestroySurface
<1>2. /\ DOMAIN surfaces' = DOMAIN surfaces \ {gone}
      /\ \A h \in DOMAIN surfaces' : h \in DOMAIN surfaces /\ surfaces'[h] = surfaces[h]
  BY <1>1
<1>3. current \in [draw : {0} \cup DOMAIN surfaces, context : BOOLEAN]
  BY DEF Egl!EglInv, Egl!BackendTyped
<1>4. /\ current' \in [draw : {0} \cup DOMAIN surfaces', context : BOOLEAN]
      /\ current'.draw = (IF current.draw = gone THEN 0 ELSE current.draw)
  BY <1>1, <1>2, <1>3
<1>5. 0 \notin DOMAIN surfaces
  BY DEF Egl!EglInv, Egl!SurfacesTyped
<1>6. Egl!SurfacesTyped'
  <2>1. surfaces' \in [DOMAIN surfaces' -> Egl!Surface]
    BY <1>1, <1>2 DEF Egl!EglInv, Egl!SurfacesTyped
  <2> QED
    BY <1>1, <1>2, <2>1 DEF Egl!EglInv, Egl!SurfacesTyped
<1>7. Egl!SurfacesApart'
  BY <1>1, <1>2 DEF Egl!EglInv, Egl!SurfacesApart, Egl!SurfaceEnd
<1>8. Egl!BackendTyped'
  BY <1>1, <1>2, <1>4 DEF Egl!EglInv, Egl!BackendTyped
<1>9. Egl!ReadbackFollowsDrawing'
  BY <1>1, <1>2, <1>4, <1>5 DEF Egl!EglInv, Egl!ReadbackFollowsDrawing, Egl!WouldSkip
<1> QED
  BY <1>6, <1>7, <1>8, <1>9 DEF Egl!EglInv

LEMMA MakeCurrentKeeps ==
    ASSUME Egl!EglBounds, Egl!EglInv, Egl!MakeCurrent
    PROVE  Egl!EglInv'
<1>1. PICK draw \in DOMAIN surfaces, ctx \in {0, Egl!ContextHandle} :
        IF ctx = 0
        THEN /\ current' = [draw |-> 0, context |-> FALSE]
             /\ UNCHANGED <<surfaces, next, backend, activity, memory, settled>>
        ELSE LET s == surfaces[draw] IN
             /\ current' = [draw |-> draw, context |-> TRUE]
             /\ backend' = IF s.buffer # 0
                           THEN Egl!BindOffscreenTarget(backend, <<s.width, s.height>>)
                           ELSE Egl!UnbindOffscreenTarget(backend)
             /\ settled' = FALSE
             /\ UNCHANGED <<surfaces, next, activity, memory>>
  BY DEF Egl!MakeCurrent
<1>2. UNCHANGED <<surfaces, next, activity, memory>>
  BY <1>1
<1>3. Egl!SurfacesTyped' /\ Egl!SurfacesApart'
  BY <1>2, SurfacesStay
<1>4. 0 \notin DOMAIN surfaces
  BY DEF Egl!EglInv, Egl!SurfacesTyped
<1> DEFINE sizes == (0..MaxWidth) \X (0..MaxHeight)
           Backend == [fbo : BOOLEAN, target : {"frame", "pbuffer"}, bound : BOOLEAN,
                       size : sizes, frame : Nat, pbuffer : Nat]
<1>5. backend \in Backend /\ (backend.bound => backend.fbo)
  BY DEF Egl!EglInv, Egl!BackendTyped
<1>6. CASE ctx = 0
  <2>1. current' = [draw |-> 0, context |-> FALSE] /\ UNCHANGED <<backend, settled>>
    BY <1>1, <1>6
  <2>2. Egl!BackendTyped'
    BY <1>2, <2>1 DEF Egl!EglInv, Egl!BackendTyped
  <2>3. Egl!ReadbackFollowsDrawing'
    BY <1>2, <1>4, <2>1 DEF Egl!ReadbackFollowsDrawing, Egl!WouldSkip
  <2> QED
    BY <1>3, <2>2, <2>3 DEF Egl!EglInv
<1>7. CASE ctx # 0
  <2> DEFINE s == surfaces[draw]
             size == <<s.width, s.height>>
  <2>1. /\ current' = [draw |-> draw, context |-> TRUE] /\ settled' = FALSE
        /\ \/ backend' = Egl!BindOffscreenTarget(backend, size)
           \/ backend' = Egl!UnbindOffscreenTarget(backend)
    BY <1>1, <1>7
  <2>2. size \in sizes
    <3>1. s \in Egl!Surface
      BY DEF Egl!EglInv, Egl!SurfacesTyped
    <3> QED
      BY <3>1 DEF Egl!Surface
  <2> HIDE DEF size, sizes
  <2>3. backend' \in Backend /\ (backend'.bound => backend'.fbo)
    <3>1. CASE backend' = Egl!BindOffscreenTarget(backend, size)
      <4>1. CASE backend.fbo
        <5> DEFINE new == [backend EXCEPT !.target = "pbuffer", !.bound = TRUE, !.size = size,
                             !.pbuffer = IF size = backend.size THEN @ ELSE 0]
        <5>1. backend' = new
          BY <3>1, <4>1 DEF Egl!BindOffscreenTarget
        <5>2. new \in Backend /\ new.fbo = backend.fbo
          BY <1>5, <2>2
        <5> QED
          BY <4>1, <5>1, <5>2
      <4>2. CASE ~backend.fbo
        BY <1>5, <3>1, <4>2 DEF Egl!BindOffscreenTarget
      <4> QED
        BY <4>1, <4>2
    <3>2. CASE backend' = Egl!UnbindOffscreenTarget(backend)
      <4>1. CASE backend.bound
        <5> DEFINE new == [backend EXCEPT !.target = "frame", !.bound = FALSE]
        <5>1. backend' = new
          BY <3>2, <4>1 DEF Egl!UnbindOffscreenTarget
        <5>2. new \in Backend /\ new.bound = FALSE
          BY <1>5
        <5> QED
          BY <5>1, <5>2
      <4>2. CASE ~backend.bound
        BY <1>5, <3>2, <4>2 DEF Egl!UnbindOffscreenTarget
      <4> QED
        BY <4>1, <4>2
    <3> QED
      BY <2>1, <3>1, <3>2
  <2>4. current' \in [draw : {0} \cup DOMAIN surfaces', context : BOOLEAN]
    BY <1>2, <2>1
  <2>5. Egl!BackendTyped'
    BY <1>2, <2>3, <2>4 DEF Egl!EglInv, Egl!BackendTyped, sizes
  <2>6. Egl!ReadbackFollowsDrawing'
    BY <2>1 DEF Egl!ReadbackFollowsDrawing
  <2> QED
    BY <1>3, <2>5, <2>6 DEF Egl!EglInv
<1> QED
  BY <1>6, <1>7

LEMMA DestroyContextKeeps ==
    ASSUME Egl!EglBounds, Egl!EglInv, Egl!DestroyContext
    PROVE  Egl!EglInv'
<1>1. /\ current' = [current EXCEPT !.context = FALSE]
      /\ UNCHANGED <<surfaces, next, backend, activity, memory, settled>>
  BY DEF Egl!DestroyContext
<1>2. current \in [draw : {0} \cup DOMAIN surfaces, context : BOOLEAN]
  BY DEF Egl!EglInv, Egl!BackendTyped
<1>3. current' \in [draw : {0} \cup DOMAIN surfaces', context : BOOLEAN]
      /\ current'.draw = current.draw
  BY <1>1, <1>2
<1>4. Egl!SurfacesTyped' /\ Egl!SurfacesApart'
  BY <1>1, SurfacesStay
<1>5. Egl!BackendTyped'
  BY <1>1, <1>3 DEF Egl!EglInv, Egl!BackendTyped
<1>6. Egl!ReadbackFollowsDrawing'
  BY <1>1, <1>3 DEF Egl!EglInv, Egl!ReadbackFollowsDrawing, Egl!WouldSkip
<1> QED
  BY <1>4, <1>5, <1>6 DEF Egl!EglInv

\* a call that draws, and what it leaves of the backend: after one that counts
\* the next request copies, after one that does not nothing is claimed
LEMMA ActiveKeeps ==
    ASSUME Egl!EglBounds, Egl!EglInv,
           NEW call \in {"arrays", "elements", "clear", "upload", "swap"},
           activity' = Egl!Active(call), UNCHANGED <<surfaces, next, current, memory>>,
           call = "clear" => settled' = FALSE,
           backend' \in [fbo : BOOLEAN, target : {"frame", "pbuffer"}, bound : BOOLEAN,
                         size : (0..MaxWidth) \X (0..MaxHeight), frame : Nat, pbuffer : Nat],
           backend'.bound => backend'.fbo
    PROVE  Egl!EglInv'
<1>1. activity \in [sum : Nat, last : Int] /\ activity.last <= activity.sum
  BY DEF Egl!EglInv, Egl!BackendTyped
<1>2. /\ activity' \in [sum : Nat, last : Int] /\ activity'.last <= activity'.sum
      /\ call # "clear" => activity'.last # activity'.sum
  <2>1. CASE call = "clear"
    <3>1. activity' = [activity EXCEPT !.sum = @]
      BY <2>1 DEF Egl!Active, Egl!Counted
    <3> QED
      BY <1>1, <2>1, <3>1
  <2>2. CASE call # "clear"
    <3>1. activity' = [activity EXCEPT !.sum = @ + 1]
      BY <2>2 DEF Egl!Active, Egl!Counted
    <3> QED
      BY <1>1, <3>1
  <2> QED
    BY <2>1, <2>2
<1>4. Egl!SurfacesTyped' /\ Egl!SurfacesApart'
  BY SurfacesStay
<1>5. Egl!BackendTyped'
  BY <1>2 DEF Egl!EglInv, Egl!BackendTyped
<1>6. Egl!ReadbackFollowsDrawing'
  <2>1. CASE call = "clear"
    BY <2>1 DEF Egl!ReadbackFollowsDrawing
  <2>2. CASE call # "clear"
    BY <1>2, <2>2 DEF Egl!ReadbackFollowsDrawing, Egl!WouldSkip
  <2> QED
    BY <2>1, <2>2
<1> QED
  BY <1>4, <1>5, <1>6 DEF Egl!EglInv

LEMMA DrawKeeps ==
    ASSUME Egl!EglBounds, Egl!EglInv, Egl!Draw \/ Egl!Upload \/ Egl!SwapBuffers
    PROVE  Egl!EglInv'
<1> DEFINE sizes == (0..MaxWidth) \X (0..MaxHeight)
           Backend == [fbo : BOOLEAN, target : {"frame", "pbuffer"}, bound : BOOLEAN,
                       size : sizes, frame : Nat, pbuffer : Nat]
<1>1. backend \in Backend /\ (backend.bound => backend.fbo)
  BY DEF Egl!EglInv, Egl!BackendTyped
<1>2. PICK call \in {"arrays", "elements", "clear", "upload", "swap"} :
          /\ activity' = Egl!Active(call)
          /\ call = "clear" => settled' = FALSE
  BY DEF Egl!Draw, Egl!Upload, Egl!SwapBuffers
<1>3. UNCHANGED <<surfaces, next, current, memory>>
  BY DEF Egl!Draw, Egl!Upload, Egl!SwapBuffers
<1>4. \/ backend' = backend \/ backend' = Egl!Drawn(backend)
      \/ backend' = [backend EXCEPT !.target = "frame"]
  BY DEF Egl!Draw, Egl!Upload, Egl!SwapBuffers
<1> HIDE DEF sizes
<1>5. backend' \in Backend /\ backend'.bound = backend.bound /\ backend'.fbo = backend.fbo
  <2>1. CASE backend' = Egl!Drawn(backend)
    <3>1. CASE backend.target = "frame"
      <4>1. backend' = [backend EXCEPT !.frame = @ + 1]
        BY <2>1, <3>1 DEF Egl!Drawn
      <4> QED
        BY <1>1, <4>1
    <3>2. CASE backend.target # "frame"
      <4>1. backend' = [backend EXCEPT !.pbuffer = @ + 1]
        BY <2>1, <3>2 DEF Egl!Drawn
      <4> QED
        BY <1>1, <4>1
    <3> QED
      BY <3>1, <3>2
  <2>2. CASE backend' = [backend EXCEPT !.target = "frame"]
    BY <1>1, <2>2
  <2> QED
    BY <1>1, <1>4, <2>1, <2>2
<1> QED
  BY <1>1, <1>2, <1>3, <1>5, ActiveKeeps DEF sizes

LEMMA GetColorBufferKeeps ==
    ASSUME Egl!EglBounds, Egl!EglInv, Egl!GetColorBuffer
    PROVE  Egl!EglInv'
<1> DEFINE sizes == (0..MaxWidth) \X (0..MaxHeight)
           Backend == [fbo : BOOLEAN, target : {"frame", "pbuffer"}, bound : BOOLEAN,
                       size : sizes, frame : Nat, pbuffer : Nat]
           draw == current.draw
<1>1. /\ backend \in Backend /\ (backend.bound => backend.fbo)
      /\ activity \in [sum : Nat, last : Int]
      /\ memory \in [DOMAIN memory -> Nat]
  BY DEF Egl!EglInv, Egl!BackendTyped
<1>2. UNCHANGED <<surfaces, next, current>> /\ draw \in DOMAIN surfaces
      /\ surfaces[draw].buffer # 0
  BY DEF Egl!GetColorBuffer
<1>3. draw \in DOMAIN memory
  BY <1>2 DEF Egl!EglInv, Egl!BackendTyped
<1>4. Egl!SurfacesTyped' /\ Egl!SurfacesApart'
  BY <1>2, SurfacesStay
<1> HIDE DEF sizes
<1>5. CASE activity.sum = activity.last
  <2>1. UNCHANGED <<activity, backend, memory, settled>>
    BY <1>5 DEF Egl!GetColorBuffer
  <2>2. Egl!BackendTyped'
    BY <1>2, <2>1 DEF Egl!EglInv, Egl!BackendTyped
  <2>3. Egl!ReadbackFollowsDrawing'
    BY <1>2, <2>1 DEF Egl!EglInv, Egl!ReadbackFollowsDrawing, Egl!WouldSkip
  <2> QED
    BY <1>4, <2>2, <2>3 DEF Egl!EglInv
<1>6. CASE activity.sum # activity.last
  <2> DEFINE shown == IF backend.bound THEN backend.pbuffer ELSE backend.frame
  <2>1. /\ activity' = [activity EXCEPT !.last = activity.sum]
        /\ backend' = IF backend.fbo
                      THEN [backend EXCEPT !.target = IF @ = "pbuffer" \/ backend.bound
                                                      THEN "pbuffer" ELSE "frame"]
                      ELSE backend
        /\ memory' = IF backend.fbo THEN [memory EXCEPT ![draw] = shown] ELSE memory
    BY <1>6 DEF Egl!GetColorBuffer
  <2>2. activity' \in [sum : Nat, last : Int] /\ activity'.last <= activity'.sum
    BY <1>1, <2>1
  <2>3. /\ backend' \in Backend /\ backend'.bound = backend.bound
        /\ backend'.fbo = backend.fbo /\ backend'.pbuffer = backend.pbuffer
    BY <1>1, <2>1
  <2>4. shown \in Nat
    BY <1>1
  <2> HIDE DEF shown
  <2>5. /\ memory' \in [DOMAIN memory' -> Nat] /\ DOMAIN memory' = DOMAIN memory
        /\ backend.fbo => memory'[draw] = shown
    BY <1>1, <1>3, <2>1, <2>4
  <2>6. Egl!BackendTyped'
    <3>1. current' \in [draw : {0} \cup DOMAIN surfaces', context : BOOLEAN]
      BY <1>2 DEF Egl!EglInv, Egl!BackendTyped
    <3>2. \A h \in DOMAIN surfaces' : surfaces'[h].buffer # 0 => h \in DOMAIN memory'
      BY <1>2, <2>5 DEF Egl!EglInv, Egl!BackendTyped
    <3> QED
      BY <1>1, <2>2, <2>3, <2>5, <3>1, <3>2 DEF Egl!BackendTyped, sizes
  <2>7. Egl!ReadbackFollowsDrawing'
    <3>1. backend.bound => memory'[draw] = backend.pbuffer
      BY <1>1, <2>5 DEF shown
    <3> QED
      BY <1>2, <2>3, <3>1 DEF Egl!ReadbackFollowsDrawing, Egl!WouldSkip
  <2> QED
    BY <1>4, <2>6, <2>7 DEF Egl!EglInv
<1> QED
  BY <1>5, <1>6

LEMMA EglInvStays ==
    ASSUME Egl!EglBounds, Egl!EglInv, [Egl!EglNext]_Egl!eglVars
    PROVE  Egl!EglInv'
<1>1. CASE UNCHANGED Egl!eglVars
  <2>1. UNCHANGED <<surfaces, next>> /\ UNCHANGED <<current, backend, activity, memory, settled>>
    BY <1>1 DEF Egl!eglVars
  <2>2. Egl!SurfacesTyped' /\ Egl!SurfacesApart'
    BY <2>1, SurfacesStay
  <2>3. Egl!BackendTyped'
    BY <2>1 DEF Egl!EglInv, Egl!BackendTyped
  <2>4. Egl!ReadbackFollowsDrawing'
    BY <2>1 DEF Egl!EglInv, Egl!ReadbackFollowsDrawing, Egl!WouldSkip
  <2> QED
    BY <2>2, <2>3, <2>4 DEF Egl!EglInv
<1> QED
  BY <1>1, CreateWindowKeeps, CreatePbufferKeeps, DestroyKeeps, MakeCurrentKeeps,
     DestroyContextKeeps, DrawKeeps, GetColorBufferKeeps DEF Egl!EglNext

LEMMA EglInvShows ==
    ASSUME Egl!EglBounds, Egl!EglInv
    PROVE  Egl!PbuffersApart /\ Egl!ReadbackFollowsDrawing
<1>1. \A h \in DOMAIN surfaces :
        Egl!QuerySurface(h, "WIDTH") = surfaces[h].width
        /\ Egl!QuerySurface(h, "HEIGHT") = surfaces[h].height
  BY SizesAnswered DEF Egl!EglInv
<1>2. \A h \in DOMAIN surfaces :
        /\ surfaces[h].width * surfaces[h].height \in Nat
        /\ surfaces[h].width * surfaces[h].height <= MaxWidth * MaxHeight
  <2>1. \A h \in DOMAIN surfaces :
          surfaces[h].width \in 0..MaxWidth /\ surfaces[h].height \in 0..MaxHeight
    BY DEF Egl!EglInv, Egl!SurfacesTyped, Egl!Surface
  <2> QED
    BY <2>1, Areas DEF Egl!EglBounds
<1>3. Egl!ConfigAttrib["MAX_PBUFFER_PIXELS"] = MaxWidth * MaxHeight
      /\ MaxWidth * MaxHeight \in Nat
  BY DEF Egl!ConfigAttrib, Egl!EglBounds
<1>4. ASSUME NEW h \in DOMAIN surfaces, surfaces[h].buffer # 0
      PROVE  /\ Egl!QuerySurface(h, "WIDTH") * Egl!QuerySurface(h, "HEIGHT") * 2
                  <= 2 * Egl!ConfigAttrib["MAX_PBUFFER_PIXELS"]
             /\ surfaces[h].buffer + Egl!QuerySurface(h, "WIDTH") * Egl!QuerySurface(h, "HEIGHT") * 2
                  <= RegionEnd
             /\ \A g \in DOMAIN surfaces : g # h /\ surfaces[g].buffer # 0 =>
                  \/ surfaces[h].buffer + Egl!QuerySurface(h, "WIDTH") * Egl!QuerySurface(h, "HEIGHT") * 2
                       <= surfaces[g].buffer
                  \/ surfaces[g].buffer + Egl!QuerySurface(g, "WIDTH") * Egl!QuerySurface(g, "HEIGHT") * 2
                       <= surfaces[h].buffer
  <2>1. Egl!QuerySurface(h, "WIDTH") * Egl!QuerySurface(h, "HEIGHT") * 2
          <= 2 * Egl!ConfigAttrib["MAX_PBUFFER_PIXELS"]
    BY <1>1, <1>2, <1>3
  <2>2. surfaces[h].buffer + Egl!QuerySurface(h, "WIDTH") * Egl!QuerySurface(h, "HEIGHT") * 2
          <= RegionEnd
    BY <1>1, <1>4 DEF Egl!EglInv, Egl!SurfacesApart, Egl!SurfaceEnd
  <2>3. \A g \in DOMAIN surfaces : g # h /\ surfaces[g].buffer # 0 =>
          Egl!SurfaceEnd(surfaces[h]) <= surfaces[g].buffer
          \/ Egl!SurfaceEnd(surfaces[g]) <= surfaces[h].buffer
    BY <1>4 DEF Egl!EglInv, Egl!SurfacesApart
  <2>4. \A g \in DOMAIN surfaces : Egl!SurfaceEnd(surfaces[g]) =
          surfaces[g].buffer + Egl!QuerySurface(g, "WIDTH") * Egl!QuerySurface(g, "HEIGHT") * 2
    BY <1>1 DEF Egl!SurfaceEnd
  <2> QED
    BY <2>1, <2>2, <2>3, <2>4
<1>5. Egl!PbuffersApart
  BY <1>4 DEF Egl!PbuffersApart
<1> QED
  BY <1>5 DEF Egl!EglInv

-----------------------------------------------------------------------------
(* The rasteriser (SoftGl). *)
Raster == INSTANCE SoftGl WITH
    Far <- Far, MaxFragments <- MaxFragments, MaxStack <- MaxStack,
    MaxVertices <- MaxVertices,
    pixel <- v1, state <- v2, stacks <- v3, seen <- v4, plain <- v5

pixel == v1
state == v2
stacks == v3
seen == v4
plain == v5
USE DEF pixel, state, stacks, seen, plain

LEMMA SoftInvInitially ==
    ASSUME Raster!SoftBounds, Raster!SoftInit
    PROVE  Raster!SoftInv
<1> USE DEF Raster!SoftInit, Raster!SoftBounds
<1>1. pixel \in [color : Nat, depth : 0..Far]
  OBVIOUS
<1>2. seen \in Seq(Nat)
  OBVIOUS
<1>3. Raster!PixelIsFirst
  BY DEF Raster!PixelIsFirst
<1> QED
  BY <1>1, <1>2, <1>3 DEF Raster!SoftInv, Raster!SoftTyped

LEMMA SoftStateKeeps ==
    ASSUME Raster!SoftBounds, Raster!SoftInv, Raster!SetState \/ Raster!DepthFunc
    PROVE  Raster!SoftInv'
<1>1. UNCHANGED <<pixel, seen, plain>>
  BY DEF Raster!SetState, Raster!DepthFunc
<1>2. state' \in [alphaTest : BOOLEAN, depthTest : BOOLEAN, depthFunc : {"LESS", "ALWAYS"},
                  depthMask : BOOLEAN]
  <2>1. CASE Raster!SetState
    <3>1. PICK on \in BOOLEAN, f \in {"alphaTest", "depthTest", "depthMask"} :
            state' = [state EXCEPT ![f] = on]
      BY <2>1 DEF Raster!SetState
    <3>2. CASE f = "alphaTest"
      BY <3>1, <3>2 DEF Raster!SoftInv, Raster!SoftTyped
    <3>3. CASE f = "depthTest"
      BY <3>1, <3>3 DEF Raster!SoftInv, Raster!SoftTyped
    <3>4. CASE f = "depthMask"
      BY <3>1, <3>4 DEF Raster!SoftInv, Raster!SoftTyped
    <3> QED
      BY <3>1, <3>2, <3>3, <3>4
  <2>2. CASE Raster!DepthFunc
    BY <2>2 DEF Raster!DepthFunc, Raster!SoftInv, Raster!SoftTyped
  <2> QED
    BY <2>1, <2>2
<1> QED
  BY <1>1, <1>2 DEF Raster!SoftInv, Raster!SoftTyped, Raster!PixelIsFirst

LEMMA ClearKeeps ==
    ASSUME Raster!SoftBounds, Raster!SoftInv, Raster!Clear
    PROVE  Raster!SoftInv'
<1>1. PICK mask \in SUBSET {"color", "depth"} :
        /\ pixel' = [color |-> IF "color" \in mask THEN 0 ELSE pixel.color,
                     depth |-> IF "depth" \in mask THEN Far ELSE pixel.depth]
        /\ seen' = IF "depth" \in mask THEN <<>> ELSE seen
        /\ plain' = \/ "depth" \in mask
                    \/ plain /\ ("color" \in mask => seen = <<>>)
        /\ state' = state
  BY ZenonT(20) DEF Raster!Clear
<1>2. Raster!SoftTyped /\ (plain => Raster!PixelIsFirst) /\ Far \in Nat
  BY DEF Raster!SoftInv, Raster!SoftBounds
<1>3. pixel' \in [color : Nat, depth : 0..Far]
  BY <1>1, <1>2 DEF Raster!SoftTyped
<1>4. CASE "depth" \in mask
  <2>1. pixel'.depth = Far /\ seen' = <<>>
    BY <1>1, <1>4
  <2>2. seen' \in Seq(Nat)
    BY <2>1
  <2>3. state' \in [alphaTest : BOOLEAN, depthTest : BOOLEAN, depthFunc : {"LESS", "ALWAYS"},
                    depthMask : BOOLEAN]
    BY <1>1, <1>2 DEF Raster!SoftTyped
  <2> QED
    BY <1>3, <2>1, <2>2, <2>3 DEF Raster!SoftInv, Raster!SoftTyped, Raster!PixelIsFirst
<1>5. CASE "depth" \notin mask
  <2>1. Raster!SoftTyped'
    BY <1>1, <1>2, <1>3, <1>5 DEF Raster!SoftTyped
  <2>2. pixel'.depth = pixel.depth /\ seen' = seen
    BY <1>1, <1>5
  <2>3. CASE seen = <<>>
    <3>1. plain' => Raster!PixelIsFirst
      BY <1>1, <1>2, <1>5
    <3> QED
      BY <2>1, <2>2, <2>3, <3>1 DEF Raster!SoftInv, Raster!PixelIsFirst
  <2>4. CASE seen # <<>>
    <3>1. plain' => plain /\ pixel'.color = pixel.color
      BY <1>1, <1>5, <2>4
    <3>2. plain' => Raster!PixelIsFirst'
      BY <1>2, <2>2, <3>1 DEF Raster!PixelIsFirst
    <3> QED
      BY <2>1, <3>2 DEF Raster!SoftInv
  <2> QED
    BY <2>3, <2>4
<1> QED
  BY <1>4, <1>5

\* what a fragment that passed the alpha test leaves on a plain pixel
LEMMA PlainFragment ==
    ASSUME Raster!SoftBounds, Raster!SoftInv, Raster!PixelIsFirst, NEW z \in 0..Far - 1,
           seen' = Append(seen, z),
           \/ /\ z < pixel.depth /\ pixel'.depth = z /\ pixel'.color = Len(seen) + 1
           \/ z >= pixel.depth /\ pixel' = pixel
    PROVE  Raster!PixelIsFirst'
<1> DEFINE n == Len(seen) + 1
<1>1. /\ seen \in Seq(Nat) /\ n \in Nat /\ pixel.depth \in 0..Far
      /\ DOMAIN seen = 1..n - 1
  BY DEF Raster!SoftInv, Raster!SoftTyped
<1>2. /\ DOMAIN seen' = 1..n /\ seen'[n] = z /\ seen' # <<>>
      /\ \A k \in 1..n - 1 : seen'[k] = seen[k] /\ seen[k] \in Int
  <2>1. Len(seen') = n /\ seen'[n] = z /\ seen' \in Seq(Nat)
    BY <1>1
  <2>2. \A k \in 1..n - 1 : seen'[k] = seen[k] /\ seen[k] \in Nat
    BY <1>1
  <2> HIDE DEF n
  <2>3. DOMAIN seen' = 1..n
    BY <2>1
  <2>4. seen' # <<>>
    BY <1>1, <2>1
  <2> QED
    BY <2>1, <2>2, <2>3, <2>4
<1>3. pixel.depth \in Int /\ z \in Int /\ Far \in Int
  BY <1>1 DEF Raster!SoftBounds
<1>4. \A k \in 1..n - 1 : pixel.depth <= seen[k]
  BY <1>1 DEF Raster!PixelIsFirst
<1> HIDE DEF n
<1>5. CASE z < pixel.depth /\ pixel'.depth = z /\ pixel'.color = n
  <2>1. \A k \in 1..n - 1 : z < seen'[k]
    BY <1>2, <1>3, <1>4, <1>5
  <2>2. \A k \in DOMAIN seen' : pixel'.depth <= seen'[k]
    <3> SUFFICES ASSUME NEW k \in 1..n
                 PROVE  z <= seen'[k]
      BY <1>2, <1>5
    <3>1. k = n \/ k \in 1..n - 1
      BY <1>1
    <3>2. k = n => z <= seen'[k]
      BY <1>2, <1>3
    <3>3. \A e \in Int : z < e => z <= e
      BY <1>3
    <3>4. k \in 1..n - 1 => seen'[k] \in Int /\ z < seen'[k]
      BY <1>2, <2>1
    <3> QED
      BY <3>1, <3>2, <3>3, <3>4
  <2>3. pixel'.color \in DOMAIN seen' /\ seen'[pixel'.color] = pixel'.depth
    BY <1>1, <1>2, <1>5 DEF n
  <2>4. \A k \in 1..pixel'.color - 1 : seen'[k] # pixel'.depth
    BY <1>2, <1>3, <1>5, <2>1
  <2> QED
    BY <1>2, <2>2, <2>3, <2>4 DEF Raster!PixelIsFirst
<1>6. CASE z >= pixel.depth /\ pixel' = pixel
  <2>1. seen # <<>>
    <3> SUFFICES ASSUME seen = <<>>
                 PROVE  FALSE
      OBVIOUS
    <3>1. pixel.depth = Far
      BY DEF Raster!PixelIsFirst
    <3> QED
      BY <1>3, <1>6, <3>1
  <2>2. /\ pixel.color \in 1..n - 1 /\ seen[pixel.color] = pixel.depth
        /\ \A k \in 1..pixel.color - 1 : seen[k] # pixel.depth
    BY <1>1, <2>1 DEF Raster!PixelIsFirst
  <2>3. \A k \in DOMAIN seen' : pixel.depth <= seen'[k]
    <3> SUFFICES ASSUME NEW k \in 1..n
                 PROVE  pixel.depth <= seen'[k]
      BY <1>2
    <3>1. k = n \/ k \in 1..n - 1
      BY <1>1
    <3> QED
      BY <1>2, <1>3, <1>4, <1>6, <3>1
  <2>4. pixel.color \in 1..n /\ seen'[pixel.color] = pixel.depth
    BY <1>1, <1>2, <2>2
  <2>5. \A k \in 1..pixel.color - 1 : seen'[k] # pixel.depth
    BY <1>1, <1>2, <2>2
  <2> QED
    BY <1>2, <1>6, <2>3, <2>4, <2>5 DEF Raster!PixelIsFirst
<1> QED
  BY <1>5, <1>6 DEF n

LEMMA FragmentKeeps ==
    ASSUME Raster!SoftBounds, Raster!SoftInv, Raster!Fragment
    PROVE  Raster!SoftInv'
<1>1. PICK z \in 0..Far - 1, opaque \in BOOLEAN :
        /\ pixel' = [color |-> IF Raster!Passes(z, opaque) THEN Len(seen) + 1 ELSE pixel.color,
                     depth |-> Raster!DepthLeft(z, opaque)]
        /\ seen' = (IF state.alphaTest /\ ~opaque THEN seen ELSE Append(seen, z))
        /\ plain' = (plain /\ state.depthTest /\ state.depthMask /\ state.depthFunc = "LESS")
        /\ state' = state
  BY DEF Raster!Fragment
<1>2. /\ seen \in Seq(Nat) /\ Len(seen) \in Nat
      /\ pixel \in [color : Nat, depth : 0..Far] /\ z \in 0..Far
      /\ state.alphaTest \in BOOLEAN
  BY DEF Raster!SoftInv, Raster!SoftTyped, Raster!SoftBounds
<1>3. Raster!SoftTyped'
  <2>1. Raster!DepthLeft(z, opaque) \in 0..Far
    BY <1>2 DEF Raster!DepthLeft
  <2>2. (IF Raster!Passes(z, opaque) THEN Len(seen) + 1 ELSE pixel.color) \in Nat
    BY <1>2
  <2>3. pixel' \in [color : Nat, depth : 0..Far]
    BY <1>1, <2>1, <2>2
  <2>4. seen' \in Seq(Nat)
    BY <1>1, <1>2
  <2> QED
    BY <1>1, <2>3, <2>4 DEF Raster!SoftInv, Raster!SoftTyped
<1>4. ASSUME plain'
      PROVE  Raster!PixelIsFirst'
  <2>1. plain /\ state.depthTest /\ state.depthMask /\ state.depthFunc = "LESS"
    BY <1>1, <1>4
  <2>2. Raster!PixelIsFirst
    BY <2>1 DEF Raster!SoftInv
  <2>3. Raster!Compare(state.depthFunc, z, pixel.depth) <=> z < pixel.depth
    BY <2>1 DEF Raster!Compare
  <2>4. Raster!Passes(z, opaque) <=> z < pixel.depth /\ (state.alphaTest => opaque)
    BY <2>1, <2>3 DEF Raster!Passes
  <2>5. CASE state.alphaTest /\ ~opaque
    <3>1. ~Raster!Passes(z, opaque)
      BY <2>4, <2>5
    <3>2. pixel'.color = pixel.color /\ pixel'.depth = pixel.depth /\ seen' = seen
      BY <1>1, <2>5, <3>1 DEF Raster!DepthLeft
    <3> QED
      BY <2>2, <3>2 DEF Raster!PixelIsFirst
  <2>6. CASE ~(state.alphaTest /\ ~opaque)
    <3>1. seen' = Append(seen, z)
      BY <1>1, <2>6
    <3>2. Raster!Passes(z, opaque) <=> z < pixel.depth
      BY <2>4, <2>6
    <3>3. CASE z < pixel.depth
      <4>1. pixel'.depth = z /\ pixel'.color = Len(seen) + 1
        BY <1>1, <2>1, <3>2, <3>3 DEF Raster!DepthLeft
      <4> QED
        BY <2>2, <3>1, <3>3, <4>1, PlainFragment
    <3>4. CASE ~(z < pixel.depth)
      <4>1. pixel' = [color |-> pixel.color, depth |-> pixel.depth]
        BY <1>1, <3>2, <3>4 DEF Raster!DepthLeft
      <4>2. z >= pixel.depth
        BY <1>2, <3>4
      <4>3. pixel' = pixel
        BY <1>2, <4>1
      <4> QED
        BY <2>2, <3>1, <4>2, <4>3, PlainFragment
    <3> QED
      BY <3>3, <3>4
  <2> QED
    BY <2>5, <2>6
<1> QED
  BY <1>3, <1>4 DEF Raster!SoftInv

LEMMA SoftInvStays ==
    ASSUME Raster!SoftBounds, Raster!SoftInv, [Raster!SoftNext]_Raster!softVars
    PROVE  Raster!SoftInv'
<1>1. CASE UNCHANGED <<pixel, state, seen, plain>>
  BY <1>1 DEF Raster!SoftInv, Raster!SoftTyped, Raster!PixelIsFirst
<1>2. Raster!MatrixMode \/ Raster!MatrixCall \/ UNCHANGED Raster!softVars => UNCHANGED <<pixel, state, seen, plain>>
  BY DEF Raster!MatrixMode, Raster!MatrixCall, Raster!softVars
<1> QED
  BY <1>1, <1>2, SoftStateKeeps, ClearKeeps, FragmentKeeps DEF Raster!SoftNext

LEMMA NearestShown ==
    ASSUME Raster!SoftBounds, Raster!SoftInv
    PROVE  Raster!NearestShows
<1> SUFFICES ASSUME plain, seen # <<>>
             PROVE  LET z == CHOOSE d \in Raster!Elems(seen) : \A e \in Raster!Elems(seen) : d <= e IN
                    /\ pixel.depth = z
                    /\ pixel.color = CHOOSE k \in DOMAIN seen :
                                         seen[k] = z /\ \A j \in 1..k - 1 : seen[j] # z
  BY DEF Raster!NearestShows
<1> DEFINE z == CHOOSE d \in Raster!Elems(seen) : \A e \in Raster!Elems(seen) : d <= e
<1>1. /\ pixel.color \in DOMAIN seen /\ seen[pixel.color] = pixel.depth
      /\ \A k \in DOMAIN seen : pixel.depth <= seen[k]
      /\ \A k \in 1..pixel.color - 1 : seen[k] # pixel.depth
  BY DEF Raster!SoftInv, Raster!PixelIsFirst
<1>2. /\ DOMAIN seen = 1..Len(seen) /\ Len(seen) \in Nat
      /\ \A k \in DOMAIN seen : seen[k] \in Int
  BY DEF Raster!SoftInv, Raster!SoftTyped
<1>3. pixel.depth \in Raster!Elems(seen) /\ \A e \in Raster!Elems(seen) : pixel.depth <= e /\ e \in Int
  BY <1>1, <1>2 DEF Raster!Elems
<1>4. z \in Raster!Elems(seen) /\ \A e \in Raster!Elems(seen) : z <= e
  BY <1>3
<1> HIDE DEF z
<1>5. pixel.depth = z
  <2>1. z \in Int /\ pixel.depth \in Int /\ z <= pixel.depth /\ pixel.depth <= z
    BY <1>3, <1>4
  <2> QED
    BY <2>1
<1> DEFINE First(k) == seen[k] = z /\ \A j \in 1..k - 1 : seen[j] # z
           first == CHOOSE k \in DOMAIN seen : First(k)
<1>6. First(pixel.color)
  BY <1>1, <1>5
<1>7. first \in DOMAIN seen /\ First(first)
  BY <1>1, <1>6
<1>8. \A j, k \in DOMAIN seen : First(j) /\ First(k) => j = k
  <2> SUFFICES ASSUME NEW j \in DOMAIN seen, NEW k \in DOMAIN seen, First(j), First(k)
               PROVE  j = k
    OBVIOUS
  <2>1. j \in Int /\ k \in Int /\ j >= 1 /\ k >= 1
    BY <1>2
  <2>2. ~(j < k)
    <3> SUFFICES ASSUME j < k
                 PROVE  FALSE
      OBVIOUS
    <3>1. j \in 1..k - 1
      BY <2>1
    <3> QED
      BY <3>1
  <2>3. ~(k < j)
    <3> SUFFICES ASSUME k < j
                 PROVE  FALSE
      OBVIOUS
    <3>1. k \in 1..j - 1
      BY <2>1
    <3> QED
      BY <3>1
  <2> QED
    BY <2>1, <2>2, <2>3
<1> HIDE DEF first, First
<1>9. pixel.color = first
  BY <1>1, <1>6, <1>7, <1>8
<1> QED
  BY <1>5, <1>9 DEF first, First, z

-----------------------------------------------------------------------------
\* the triangles of a strip turn alike
LEMMA StripTurns ==
    ASSUME NEW n \in Nat, NEW t \in DOMAIN Raster!Triangles("TRIANGLE_STRIP", n)
    PROVE  (IF t % 2 = 0 THEN <<t, t + 2, t + 1>> ELSE <<t, t + 1, t + 2>>)
             \in Raster!Turn(Raster!Triangles("TRIANGLE_STRIP", n)[t])
<1>1. CASE n > 2
  <2>1. Raster!Triangles("TRIANGLE_STRIP", n) =
          [s \in 1..n - 2 |-> IF s % 2 = 0 THEN <<s + 1, s, s + 2>> ELSE <<s, s + 1, s + 2>>]
    BY <1>1 DEF Raster!Triangles
  <2>2. Raster!Triangles("TRIANGLE_STRIP", n)[t] =
          IF t % 2 = 0 THEN <<t + 1, t, t + 2>> ELSE <<t, t + 1, t + 2>>
    BY <2>1
  <2> QED
    BY <2>2 DEF Raster!Turn
<1>2. CASE ~(n > 2)
  BY <1>2 DEF Raster!Triangles
<1> QED
  BY <1>1, <1>2

\* and a triangle is of vertices there are
LEMMA TrianglesInside ==
    ASSUME NEW n \in Nat, NEW m \in {"TRIANGLE_STRIP", "TRIANGLE_FAN", "TRIANGLES"},
           NEW t \in DOMAIN Raster!Triangles(m, n)
    PROVE  Raster!Elems(Raster!Triangles(m, n)[t]) \subseteq 1..n
<1>0. \A a, b, c \in 1..n : Raster!Elems(<<a, b, c>>) \subseteq 1..n
  BY DEF Raster!Elems
<1>1. CASE m = "TRIANGLES"
  <2>1. Raster!Triangles(m, n) = [s \in 1..n \div 3 |-> <<3 * s - 2, 3 * s - 1, 3 * s>>]
    BY <1>1 DEF Raster!Triangles
  <2>2. t \in 1..n \div 3 /\ Raster!Triangles(m, n)[t] = <<3 * t - 2, 3 * t - 1, 3 * t>>
    BY <2>1
  <2>3. n \div 3 \in Nat /\ 3 * (n \div 3) <= n
    OBVIOUS
  <2>4. 3 * t - 2 \in 1..n /\ 3 * t - 1 \in 1..n /\ 3 * t \in 1..n
    BY <2>2, <2>3
  <2> QED
    BY <1>0, <2>2, <2>4
<1>2. CASE m # "TRIANGLES" /\ ~(n > 2)
  BY <1>2 DEF Raster!Triangles
<1>3. CASE m = "TRIANGLE_STRIP" /\ n > 2
  <2>1. Raster!Triangles(m, n) =
          [s \in 1..n - 2 |-> IF s % 2 = 0 THEN <<s + 1, s, s + 2>> ELSE <<s, s + 1, s + 2>>]
    BY <1>3 DEF Raster!Triangles
  <2>2. t \in 1..n - 2 /\ Raster!Triangles(m, n)[t] =
          IF t % 2 = 0 THEN <<t + 1, t, t + 2>> ELSE <<t, t + 1, t + 2>>
    BY <2>1
  <2>3. t \in 1..n /\ t + 1 \in 1..n /\ t + 2 \in 1..n
    BY <2>2
  <2> QED
    BY <1>0, <2>2, <2>3
<1>4. CASE m = "TRIANGLE_FAN" /\ n > 2
  <2>1. Raster!Triangles(m, n) = [s \in 1..n - 2 |-> <<1, s + 1, s + 2>>]
    BY <1>4 DEF Raster!Triangles
  <2>2. t \in 1..n - 2 /\ Raster!Triangles(m, n)[t] = <<1, t + 1, t + 2>>
    BY <2>1
  <2>3. 1 \in 1..n /\ t + 1 \in 1..n /\ t + 2 \in 1..n
    BY <2>2
  <2> QED
    BY <1>0, <2>2, <2>3
<1> QED
  BY <1>1, <1>2, <1>3, <1>4

LEMMA TexelInside ==
    ASSUME NEW mode, NEW size \in Nat \ {0}, NEW index \in Int
    PROVE  Raster!Wrapped(mode, index, size) \in 0..size - 1
BY DEF Raster!Wrapped

\* a sequence is a rotation of itself by r
LEMMA Rotation3 ==
    ASSUME NEW a, NEW b, NEW c
    PROVE  /\ <<a, b, c>> \in Raster!Rotations(<<a, b, c>>)
           /\ <<b, c, a>> \in Raster!Rotations(<<a, b, c>>)
           /\ <<c, a, b>> \in Raster!Rotations(<<a, b, c>>)
<1> DEFINE s == <<a, b, c>>
           By(r) == [k \in DOMAIN s |-> s[((k + r - 1) % Len(s)) + 1]]
<1>1. \A r \in 0..2 : By(r) \in Raster!Rotations(s)
  BY DEF Raster!Rotations
<1>2. By(0) = <<a, b, c>> /\ By(1) = <<b, c, a>> /\ By(2) = <<c, a, b>>
  OBVIOUS
<1> QED
  BY <1>1, <1>2

LEMMA Rotation4 ==
    ASSUME NEW a, NEW b, NEW c, NEW d
    PROVE  /\ <<a, b, c, d>> \in Raster!Rotations(<<a, b, c, d>>)
           /\ <<b, c, d, a>> \in Raster!Rotations(<<a, b, c, d>>)
           /\ <<c, d, a, b>> \in Raster!Rotations(<<a, b, c, d>>)
           /\ <<d, a, b, c>> \in Raster!Rotations(<<a, b, c, d>>)
<1> DEFINE s == <<a, b, c, d>>
           By(r) == [k \in DOMAIN s |-> s[((k + r - 1) % Len(s)) + 1]]
<1>1. \A r \in 0..3 : By(r) \in Raster!Rotations(s)
  BY DEF Raster!Rotations
<1>2. By(0) = <<a, b, c, d>> /\ By(1) = <<b, c, d, a>>
  OBVIOUS
<1>3. By(2) = <<c, d, a, b>> /\ By(3) = <<d, a, b, c>>
  OBVIOUS
<1> QED
  BY <1>1, <1>2, <1>3

LEMMA Joined ==
    ASSUME NEW a, NEW b, NEW c
    PROVE  /\ <<a>> \o <<b>> = <<a, b>>
           /\ <<a, b>> \o <<c>> = <<a, b, c>>
           /\ <<a, b>> \o <<>> = <<a, b>>
<1>1. <<a>> \o <<b>> = <<a, b>>
  <2> DEFINE s == <<a>> \o <<b>>
  <2>1. Len(s) = 2 /\ s[1] = a /\ s[2] = b
    OBVIOUS
  <2>2. s \in Seq({a, b})
    OBVIOUS
  <2> HIDE DEF s
  <2>3. s = <<a, b>>
    BY <2>1, <2>2
  <2> QED
    BY <2>3 DEF s
<1>2. <<a, b>> \o <<c>> = <<a, b, c>>
  <2> DEFINE s == <<a, b>> \o <<c>>
  <2>1. Len(s) = 3 /\ s[1] = a /\ s[2] = b /\ s[3] = c
    OBVIOUS
  <2>2. s \in Seq({a, b, c})
    OBVIOUS
  <2> HIDE DEF s
  <2>3. s = <<a, b, c>>
    BY <2>1, <2>2
  <2> QED
    BY <2>3 DEF s
<1>3. <<a, b>> \o <<>> = <<a, b>>
  OBVIOUS
<1> QED
  BY <1>1, <1>2, <1>3

LEMMA CornersFound ==
    ASSUME NEW inside, NEW k, NEW l
    PROVE  /\ k \in inside /\ l \in inside => Raster!Corners(inside, k, l) = <<<<k>>>>
           /\ k \in inside /\ l \notin inside => Raster!Corners(inside, k, l) = <<<<k>>, <<k, l>>>>
           /\ k \notin inside /\ l \in inside => Raster!Corners(inside, k, l) = <<<<l, k>>>>
           /\ k \notin inside /\ l \notin inside => Raster!Corners(inside, k, l) = <<>>
<1> DEFINE C == Raster!Corners(inside, k, l)
<1>1. CASE k \in inside /\ l \in inside
  <2>1. (IF k \in inside /\ l \notin inside THEN <<<<k, l>>>> ELSE <<>>) = <<>>
        /\ (IF k \notin inside /\ l \in inside THEN <<<<l, k>>>> ELSE <<>>) = <<>>
        /\ (IF k \in inside THEN <<<<k>>>> ELSE <<>>) = <<<<k>>>>
    BY <1>1, Zenon
  <2>2. C = <<<<k>>>> \o <<>> \o <<>>
    BY <2>1, Zenon DEF Raster!Corners
  <2>3. <<<<k>>>> \o <<>> \o <<>> = <<<<k>>>>
    OBVIOUS
  <2> QED
    BY <1>1, <2>2, <2>3, Zenon
<1>2. CASE k \in inside /\ l \notin inside
  <2> DEFINE both == <<<<k>>, <<k, l>>>>
  <2>1. C = <<<<k>>>> \o <<<<k, l>>>> \o <<>>
    BY <1>2, Zenon DEF Raster!Corners
  <2>3. <<<<k>>>> \o <<<<k, l>>>> \o <<>> = both
    BY Joined, Zenon
  <2>2. C = both
    <3> HIDE DEF C, both
    <3> QED
      BY <2>1, <2>3
  <2> QED
    BY <1>2, <2>2, Zenon
<1>3. CASE k \notin inside /\ l \in inside
  <2>1. C = <<>> \o <<>> \o <<<<l, k>>>>
    BY <1>3, Zenon DEF Raster!Corners
  <2>2. <<>> \o <<>> \o <<<<l, k>>>> = <<<<l, k>>>>
    OBVIOUS
  <2> QED
    BY <1>3, <2>1, <2>2, Zenon
<1>4. CASE k \notin inside /\ l \notin inside
  <2>1. C = <<>> \o <<>> \o <<>>
    BY <1>4, Zenon DEF Raster!Corners
  <2>2. <<>> \o <<>> \o <<>> = <<>>
    OBVIOUS
  <2> QED
    BY <1>4, <2>1, <2>2, Zenon
<1> QED
  BY <1>1, <1>2, <1>3, <1>4

LEMMA OneInside ==
    ASSUME NEW i \in 1..3
    PROVE  Raster!DrawnAlike({i})
<1>1. {i} # {} /\ {i} # 1..3 /\ (CHOOSE k \in 1..3 : k \in {i}) = i
  OBVIOUS
<1>2. Raster!Clipped({i}) = <<<<<<i>>, <<i, (i % 3) + 1>>, <<i, (((i % 3) + 1) % 3) + 1>>>>>>
  BY <1>1 DEF Raster!Clipped
<1>4. \A a, b, c : LET s == <<a, b, c>> IN
        <<s>> = [t \in 1..Len(s) - 2 |-> <<s[1], s[t + 1], s[t + 2]>>]
  OBVIOUS
<1>5. CASE i = 1
  <2> DEFINE s == <<<<1>>, <<1, 2>>, <<1, 3>>>>
  <2>1. Raster!Outline({1}) = <<<<1>>, <<1, 2>>>> \o <<>> \o <<<<1, 3>>>>
    <3>1. 1 \in {1} /\ 2 \notin {1} /\ 3 \notin {1}
      OBVIOUS
    <3>2. Raster!Corners({1}, 1, 2) = <<<<1>>, <<1, 2>>>>
      BY <3>1, CornersFound
    <3>3. Raster!Corners({1}, 2, 3) = <<>>
      BY <3>1, CornersFound
    <3>4. Raster!Corners({1}, 3, 1) = <<<<1, 3>>>>
      BY <3>1, CornersFound
    <3> QED
      BY <3>2, <3>3, <3>4 DEF Raster!Outline
  <2>2. Raster!Outline({1}) = <<<<1>>, <<1, 2>>, <<1, 3>>>>
    BY <2>1
  <2>3. Raster!Clipped({1}) = <<<<<<1>>, <<1, 2>>, <<1, 3>>>>>>
    BY <1>2, <1>5
  <2> QED
    <3>1. s \in Raster!Rotations(Raster!Outline({1}))
      BY <2>2, Rotation3
    <3>2. Raster!Clipped({1}) = [t \in 1..Len(s) - 2 |-> <<s[1], s[t + 1], s[t + 2]>>]
      BY <1>4, <2>3
    <3>3. Raster!Outline({1}) # <<>>
      BY <2>2
    <3> QED
      BY <1>5, <3>1, <3>2, <3>3, Zenon DEF Raster!DrawnAlike
<1>6. CASE i = 2
  <2> DEFINE s == <<<<2>>, <<2, 3>>, <<2, 1>>>>
  <2>1. Raster!Outline({2}) = <<<<2, 1>>>> \o <<<<2>>, <<2, 3>>>> \o <<>>
    <3>1. 2 \in {2} /\ 1 \notin {2} /\ 3 \notin {2}
      OBVIOUS
    <3>2. Raster!Corners({2}, 1, 2) = <<<<2, 1>>>>
      BY <3>1, CornersFound
    <3>3. Raster!Corners({2}, 2, 3) = <<<<2>>, <<2, 3>>>>
      BY <3>1, CornersFound
    <3>4. Raster!Corners({2}, 3, 1) = <<>>
      BY <3>1, CornersFound
    <3> QED
      BY <3>2, <3>3, <3>4 DEF Raster!Outline
  <2>2. Raster!Outline({2}) = <<<<2, 1>>, <<2>>, <<2, 3>>>>
    BY <2>1
  <2>3. Raster!Clipped({2}) = <<<<<<2>>, <<2, 3>>, <<2, 1>>>>>>
    BY <1>2, <1>6
  <2> QED
    <3>1. s \in Raster!Rotations(Raster!Outline({2}))
      BY <2>2, Rotation3
    <3>2. Raster!Clipped({2}) = [t \in 1..Len(s) - 2 |-> <<s[1], s[t + 1], s[t + 2]>>]
      BY <1>4, <2>3
    <3>3. Raster!Outline({2}) # <<>>
      BY <2>2
    <3> QED
      BY <1>6, <3>1, <3>2, <3>3, Zenon DEF Raster!DrawnAlike
<1>7. CASE i = 3
  <2> DEFINE s == <<<<3>>, <<3, 1>>, <<3, 2>>>>
  <2>1. Raster!Outline({3}) = <<>> \o <<<<3, 2>>>> \o <<<<3>>, <<3, 1>>>>
    <3>1. 3 \in {3} /\ 1 \notin {3} /\ 2 \notin {3}
      OBVIOUS
    <3>2. Raster!Corners({3}, 1, 2) = <<>>
      BY <3>1, CornersFound
    <3>3. Raster!Corners({3}, 2, 3) = <<<<3, 2>>>>
      BY <3>1, CornersFound
    <3>4. Raster!Corners({3}, 3, 1) = <<<<3>>, <<3, 1>>>>
      BY <3>1, CornersFound
    <3> QED
      BY <3>2, <3>3, <3>4 DEF Raster!Outline
  <2>2. Raster!Outline({3}) = <<<<3, 2>>, <<3>>, <<3, 1>>>>
    BY <2>1
  <2>3. Raster!Clipped({3}) = <<<<<<3>>, <<3, 1>>, <<3, 2>>>>>>
    BY <1>2, <1>7
  <2> QED
    <3>1. s \in Raster!Rotations(Raster!Outline({3}))
      BY <2>2, Rotation3
    <3>2. Raster!Clipped({3}) = [t \in 1..Len(s) - 2 |-> <<s[1], s[t + 1], s[t + 2]>>]
      BY <1>4, <2>3
    <3>3. Raster!Outline({3}) # <<>>
      BY <2>2
    <3> QED
      BY <1>7, <3>1, <3>2, <3>3, Zenon DEF Raster!DrawnAlike
<1> QED
  BY <1>5, <1>6, <1>7

LEMMA TwoInside ==
    ASSUME NEW out \in 1..3
    PROVE  Raster!DrawnAlike(1..3 \ {out})
<1> DEFINE inside == 1..3 \ {out}
           a == (out % 3) + 1
           b == (a % 3) + 1
           Pair(p, q, r, s) == <<<<p, q, r>>, <<p, r, s>>>>
<1>1. inside # {} /\ inside # 1..3 /\ \A i : inside # {i}
  <2>1. a \in inside /\ b \in inside /\ a # b
    OBVIOUS
  <2> HIDE DEF a, b
  <2> QED
    BY <2>1
<1>2. (CHOOSE k \in 1..3 : k \notin inside) = out
  OBVIOUS
<1>3. Raster!Clipped(inside) = Pair(<<a>>, <<b>>, <<b, out>>, <<a, out>>)
  BY <1>1, <1>2 DEF Raster!Clipped
<1>4. \A p, q, r, s : LET c == <<p, q, r, s>> IN
        Pair(p, q, r, s) = [t \in 1..Len(c) - 2 |-> <<c[1], c[t + 1], c[t + 2]>>]
  OBVIOUS
<1>5. CASE out = 1
  <2> DEFINE s == <<<<2>>, <<3>>, <<3, 1>>, <<2, 1>>>>
  <2>1. 1 \notin inside /\ 2 \in inside /\ 3 \in inside
    BY <1>5
  <2>2. Raster!Corners(inside, 1, 2) = <<<<2, 1>>>>
    BY <2>1, CornersFound
  <2>3. Raster!Corners(inside, 2, 3) = <<<<2>>>>
    BY <2>1, CornersFound
  <2>4. Raster!Corners(inside, 3, 1) = <<<<3>>, <<3, 1>>>>
    BY <2>1, CornersFound
  <2>5. Raster!Outline(inside) = <<<<2, 1>>>> \o <<<<2>>>> \o <<<<3>>, <<3, 1>>>>
    BY <2>2, <2>3, <2>4 DEF Raster!Outline
  <2>6. Raster!Outline(inside) = <<<<2, 1>>, <<2>>, <<3>>, <<3, 1>>>>
    BY <2>5
  <2>7. s \in Raster!Rotations(Raster!Outline(inside))
    BY <2>6, Rotation4, Zenon
  <2>11. Raster!Outline(inside) # <<>>
    BY <2>6
  <2>8. a = 2 /\ b = 3
    BY <1>5
  <2>9. Raster!Clipped(inside) = Pair(<<2>>, <<3>>, <<3, 1>>, <<2, 1>>)
    BY <1>3, <1>5, <2>8
  <2>10. Raster!Clipped(inside) = [t \in 1..Len(s) - 2 |-> <<s[1], s[t + 1], s[t + 2]>>]
    BY <1>4, <2>9
  <2> QED
    BY <2>7, <2>10, <2>11, Zenon DEF Raster!DrawnAlike
<1>6. CASE out = 2
  <2> DEFINE s == <<<<3>>, <<1>>, <<1, 2>>, <<3, 2>>>>
  <2>1. 2 \notin inside /\ 3 \in inside /\ 1 \in inside
    BY <1>6
  <2>2. Raster!Corners(inside, 1, 2) = <<<<1>>, <<1, 2>>>>
    BY <2>1, CornersFound
  <2>3. Raster!Corners(inside, 2, 3) = <<<<3, 2>>>>
    BY <2>1, CornersFound
  <2>4. Raster!Corners(inside, 3, 1) = <<<<3>>>>
    BY <2>1, CornersFound
  <2>5. Raster!Outline(inside) = <<<<1>>, <<1, 2>>>> \o <<<<3, 2>>>> \o <<<<3>>>>
    BY <2>2, <2>3, <2>4 DEF Raster!Outline
  <2>6. Raster!Outline(inside) = <<<<1>>, <<1, 2>>, <<3, 2>>, <<3>>>>
    BY <2>5
  <2>7. s \in Raster!Rotations(Raster!Outline(inside))
    BY <2>6, Rotation4, Zenon
  <2>11. Raster!Outline(inside) # <<>>
    BY <2>6
  <2>8. a = 3 /\ b = 1
    BY <1>6
  <2>9. Raster!Clipped(inside) = Pair(<<3>>, <<1>>, <<1, 2>>, <<3, 2>>)
    BY <1>3, <1>6, <2>8
  <2>10. Raster!Clipped(inside) = [t \in 1..Len(s) - 2 |-> <<s[1], s[t + 1], s[t + 2]>>]
    BY <1>4, <2>9
  <2> QED
    BY <2>7, <2>10, <2>11, Zenon DEF Raster!DrawnAlike
<1>7. CASE out = 3
  <2> DEFINE s == <<<<1>>, <<2>>, <<2, 3>>, <<1, 3>>>>
  <2>1. 3 \notin inside /\ 1 \in inside /\ 2 \in inside
    BY <1>7
  <2>2. Raster!Corners(inside, 1, 2) = <<<<1>>>>
    BY <2>1, CornersFound
  <2>3. Raster!Corners(inside, 2, 3) = <<<<2>>, <<2, 3>>>>
    BY <2>1, CornersFound
  <2>4. Raster!Corners(inside, 3, 1) = <<<<1, 3>>>>
    BY <2>1, CornersFound
  <2>5. Raster!Outline(inside) = <<<<1>>>> \o <<<<2>>, <<2, 3>>>> \o <<<<1, 3>>>>
    BY <2>2, <2>3, <2>4 DEF Raster!Outline
  <2>6. Raster!Outline(inside) = <<<<1>>, <<2>>, <<2, 3>>, <<1, 3>>>>
    BY <2>5
  <2>7. s \in Raster!Rotations(Raster!Outline(inside))
    BY <2>6, Rotation4, Zenon
  <2>11. Raster!Outline(inside) # <<>>
    BY <2>6
  <2>8. a = 1 /\ b = 2
    BY <1>7
  <2>9. Raster!Clipped(inside) = Pair(<<1>>, <<2>>, <<2, 3>>, <<1, 3>>)
    BY <1>3, <1>7, <2>8
  <2>10. Raster!Clipped(inside) = [t \in 1..Len(s) - 2 |-> <<s[1], s[t + 1], s[t + 2]>>]
    BY <1>4, <2>9
  <2> QED
    BY <2>7, <2>10, <2>11, Zenon DEF Raster!DrawnAlike
<1> QED
  BY <1>5, <1>6, <1>7

LEMMA ClippingKeeps ==
    ASSUME NEW inside \in SUBSET (1..3)
    PROVE  Raster!DrawnAlike(inside)
<1>1. CASE inside = {}
  <2>1. 1 \notin inside /\ 2 \notin inside /\ 3 \notin inside
    BY <1>1
  <2>2. Raster!Outline(inside) = <<>> \o <<>> \o <<>>
    <3>1. Raster!Corners(inside, 1, 2) = <<>>
      BY <2>1, CornersFound
    <3>2. Raster!Corners(inside, 2, 3) = <<>>
      BY <2>1, CornersFound
    <3>3. Raster!Corners(inside, 3, 1) = <<>>
      BY <2>1, CornersFound
    <3> QED
      BY <3>1, <3>2, <3>3 DEF Raster!Outline
  <2>3. Raster!Outline(inside) = <<>> /\ Raster!Clipped(inside) = <<>>
    BY <1>1, <2>2 DEF Raster!Clipped
  <2> QED
    BY <2>3 DEF Raster!DrawnAlike
<1>2. CASE inside = 1..3
  <2> DEFINE s == <<<<1>>, <<2>>, <<3>>>>
  <2>1. 1 \in inside /\ 2 \in inside /\ 3 \in inside
    BY <1>2
  <2>2. Raster!Outline(inside) = <<<<1>>>> \o <<<<2>>>> \o <<<<3>>>>
    <3>1. Raster!Corners(inside, 1, 2) = <<<<1>>>>
      BY <2>1, CornersFound
    <3>2. Raster!Corners(inside, 2, 3) = <<<<2>>>>
      BY <2>1, CornersFound
    <3>3. Raster!Corners(inside, 3, 1) = <<<<3>>>>
      BY <2>1, CornersFound
    <3> QED
      BY <3>1, <3>2, <3>3 DEF Raster!Outline
  <2>3. Raster!Outline(inside) = s
    <3>1. <<<<1>>>> \o <<<<2>>>> \o <<<<3>>>> = s
      BY Joined, Zenon
    <3> HIDE DEF s
    <3> QED
      BY <2>2, <3>1
  <2>4. Raster!Clipped(inside) = <<s>>
    <3>1. inside # {} /\ \A i : inside # {i}
      BY <2>1
    <3> QED
      BY <1>2, <3>1, Zenon DEF Raster!Clipped
  <2>5. <<s>> = [t \in 1..Len(s) - 2 |-> <<s[1], s[t + 1], s[t + 2]>>]
    OBVIOUS
  <2>6. s \in Raster!Rotations(Raster!Outline(inside))
    BY <2>3, Rotation3, Zenon
  <2>7. Raster!Outline(inside) # <<>>
    BY <2>3
  <2> QED
    BY <2>4, <2>5, <2>6, <2>7, Zenon DEF Raster!DrawnAlike
<1>3. CASE inside # {} /\ inside # 1..3
  <2>1. (\E i \in 1..3 : inside = {i}) \/ (\E out \in 1..3 : inside = 1..3 \ {out})
    <3>1. \A k : k \in 1..3 <=> k = 1 \/ k = 2 \/ k = 3
      OBVIOUS
    <3>2. \A k \in inside : k = 1 \/ k = 2 \/ k = 3
      BY <3>1
    <3>3. CASE 1 \in inside /\ 2 \in inside
      <4>1. 3 \notin inside
        BY <1>3, <3>1, <3>2, <3>3
      <4>2. inside = 1..3 \ {3}
        BY <3>1, <3>2, <3>3, <4>1
      <4> QED
        BY <4>2
    <3>4. CASE 1 \in inside /\ 2 \notin inside
      <4>1. inside = {1} \/ inside = 1..3 \ {2}
        BY <3>1, <3>2, <3>4
      <4> QED
        BY <4>1
    <3>5. CASE 1 \notin inside /\ 2 \in inside
      <4>1. inside = {2} \/ inside = 1..3 \ {1}
        BY <3>1, <3>2, <3>5
      <4> QED
        BY <4>1
    <3>6. CASE 1 \notin inside /\ 2 \notin inside
      <4>1. inside = {3}
        BY <1>3, <3>1, <3>2, <3>6
      <4> QED
        BY <4>1
    <3> QED
      BY <3>3, <3>4, <3>5, <3>6
  <2> QED
    BY <2>1, OneInside, TwoInside
<1> QED
  BY <1>1, <1>2, <1>3

LEMMA TrianglesAlike ==
    ASSUME Raster!SoftBounds
    PROVE  Raster!TrianglesTurnAlike
<1>1. \A n \in 0..MaxVertices :
        \A t \in DOMAIN Raster!Triangles("TRIANGLE_STRIP", n) :
          (IF t % 2 = 0 THEN <<t, t + 2, t + 1>> ELSE <<t, t + 1, t + 2>>)
             \in Raster!Turn(Raster!Triangles("TRIANGLE_STRIP", n)[t])
  <2>1. \A n \in 0..MaxVertices : n \in Nat
    BY DEF Raster!SoftBounds
  <2> QED
    BY <2>1, StripTurns, Zenon
<1>2. \A n \in 0..MaxVertices, m \in {"TRIANGLE_STRIP", "TRIANGLE_FAN", "TRIANGLES"} :
        UNION {Raster!Elems(Raster!Triangles(m, n)[t]) : t \in DOMAIN Raster!Triangles(m, n)} \subseteq 1..n
  <2> SUFFICES ASSUME NEW n \in 0..MaxVertices,
                      NEW m \in {"TRIANGLE_STRIP", "TRIANGLE_FAN", "TRIANGLES"}
               PROVE  \A t \in DOMAIN Raster!Triangles(m, n) :
                        Raster!Elems(Raster!Triangles(m, n)[t]) \subseteq 1..n
    OBVIOUS
  <2>1. n \in Nat
    BY DEF Raster!SoftBounds
  <2> QED
    BY <2>1, TrianglesInside
<1>3. \A inside \in SUBSET (1..3) : Raster!DrawnAlike(inside)
  BY ClippingKeeps
<1>4. \A mode \in {"clamp", "repeat"}, size \in 1..3, index \in -4..6 :
        Raster!Wrapped(mode, index, size) \in 0..size - 1
  <2> SUFFICES ASSUME NEW mode \in {"clamp", "repeat"}, NEW size \in 1..3, NEW index \in -4..6
               PROVE  Raster!Wrapped(mode, index, size) \in 0..size - 1
    OBVIOUS
  <2>1. size \in Nat \ {0} /\ index \in Int
    OBVIOUS
  <2> QED
    BY <2>1, TexelInside
<1> QED
  BY <1>1, <1>2, <1>3, <1>4, Zenon DEF Raster!TrianglesTurnAlike, Raster!DrawnAlike

-----------------------------------------------------------------------------
(* The timers of the shell (ShellTimers). *)
Timers == INSTANCE ShellTimers WITH
    timers <- v1, aee <- v2

timers == v1
aee == v2
USE DEF timers, aee

(* The calls of the title, and the tick of the loop. *)
TimersNext ==
  \/ \E d \in Timers!Delays, cb \in Callbacks, u \in Users : Timers!SetTimer(d, cb, u)
  \/ \E s \in Structs :
       \/ \E d \in Timers!Delays : Timers!SetTimer(d, s, s)
       \/ Timers!CancelTimer(s, s) \/ Timers!ResumeCallback(s)
       \/ \E cb \in Callbacks \cup {NullPtr}, u \in Users : Timers!WriteStruct(s, <<cb, u>>)
  \/ \E cb \in Callbacks \cup {NullPtr}, u \in Users : Timers!CancelTimer(cb, u)
  \/ Timers!TickTimers

(* What the proofs ask of the constants; ShellTimers assumes more. *)
TimersBounds ==
  MaxDelay \in Nat /\ NullPtr \notin Structs /\ Callbacks \cap Users = {}

(* What is pending, whatever is left of it, and the structures of the title. *)
PendingTimer == [id : Timers!TimerIds, left : Int]

TimersInv ==
  /\ timers \in Seq(PendingTimer)
  /\ aee \in [Structs -> (Callbacks \cup {NullPtr}) \X Users]
  /\ UniqueIds(timers)

(* Timers!Kept is the Kept the lemmas of Vectors_proofs are about. *)
LEMMA KeptHere == \A s, I : Timers!Kept(s, I) = Kept(s, I)
  BY DEF Kept, Lists, Timers!Kept, Timers!Lists

LEMMA TimersInvInitially == Timers!TimersInit => TimersInv
  BY DEF Timers!TimersInit, TimersInv, UniqueIds

(* What the two pointers of a call name is a pair a timer can have. *)
LEMMA IdentityType ==
    ASSUME TimersBounds, TimersInv, NEW cb, NEW user,
           \/ cb \in Callbacks \cup {NullPtr} /\ user \in Users
           \/ cb \in Structs /\ user = cb
    PROVE  Timers!Identity(cb, user) \in Timers!TimerIds
<1>1. CASE cb \in Callbacks \cup {NullPtr} /\ user \in Users
  BY <1>1 DEF Timers!Identity, Timers!TimerIds, TimersBounds
<1>2. CASE cb \in Structs /\ user = cb
  <2>1. aee[cb] \in (Callbacks \cup {NullPtr}) \X Users
    BY <1>2 DEF TimersInv
  <2> QED
    BY <1>2, <2>1 DEF Timers!Identity, Timers!TimerIds, TimersBounds
<1> QED
  BY <1>1, <1>2

LEMMA ScheduleStays ==
    ASSUME TimersBounds, TimersInv, NEW ms \in Timers!Delays, NEW id \in Timers!TimerIds,
           Timers!ScheduleTimer(ms, id)
    PROVE  timers' \in Seq(PendingTimer) /\ UniqueIds(timers')
<1> DEFINE e == [id |-> id, left |-> ms]
<1>1. e \in PendingTimer
  BY DEF PendingTimer, Timers!Delays, TimersBounds
<1>2. e.id = id
  OBVIOUS
<1>3. timers \in Seq(PendingTimer) /\ UniqueIds(timers)
  BY DEF TimersInv
<1> HIDE DEF e
<1>4. CASE \E i \in DOMAIN timers :
              /\ timers[i].id = id
              /\ \A j \in DOMAIN timers : j < i => timers[j].id # id
              /\ timers' = [timers EXCEPT ![i] = e]
  <2>1. PICK i \in DOMAIN timers : timers[i].id = id /\ timers' = [timers EXCEPT ![i] = e]
    BY <1>4
  <2> QED
    BY <2>1, <1>1, <1>2, <1>3, ReplaceById
<1>5. CASE /\ \A i \in DOMAIN timers : timers[i].id # id
           /\ timers' = Append(timers, e)
  BY <1>5, <1>1, <1>2, <1>3, AppendById
<1> QED
  BY <1>4, <1>5 DEF Timers!ScheduleTimer, e

LEMMA CancelStays ==
    ASSUME TimersInv, NEW cb, NEW user, Timers!CancelTimer(cb, user)
    PROVE  timers' \in Seq(PendingTimer) /\ UniqueIds(timers')
<1>1. timers \in Seq(PendingTimer) /\ UniqueIds(timers)
  BY DEF TimersInv
<1>2. PICK I \in SUBSET DOMAIN timers : timers' \in Kept(timers, I)
  BY KeptHere DEF Timers!CancelTimer
<1> QED
  BY <1>1, <1>2, KeptType, KeptUniqueIds

LEMMA TickStays ==
    ASSUME TimersInv, Timers!TickTimers
    PROVE  timers' \in Seq(PendingTimer) /\ UniqueIds(timers')
<1> DEFINE aged == [i \in DOMAIN timers |->
                       [id |-> timers[i].id, left |-> timers[i].left - 1]]
<1>1. timers \in Seq(PendingTimer) /\ UniqueIds(timers)
  BY DEF TimersInv
<1>2. ASSUME NEW i \in DOMAIN timers
      PROVE  aged[i] \in PendingTimer /\ aged[i].id = timers[i].id
  <2>1. timers[i] \in PendingTimer
    BY <1>1
  <2>2. timers[i].id \in Timers!TimerIds /\ timers[i].left - 1 \in Int
    BY <2>1 DEF PendingTimer
  <2> QED
    BY <2>2 DEF PendingTimer
<1>3. aged \in Seq(PendingTimer) /\ DOMAIN aged = DOMAIN timers
  <2>1. aged \in [1..Len(timers) -> PendingTimer] /\ Len(timers) \in Nat
    BY <1>1, <1>2
  <2>2. \A n \in Nat : \A s \in [1..n -> PendingTimer] : s \in Seq(PendingTimer)
    OBVIOUS
  <2> QED
    BY <1>1, <2>1, <2>2
<1>4. timers' \in Kept(aged, DOMAIN timers \ Timers!Expiring)
  BY KeptHere DEF Timers!TickTimers
<1> HIDE DEF aged
<1>5. UniqueIds(aged)
  BY <1>1, <1>2, <1>3 DEF UniqueIds
<1> QED
  BY <1>3, <1>4, <1>5, KeptType, KeptUniqueIds

LEMMA TimersInvStays ==
    ASSUME TimersBounds, TimersInv,
           TimersNext \/ UNCHANGED <<timers, aee>>
    PROVE  TimersInv'
<1> DEFINE Kind == aee \in [Structs -> (Callbacks \cup {NullPtr}) \X Users]
<1>1. Kind
  BY DEF TimersInv
<1>2. ASSUME UNCHANGED aee,
             timers' \in Seq(PendingTimer) /\ UniqueIds(timers')
      PROVE  TimersInv'
  BY <1>1, <1>2 DEF TimersInv, PendingTimer, Timers!TimerIds
<1>3. ASSUME NEW d \in Timers!Delays, NEW cb, NEW u, Timers!SetTimer(d, cb, u),
             \/ cb \in Callbacks \cup {NullPtr} /\ u \in Users
             \/ cb \in Structs /\ u = cb
      PROVE  TimersInv'
  <2>1. Timers!Identity(cb, u) \in Timers!TimerIds
    BY <1>3, IdentityType
  <2> QED
    BY <2>1, <1>3, <1>2, ScheduleStays DEF Timers!SetTimer
<1>4. ASSUME NEW cb, NEW u, Timers!CancelTimer(cb, u)
      PROVE  TimersInv'
  BY <1>4, <1>2, CancelStays DEF Timers!CancelTimer
<1>5. ASSUME NEW s \in Structs, Timers!ResumeCallback(s)
      PROVE  TimersInv'
  <2> DEFINE id == IF aee[s][1] # NullPtr THEN aee[s] ELSE <<s, NullPtr>>
  <2>1. aee[s] \in (Callbacks \cup {NullPtr}) \X Users
    BY <1>1, <1>5
  <2>2. id \in Timers!TimerIds
    BY <2>1, <1>5 DEF Timers!TimerIds
  <2>3. 0 \in Timers!Delays /\ Timers!ScheduleTimer(0, id) /\ UNCHANGED aee
    BY <1>5 DEF Timers!ResumeCallback, Timers!Delays, TimersBounds
  <2> HIDE DEF id
  <2> QED
    BY <2>2, <2>3, <1>2, ScheduleStays
<1>6. ASSUME NEW s \in Structs, NEW cb \in Callbacks \cup {NullPtr}, NEW u \in Users,
             Timers!WriteStruct(s, <<cb, u>>)
      PROVE  TimersInv'
  <2>1. aee' = [aee EXCEPT ![s] = <<cb, u>>] /\ UNCHANGED timers
    BY <1>6 DEF Timers!WriteStruct
  <2>2. aee' \in [Structs -> (Callbacks \cup {NullPtr}) \X Users]
    BY <2>1, <1>1
  <2> QED
    BY <2>1, <2>2 DEF TimersInv, PendingTimer, Timers!TimerIds, UniqueIds
<1>7. CASE Timers!TickTimers
  BY <1>7, <1>2, TickStays DEF Timers!TickTimers
<1>8. CASE UNCHANGED <<timers, aee>>
  BY <1>8 DEF TimersInv, PendingTimer, Timers!TimerIds, UniqueIds
<1> QED
  BY <1>3, <1>4, <1>5, <1>6, <1>7, <1>8 DEF TimersNext

LEMMA TimersInvShows == TimersInv => Timers!TimersUnique
  BY DEF TimersInv, UniqueIds, Timers!TimersUnique

-----------------------------------------------------------------------------
(* The shell (ShellServices). *)
Shell == INSTANCE ShellServices WITH
    MaxSize <- MaxResource, MaxDepth <- MaxSends, MaxCalls <- MaxShellCalls,
    applet <- v1, delivering <- v2, sends <- v3, threw <- v4, refused <- v5,
    files <- v6, cache <- v7, heap <- v8, answer <- v9, mimes <- v10, calls <- v11

applet == v1
delivering == v2
sends == v3
threw == v4
refused == v5
resFiles == v6
cache == v7
heap == v8
shellAnswer == v9
mimes == v10
shellCalls == v11
USE DEF applet, delivering, sends, threw, refused, resFiles, cache, heap, shellAnswer,
   mimes, shellCalls

LEMMA ShellInvInitially == Shell!ShellInit => Shell!ShellInv
<1> SUFFICES ASSUME Shell!ShellInit
             PROVE  Shell!ShellInv
  OBVIOUS
<1> USE DEF Shell!ShellInit
<1>1. sends \in Seq({"delivered"}) /\ delivering \in BOOLEAN /\ Len(sends) <= 1
      /\ Shell!FlagMeansDelivery
  <2>1. sends = <<>> /\ delivering = FALSE
    OBVIOUS
  <2>2. sends \in Seq({"delivered"}) /\ Len(sends) <= 1
    BY <2>1
  <2> QED
    BY <2>1, <2>2 DEF Shell!FlagMeansDelivery
<1>2. heap \in Seq(Shell!Records)
      /\ cache \in [Resources -> {Shell!None} \cup DOMAIN heap]
  OBVIOUS
<1>3. Shell!ResourcesHonest
  BY DEF Shell!ResourcesHonest, Shell!Nothing, Shell!None
<1> QED
  BY <1>1, <1>2, <1>3 DEF Shell!ShellInv

LEMMA ShellInvStays ==
    Shell!ShellBounds /\ Shell!ShellInv /\ [Shell!ShellNext]_Shell!shellVars
        => Shell!ShellInv'
<1> SUFFICES ASSUME Shell!ShellBounds, Shell!ShellInv, [Shell!ShellNext]_Shell!shellVars
             PROVE  Shell!ShellInv'
  OBVIOUS
<1> USE DEF Shell!ShellInv
<1> DEFINE Events == /\ sends \in Seq({"delivered"}) /\ delivering \in BOOLEAN
                     /\ ~threw => Len(sends) <= 1
                     /\ Shell!FlagMeansDelivery
           Pointers == /\ heap \in Seq(Shell!Records)
                       /\ cache \in [Resources -> {Shell!None} \cup DOMAIN heap]
                       /\ Shell!ResourcesHonest
<1>1. resFiles' = resFiles /\ Shell!Records' = Shell!Records /\ \A r \in Resources : Shell!Data(r)' = Shell!Data(r)
  <2>1. resFiles' = resFiles
    BY DEF Shell!ShellNext, Shell!shellVars, Shell!CreateInstance, Shell!PostApplet,
       Shell!SendEvent, Shell!HandlerReturns,
       Shell!HandlerThrows, Shell!LoadResData, Shell!LoadResDataEx, Shell!GetDeviceInfoEx,
          Shell!DetectType, Shell!KeepResources
  <2> QED
    BY <2>1 DEF Shell!Records, Shell!Data, Shell!FirstHolder, Shell!Holders, Shell!Holds
\* a step that leaves the resources alone, and answers nothing false of them
<1>2. ASSUME UNCHANGED <<cache, heap>>,
             shellAnswer' = shellAnswer \/ shellAnswer'.call \in {"none", "create"}
      PROVE  Pointers'
  <2>1. heap' \in Seq(Shell!Records)
    BY <1>1, <1>2
  <2>2. \A r \in Resources : cache'[r] # Shell!None => heap'[cache'[r]] = Shell!Data(r)'
    BY <1>1, <1>2 DEF Shell!ResourcesHonest
  <2>3. Shell!ResourcesHonest'
    BY <1>2, <2>2 DEF Shell!ResourcesHonest
  <2> QED
    BY <1>1, <2>1, <2>3, <1>2
<1>3. ASSUME UNCHANGED <<sends, delivering, threw>>
      PROVE  Events'
  BY <1>3 DEF Shell!FlagMeansDelivery
<1>4. ASSUME Events', Pointers'
      PROVE  Shell!ShellInv'
  BY <1>4
<1>5. CASE UNCHANGED Shell!shellVars
  BY <1>5, <1>2, <1>3, <1>4 DEF Shell!shellVars
<1>6. ASSUME NEW class \in Classes, Shell!CreateInstance(class)
      PROVE  Shell!ShellInv'
  BY <1>6, <1>2, <1>3, <1>4 DEF Shell!CreateInstance, Shell!KeepEvents, Shell!KeepResources
<1>7. CASE Shell!PostApplet
  BY <1>7, <1>2, <1>3, <1>4 DEF Shell!PostApplet
<1>8. CASE Shell!SendEvent
  <2>1. Pointers'
    BY <1>8, <1>2 DEF Shell!SendEvent, Shell!Nothing
  <2>2. CASE Shell!CanDeliver
    <3>1. threw' = threw /\ delivering' = TRUE /\ sends' = Append(sends, "delivered")
      BY <1>8, <2>2 DEF Shell!SendEvent
    <3>2. ~threw => sends = <<>>
      BY <2>2 DEF Shell!CanDeliver, Shell!FlagMeansDelivery
    <3>3. Events'
      BY <3>1, <3>2 DEF Shell!FlagMeansDelivery
    <3> QED
      BY <2>1, <3>3, <1>4
  <2>3. CASE ~Shell!CanDeliver
    BY <1>8, <2>3, <2>1, <1>3, <1>4 DEF Shell!SendEvent
  <2> QED
    BY <2>2, <2>3
<1>9. CASE Shell!HandlerReturns
  <2>1. Pointers'
    BY <1>9, <1>2 DEF Shell!HandlerReturns
  <2>2. /\ threw' = threw /\ delivering' = FALSE
        /\ sends # <<>> /\ sends' = SubSeq(sends, 1, Len(sends) - 1)
    BY <1>9 DEF Shell!HandlerReturns, Shell!DeliveringAfter
  <2>3. sends' \in Seq({"delivered"}) /\ Len(sends') = Len(sends) - 1
    <3>1. Len(sends) \in Nat /\ Len(sends) # 0
      BY <2>2
    <3>2. Len(sends) - 1 \in Nat /\ Len(sends) - 1 <= Len(sends)
      BY <3>1
    <3>3. \A i \in 1..(Len(sends) - 1) : sends[i] \in {"delivered"}
      BY <3>1
    <3>4. SubSeq(sends, 1, Len(sends) - 1) = [i \in 1..(Len(sends) - 1) |-> sends[i]]
      BY <3>1
    <3>5. SubSeq(sends, 1, Len(sends) - 1) \in [1..(Len(sends) - 1) -> {"delivered"}]
      BY <3>3, <3>4
    <3>6. \A n \in Nat : \A s \in [1..n -> {"delivered"}] :
             s \in Seq({"delivered"}) /\ Len(s) = n
      OBVIOUS
    <3> QED
      BY <2>2, <3>2, <3>5, <3>6
  <2>4. ~threw => Len(sends') = 0
    BY <2>2, <2>3
  <2>5. ~threw' => Len(sends') <= 1 /\ sends' = <<>>
    BY <2>2, <2>3, <2>4
  <2>6. Shell!FlagMeansDelivery'
    BY <2>2, <2>5 DEF Shell!FlagMeansDelivery
  <2>7. Events'
    BY <2>2, <2>3, <2>5, <2>6
  <2> QED
    BY <2>1, <2>7, <1>4
<1>10. CASE Shell!HandlerThrows
  <2>1. Pointers'
    BY <1>10, <1>2 DEF Shell!HandlerThrows
  <2>2. Events'
    BY <1>10 DEF Shell!HandlerThrows, Shell!FlagMeansDelivery
  <2> QED
    BY <2>1, <2>2, <1>4
<1>11. ASSUME NEW r \in Resources, NEW room \in BOOLEAN, Shell!LoadResData(r, room)
       PROVE  Shell!ShellInv'
  <2>1. Events'
    BY <1>11, <1>3 DEF Shell!LoadResData, Shell!KeepEvents
  <2>2. CASE UNCHANGED <<cache, heap>>
             /\ \/ shellAnswer' = [call |-> "data", resource |-> r, pointer |-> Shell!None]
                \/ shellAnswer' = [call |-> "data", resource |-> r, pointer |-> cache[r]]
    <3>1. heap' \in Seq(Shell!Records)
      BY <1>1, <2>2
    <3>2. \A q \in Resources : cache'[q] # Shell!None => heap'[cache'[q]] = Shell!Data(q)'
      BY <1>1, <2>2 DEF Shell!ResourcesHonest
    <3>3. Shell!ResourcesHonest'
      BY <2>2, <3>2 DEF Shell!ResourcesHonest
    <3> QED
      BY <1>1, <3>1, <3>3, <2>2, <2>1, <1>4
  <2>3. CASE /\ heap' = Append(heap, Shell!Data(r)) /\ Shell!Data(r) \in Shell!Records
             /\ cache' = [cache EXCEPT ![r] = Len(heap) + 1]
             /\ shellAnswer' = [call |-> "data", resource |-> r, pointer |-> Len(heap) + 1]
    <3>1. heap' \in Seq(Shell!Records) /\ Len(heap') = Len(heap) + 1
          /\ heap'[Len(heap) + 1] = Shell!Data(r) /\ \A i \in 1..Len(heap) : heap'[i] = heap[i]
      BY <2>3
    <3>2. heap' \in Seq(Shell!Records)
      BY <1>1, <3>1
    <3>3. cache' \in [Resources -> {Shell!None} \cup DOMAIN heap']
      BY <2>3, <3>1
    <3>4. \A q \in Resources : cache'[q] # Shell!None => heap'[cache'[q]] = Shell!Data(q)'
      BY <1>1, <2>3, <3>1 DEF Shell!ResourcesHonest
    <3>5. shellAnswer'.pointer = cache'[shellAnswer'.resource]
      BY <2>3
    <3>6. Shell!ResourcesHonest'
      BY <2>3, <3>4, <3>5 DEF Shell!ResourcesHonest
    <3> QED
      BY <1>1, <3>2, <3>3, <3>6, <2>1, <1>4
  <2> QED
    BY <1>11, <2>2, <2>3 DEF Shell!LoadResData, Shell!Records
<1>12. ASSUME NEW r \in Resources, NEW room \in BOOLEAN, NEW buffer \in {"given", "null", "ask"},
              NEW capacity \in 0 .. MaxResource, Shell!LoadResDataEx(r, buffer, capacity, room)
       PROVE  Shell!ShellInv'
  <2>1. Events'
    BY <1>12, <1>3 DEF Shell!LoadResDataEx, Shell!KeepEvents
  <2> DEFINE found == Shell!Holders(r) # {}
             size == IF found THEN Shell!Data(r).size ELSE Shell!None
             copied == /\ found
                       /\ \/ buffer = "given" /\ Shell!Fits(capacity, size)
                          \/ buffer = "null" /\ room
  <2>2. PICK n : n = IF copied THEN size ELSE 0
    OBVIOUS
  <2>3. /\ shellAnswer'.call = "ex" /\ shellAnswer'.buffer = buffer /\ shellAnswer'.capacity = capacity
        /\ shellAnswer'.size = size /\ shellAnswer'.copied = n
    BY <1>12, <2>2 DEF Shell!LoadResDataEx
  <2>4. cache' = cache /\ (heap' = heap \/ (heap' = Append(heap, Shell!Data(r)) /\ Shell!Data(r) \in Shell!Records))
    BY <1>12 DEF Shell!LoadResDataEx, Shell!Records
  <2>5. heap' \in Seq(Shell!Records) /\ Len(heap') >= Len(heap)
        /\ \A i \in 1..Len(heap) : heap'[i] = heap[i]
    <3>1. Len(heap) \in Nat
      OBVIOUS
    <3>2. CASE heap' = heap
      BY <3>1, <3>2
    <3>3. CASE heap' = Append(heap, Shell!Data(r)) /\ Shell!Data(r) \in Shell!Records
      BY <3>1, <3>3
    <3> QED
      BY <2>4, <3>2, <3>3
  <2>6. heap' \in Seq(Shell!Records)
    BY <1>1, <2>5
  <2>7. cache' \in [Resources -> {Shell!None} \cup DOMAIN heap']
    BY <2>4, <2>5
  <2>8. \A q \in Resources : cache'[q] # Shell!None => heap'[cache'[q]] = Shell!Data(q)'
    BY <1>1, <2>4, <2>5 DEF Shell!ResourcesHonest
  <2>9. buffer = "given" => n <= capacity /\ (n > 0 => n = size)
    <3> HIDE DEF size
    <3> QED
      BY <2>2 DEF Shell!Fits, Shell!ShellBounds
  <2>10. buffer = "ask" => n = 0
    BY <2>2
  <2> HIDE DEF size
  <2>11. Shell!ResourcesHonest'
    BY <2>3, <2>8, <2>9, <2>10 DEF Shell!ResourcesHonest
  <2> QED
    BY <1>1, <2>6, <2>7, <2>11, <2>1, <1>4
<1>13. ASSUME NEW item \in DOMAIN Shell!DeviceLength, NEW capacity \in {0, 9, 12},
              Shell!GetDeviceInfoEx(item, capacity)
       PROVE  Shell!ShellInv'
  <2>1. Events'
    BY <1>13, <1>3 DEF Shell!GetDeviceInfoEx, Shell!KeepEvents
  <2>2. UNCHANGED <<cache, heap>>
    BY <1>13 DEF Shell!GetDeviceInfoEx, Shell!KeepResources
  <2>3. shellAnswer'.call = "device" /\ shellAnswer'.copied <= shellAnswer'.capacity
    BY <1>13 DEF Shell!GetDeviceInfoEx, Shell!DeviceLength
  <2>4. heap' \in Seq(Shell!Records)
    BY <1>1, <2>2
  <2>5. \A q \in Resources : cache'[q] # Shell!None => heap'[cache'[q]] = Shell!Data(q)'
    BY <1>1, <2>2 DEF Shell!ResourcesHonest
  <2>6. Shell!ResourcesHonest'
    BY <2>3, <2>5 DEF Shell!ResourcesHonest
  <2> QED
    BY <1>1, <2>4, <2>6, <2>2, <2>1, <1>4
<1>14. ASSUME NEW mime \in DOMAIN Shell!MimeLength, Shell!DetectType(mime)
       PROVE  Shell!ShellInv'
  BY <1>14, <1>2, <1>3, <1>4 DEF Shell!DetectType, Shell!KeepEvents, Shell!KeepResources,
     Shell!Nothing
<1> QED
  BY <1>5, <1>6, <1>7, <1>8, <1>9, <1>10, <1>11, <1>12, <1>13, <1>14 DEF Shell!ShellNext

(* The names of types the shell gives out lie one behind the other (DetectType). *)
LEMMA MimesInvInit == Shell!ShellInit => Shell!MimesInv
  BY DEF Shell!ShellInit, Shell!MimesInv, Shell!NamesApart

LEMMA MimesInvStep ==
    ASSUME Shell!MimesInv, [Shell!ShellNext]_(Shell!shellVars)
    PROVE  Shell!MimesInv'
<1>1. CASE v10' = v10
  BY <1>1 DEF Shell!MimesInv, Shell!NamesApart
<1>2. CASE \E mime \in DOMAIN Shell!MimeLength : Shell!DetectType(mime)
  <2>1. PICK mime \in DOMAIN Shell!MimeLength : Shell!DetectType(mime)
    BY <1>2
  <2>2. PICK a \in Seq((DOMAIN Shell!MimeLength) \X Nat), n \in Nat :
           a = v10.address /\ n = v10.next
    BY DEF Shell!MimesInv
  <2>3. PICK l \in Nat : l = Shell!MimeLength[mime] /\ l + Shell!MimeStep(l) \in Nat /\ l < Shell!MimeStep(l)
    BY DEF Shell!MimeLength, Shell!MimeStep
  <2>4. CASE v10' = [address |-> Append(a, <<mime, n>>), next |-> n + Shell!MimeStep(l)]
    <3>0. PICK M : M = DOMAIN Shell!MimeLength
      OBVIOUS
    <3>1. PICK e \in M \X Nat : e = <<mime, n>> /\ e[1] = mime /\ e[2] = n
      <4>1. mime \in M
        BY <3>0
      <4>2. <<mime, n>> \in M \X Nat
        BY <4>1
      <4> QED
        BY <4>2
    <3>2. PICK b \in Seq(M \X Nat) : b = Append(a, e)
      <4>1. a \in Seq(M \X Nat)
        BY <3>0
      <4>2. Append(a, e) \in Seq(M \X Nat)
        BY <4>1
      <4> QED
        BY <4>2
    <3>3. PICK m \in Nat : m = Len(a)
      OBVIOUS
    <3>4. Len(b) = m + 1 /\ b[m + 1] = e /\ \A k \in 1..m : b[k] = a[k]
      BY <3>2, <3>3
    <3>5. PICK t \in Nat : t = n + Shell!MimeStep(l)
      BY <2>3 DEF Shell!MimeStep
    <3>6. v10' = [address |-> b, next |-> t]
      BY <2>4, <3>1, <3>2, <3>5
    <3>7. \A k \in 1..m : a[k][2] + Shell!MimeLength[a[k][1]] < n
      <4>1. \A k \in DOMAIN a : a[k][2] + Shell!MimeLength[a[k][1]] < n
        BY <2>2 DEF Shell!MimesInv
      <4> QED
        BY <3>3, <4>1
    <3>8. \A k \in 1..m : a[k][2] \in Nat /\ Shell!MimeLength[a[k][1]] \in Nat
      BY <3>3 DEF Shell!MimeLength
    <3>9. n < t /\ e[2] + Shell!MimeLength[e[1]] < t
      <4>1. PICK u \in Nat : u = Shell!MimeStep(l) /\ l < u
        BY <2>3 DEF Shell!MimeStep
      <4>2. n < t /\ n + l < t
        BY <3>5, <4>1
      <4>3. Shell!MimeLength[e[1]] = l
        BY <2>3, <3>1
      <4> QED
        BY <3>1, <4>2, <4>3
    <3>10. \A i, j \in 1..m : i < j => a[i][2] + Shell!MimeLength[a[i][1]] < a[j][2]
      BY <2>2, <3>3 DEF Shell!MimesInv, Shell!NamesApart
    <3>15. \A k \in 1..m + 1 : k = m + 1 \/ k \in 1..m
      OBVIOUS
    <3>11. \A k \in 1..m + 1 : b[k][2] + Shell!MimeLength[b[k][1]] < t
      <4> SUFFICES ASSUME NEW k \in 1..m + 1
                   PROVE  b[k][2] + Shell!MimeLength[b[k][1]] < t
        OBVIOUS
      <4>1. CASE k = m + 1
        BY <4>1, <3>4, <3>9
      <4>2. CASE k \in 1..m
        <5>1. PICK x \in Nat, y \in Nat : x = a[k][2] /\ y = Shell!MimeLength[a[k][1]]
          BY <4>2, <3>8
        <5>2. x + y < n
          BY <4>2, <3>7, <5>1
        <5>3. x + y < t
          BY <3>9, <5>2
        <5> QED
          BY <4>2, <3>4, <5>1, <5>3
      <4> QED
        BY <4>1, <4>2, <3>15
    <3>12. \A i, j \in 1..m + 1 : i < j => b[i][2] + Shell!MimeLength[b[i][1]] < b[j][2]
      <4> SUFFICES ASSUME NEW i \in 1..m + 1, NEW j \in 1..m + 1, i < j
                   PROVE  b[i][2] + Shell!MimeLength[b[i][1]] < b[j][2]
        OBVIOUS
      <4>0. i \in 1..m
        BY <3>3
      <4>1. CASE j = m + 1
        BY <4>0, <4>1, <3>1, <3>4, <3>7
      <4>2. CASE j \in 1..m
        BY <4>0, <4>2, <3>4, <3>10
      <4> QED
        BY <4>1, <4>2, <3>15
    <3>14. a = v10.address /\ b \in Seq((DOMAIN Shell!MimeLength) \X Nat)
      BY <2>2, <3>0
    <3>13. v10'.address = b /\ v10'.next = t /\ DOMAIN b = 1..m + 1
           /\ v10' \in [address : Seq((DOMAIN Shell!MimeLength) \X Nat), next : Nat]
      BY <3>3, <3>4, <3>6, <3>14
    <3> QED
      BY <3>11, <3>12, <3>13 DEF Shell!MimesInv, Shell!NamesApart
  <2> QED
    BY <1>1, <2>1, <2>2, <2>3, <2>4 DEF Shell!DetectType
<1> QED
  BY <1>1, <1>2 DEF Shell!ShellNext, Shell!shellVars, Shell!CreateInstance, Shell!PostApplet, Shell!SendEvent, Shell!HandlerReturns,
     Shell!HandlerThrows, Shell!LoadResData, Shell!LoadResDataEx, Shell!GetDeviceInfoEx

-----------------------------------------------------------------------------
(* The display (Display). *)
Screen == INSTANCE Display WITH
    Rects <- DrawnRects, Sources <- BitmapSizes, MaxCalls <- MaxScreenCalls,
    clip <- v1, screen <- v2, presented <- v3, destination <- v4, refs <- v5,
    held <- v6, dibs <- v7, nextDib <- v8, compat <- v9, last <- v10, calls <- v11

clip == v1
screen == v2
presented == v3
destination == v4
refs == v5
held == v6
dibs == v7
nextDib == v8
compat == v9
lastDrawn == v10
screenCalls == v11
USE DEF clip, screen, presented, destination, refs, held, dibs, nextDib, compat, lastDrawn,
   screenCalls

LEMMA DisplayInvInitially == Screen!DisplayBounds /\ Screen!DisplayInit => Screen!DisplayInv
<1> SUFFICES ASSUME Screen!DisplayBounds, Screen!DisplayInit
             PROVE  Screen!DisplayInv
  OBVIOUS
<1> USE DEF Screen!DisplayInit, Screen!DisplayBounds
<1>1. refs \in [Screen!Bitmaps -> Int] /\ held \in [Screen!Bitmaps -> Nat]
      /\ \A b \in Screen!Bitmaps : refs[b] = held[b] + (IF b = Screen!Device THEN 1 ELSE 0)
  OBVIOUS
<1>2. dibs = <<>> /\ nextDib = 0 /\ destination \in Screen!Bitmaps
  BY DEF Screen!Bitmaps
<1>3. dibs \in Seq([table : Int, object : Int, buffer : Int, words : Int])
      /\ Len(dibs) <= MaxBitmaps
  BY <1>2
<1> QED
  BY <1>1, <1>2, <1>3 DEF Screen!DisplayInv

LEMMA DisplayInvStays ==
    Screen!DisplayBounds /\ Screen!DisplayInv /\ [Screen!DisplayNext]_Screen!displayVars => Screen!DisplayInv'
<1> SUFFICES ASSUME Screen!DisplayBounds, Screen!DisplayInv, [Screen!DisplayNext]_Screen!displayVars
             PROVE  Screen!DisplayInv'
  OBVIOUS
<1> USE DEF Screen!DisplayInv
<1>1. Screen!Bitmaps' = Screen!Bitmaps
  BY DEF Screen!Bitmaps
<1>2. CASE Screen!KeepBitmaps
  BY <1>2 DEF Screen!KeepBitmaps
<1>3. CASE \E b \in Screen!Bitmaps : Screen!HandOut(b)
  <2>1. PICK b \in Screen!Bitmaps : Screen!HandOut(b)
    BY <1>3
  <2>2. /\ refs' = [refs EXCEPT ![b] = @ + 1] /\ held' = [held EXCEPT ![b] = @ + 1]
        /\ UNCHANGED <<destination, nextDib, dibs>>
    BY <2>1 DEF Screen!HandOut, Screen!Acquired
  <2>3. refs' \in [Screen!Bitmaps -> Int] /\ held' \in [Screen!Bitmaps -> Nat]
    BY <2>2
  <2>4. \A c \in Screen!Bitmaps : refs'[c] = held'[c] + (IF c = Screen!Device THEN 1 ELSE 0)
    BY <2>2
  <2> QED
    BY <2>2, <2>3, <2>4
<1>4. CASE \E b \in Screen!Bitmaps : Screen!Release(b)
  <2>1. PICK b \in Screen!Bitmaps : Screen!Release(b)
    BY <1>4
  <2>2. /\ held[b] > 0 /\ held' = [held EXCEPT ![b] = @ - 1]
        /\ refs' = [refs EXCEPT ![b] = IF b = Screen!Device \/ @ > 0 THEN @ - 1 ELSE @]
        /\ UNCHANGED <<destination, nextDib, dibs>>
    BY <2>1 DEF Screen!Release
  <2>3. refs' = [refs EXCEPT ![b] = @ - 1]
    <3>1. b = Screen!Device \/ refs[b] > 0
      BY <2>2
    <3>2. (IF b = Screen!Device \/ refs[b] > 0 THEN refs[b] - 1 ELSE refs[b]) = refs[b] - 1
      BY <3>1
    <3> QED
      BY <2>2, <3>2, Zenon
  <2>4. refs' \in [Screen!Bitmaps -> Int] /\ held' \in [Screen!Bitmaps -> Nat]
    BY <2>2, <2>3
  <2>5. \A c \in Screen!Bitmaps : refs'[c] = held'[c] + (IF c = Screen!Device THEN 1 ELSE 0)
    BY <2>2, <2>3
  <2> QED
    BY <2>2, <2>4, <2>5
<1>5. ASSUME NEW b \in Screen!Bitmaps, Screen!SetDestination(b)
      PROVE  Screen!DisplayInv'
  BY <1>5, <1>1 DEF Screen!SetDestination
<1>6. ASSUME NEW s \in BitmapSizes, Screen!CreateDIBitmap(s[1], s[2])
      PROVE  Screen!DisplayInv'
  <2>1. UNCHANGED <<destination, refs, held>> /\ Len(dibs) < MaxBitmaps
    BY <1>6 DEF Screen!CreateDIBitmap
  <2>2. s[1] \in Nat /\ s[2] \in Nat
    BY DEF Screen!DisplayBounds
  <2>3. PICK words \in Int : words = Screen!Pitch(s[1]) * s[2]
    <3>1. \A m, n \in Int : m * n \in Int
      OBVIOUS
    <3>2. Screen!Pitch(s[1]) \in Int
      BY <2>2 DEF Screen!Pitch
    <3> QED
      BY <3>1, <3>2, <2>2
  <2>4. CASE UNCHANGED <<dibs, nextDib>>
    BY <2>1, <2>4, <1>1
  <2>5. CASE LET object == nextDib + Screen!TableReserved
                 buffer == object + Screen!ObjectWords
             IN  /\ dibs' = Append(dibs, [table |-> nextDib, object |-> object,
                                          buffer |-> buffer, words |-> words])
                 /\ nextDib' = buffer + words
    <3>1. nextDib' \in Int
      BY <2>5 DEF Screen!TableReserved, Screen!ObjectWords
    <3>2. dibs' \in Seq([table : Int, object : Int, buffer : Int, words : Int])
      BY <2>5 DEF Screen!TableReserved, Screen!ObjectWords
    <3>3. Len(dibs') <= MaxBitmaps
      BY <2>5, <2>1 DEF Screen!DisplayBounds
    <3> QED
      BY <3>1, <3>2, <3>3, <2>1, <1>1
  <2> QED
    BY <1>6, <2>3, <2>4, <2>5 DEF Screen!CreateDIBitmap
<1>7. \A b \in {Screen!Device} \cup {<<"dib", n>> : n \in DOMAIN dibs} : b \in Screen!Bitmaps
  BY DEF Screen!Bitmaps, Screen!DisplayBounds
<1>8. CASE UNCHANGED Screen!displayVars
  BY <1>8, <1>2 DEF Screen!displayVars, Screen!KeepBitmaps
<1>9. CASE Screen!DisplayNext
  <2>1. CASE \E r \in DrawnRects :
               \/ Screen!SetClipRect(r) \/ Screen!DrawRect(r)
               \/ \E s \in BitmapSizes, x, y \in 0 .. 1 : Screen!BitBlt(r, s, x, y)
               \/ \E n \in DOMAIN compat.made : Screen!FillRect(n, r)
    <3>1. ASSUME NEW r \in DrawnRects, Screen!SetClipRect(r) \/ Screen!DrawRect(r)
          PROVE  Screen!KeepBitmaps
      BY <3>1 DEF Screen!SetClipRect, Screen!DrawRect, Screen!Draw
    <3>2. ASSUME NEW r \in DrawnRects, NEW s \in BitmapSizes, NEW x \in 0 .. 1, NEW y \in 0 .. 1,
                 Screen!BitBlt(r, s, x, y)
          PROVE  Screen!KeepBitmaps
      BY <3>2, Zenon DEF Screen!BitBlt, Screen!Draw
    <3>3. ASSUME NEW r \in DrawnRects, NEW n \in DOMAIN compat.made, Screen!FillRect(n, r)
          PROVE  Screen!KeepBitmaps
      BY <3>3, Zenon DEF Screen!FillRect
    <3> QED
      BY <2>1, <3>1, <3>2, <3>3, <1>2
  <2>2. CASE \E x \in (0 - 1) .. Width : Screen!DrawText(x, 0, 2)
    BY <2>2, <1>2 DEF Screen!DrawText, Screen!Draw
  <2>3. CASE Screen!Update
    BY <2>3, <1>2 DEF Screen!Update
  <2>4. CASE \E b \in {Screen!Device} \cup {<<"dib", n>> : n \in DOMAIN dibs} :
               Screen!SetDestination(b) \/ Screen!AddRef(b) \/ Screen!Release(b) \/ Screen!QueryInterface(b)
    BY <2>4, <1>3, <1>4, <1>5, <1>7 DEF Screen!AddRef, Screen!QueryInterface
  <2>5. CASE Screen!GetDestination \/ Screen!GetDeviceBitmap
    BY <2>5, <1>3, <1>7 DEF Screen!GetDestination, Screen!GetDeviceBitmap
  <2>6. CASE \E s \in BitmapSizes : Screen!CreateDIBitmap(s[1], s[2])
    BY <2>6, <1>6
  <2>7. CASE \E s \in BitmapSizes \cup {<<0, 0>>} : Screen!CreateCompatibleBitmap(s[1], s[2])
    BY <2>7, <1>1 DEF Screen!CreateCompatibleBitmap
  <2> QED
    BY <1>9, <2>1, <2>2, <2>3, <2>4, <2>5, <2>6, <2>7 DEF Screen!DisplayNext
<1> QED
  BY <1>8, <1>9

LEMMA DisplayInvShows == Screen!DisplayBounds /\ Screen!DisplayInv => Screen!RefsMatchHeld
<1> SUFFICES ASSUME Screen!DisplayBounds, Screen!DisplayInv
             PROVE  Screen!RefsMatchHeld
  OBVIOUS
<1>1. Screen!Device \in Screen!Bitmaps /\ \A n \in 1 .. MaxBitmaps : <<"dib", n>> \in Screen!Bitmaps
  BY DEF Screen!Bitmaps
<1>2. \A n \in DOMAIN dibs : n \in 1 .. MaxBitmaps
  <2>1. PICK S : dibs \in Seq(S) /\ Len(dibs) <= MaxBitmaps
    BY DEF Screen!DisplayInv
  <2>2. MaxBitmaps \in Nat
    BY DEF Screen!DisplayBounds
  <2> QED
    BY <2>1, <2>2
<1>3. \A n : <<"dib", n>> # Screen!Device
  BY DEF Screen!Device
<1>4. refs[Screen!Device] = 1 + held[Screen!Device]
  BY <1>1 DEF Screen!DisplayInv
<1>5. \A n \in DOMAIN dibs : refs[<<"dib", n>>] = held[<<"dib", n>>]
  <2> SUFFICES ASSUME NEW n \in DOMAIN dibs
               PROVE  refs[<<"dib", n>>] = held[<<"dib", n>>]
    OBVIOUS
  <2>1. PICK b \in Screen!Bitmaps : b = <<"dib", n>> /\ b # Screen!Device
    BY <1>1, <1>2, <1>3
  <2>2. refs[b] = held[b] + 0 /\ held[b] \in Nat
    BY <2>1 DEF Screen!DisplayInv
  <2> QED
    BY <2>1, <2>2
<1> QED
  BY <1>4, <1>5 DEF Screen!RefsMatchHeld

-----------------------------------------------------------------------------
(* The extensions (ExtensionModule). *)
Ext == INSTANCE ExtensionModule WITH
    MaxDepth <- MaxLoads, MaxCalls <- MaxExtCalls,
    providers <- v1, loaded <- v2, failed <- v3, nextBase <- v4, code <- v5,
    ppMod <- v6, ppObj <- v7, frames <- v8, answer <- v9, calls <- v10

providers == v1
loaded == v2
failed == v3
nextBase == v4
extCode == v5
ppMod == v6
ppObj == v7
extFrames == v8
extAnswer == v9
extCalls == v10
USE DEF providers, loaded, failed, nextBase, extCode, ppMod, ppObj, extFrames, extAnswer,
   extCalls

LEMMA ExtensionInvInitially == Ext!ExtensionInit => Ext!ExtensionInv
<1> SUFFICES ASSUME Ext!ExtensionInit
             PROVE  Ext!ExtensionInv
  OBVIOUS
<1> USE DEF Ext!ExtensionInit
<1>1. extFrames = <<>> /\ providers = <<>> /\ loaded = <<>> /\ nextBase = 0
      /\ extAnswer.object = Ext!Null
  BY DEF Ext!NoAnswer
<1>2. extFrames \in Seq(Ext!Frame) /\ DOMAIN extFrames = {} /\ DOMAIN providers = {} /\ DOMAIN loaded = {}
  BY <1>1
<1> QED
  BY <1>1, <1>2 DEF Ext!ExtensionInv, Ext!CallsKnown

\* the calls below the innermost
LEMMA OuterKnown ==
    ASSUME Ext!CallsKnown, extFrames # <<>>
    PROVE  /\ Len(extFrames) \in Nat \ {0} /\ Ext!Inner \in Ext!Frame /\ Len(extFrames) \in DOMAIN extFrames
           /\ Ext!Outer \in Seq(Ext!Frame) /\ Len(Ext!Outer) = Len(extFrames) - 1
           /\ \A k \in DOMAIN Ext!Outer :
                 /\ k \in DOMAIN extFrames /\ Ext!Outer[k] = extFrames[k]
                 /\ Ext!Outer[k].disturbed
<1>1. extFrames \in Seq(Ext!Frame) /\ Len(extFrames) \in Nat \ {0}
  BY DEF Ext!CallsKnown
<1>2. Ext!Inner \in Ext!Frame /\ Len(extFrames) \in DOMAIN extFrames
  BY <1>1 DEF Ext!Inner
<1>3. Ext!Outer = [k \in 1..(Len(extFrames) - 1) |-> extFrames[k]]
  BY <1>1 DEF Ext!Outer
<1>4. Ext!Outer \in Seq(Ext!Frame) /\ Len(Ext!Outer) = Len(extFrames) - 1
  <2>1. Len(extFrames) - 1 \in Nat /\ \A k \in 1..(Len(extFrames) - 1) : extFrames[k] \in Ext!Frame
    BY <1>1
  <2>2. Ext!Outer \in [1..(Len(extFrames) - 1) -> Ext!Frame]
    BY <1>3, <2>1
  <2>3. \A n \in Nat : \A s \in [1..n -> Ext!Frame] : s \in Seq(Ext!Frame) /\ Len(s) = n
    OBVIOUS
  <2> QED
    BY <2>1, <2>2, <2>3
<1>5. \A k \in DOMAIN Ext!Outer : k \in DOMAIN extFrames /\ Ext!Outer[k] = extFrames[k] /\ k < Len(extFrames)
  BY <1>1, <1>3
<1> QED
  BY <1>1, <1>2, <1>4, <1>5 DEF Ext!CallsKnown

\* the calls under way once another came in between
LEMMA AllDisturbed ==
    ASSUME Ext!CallsKnown
    PROVE  /\ Ext!Disturbed \in Seq(Ext!Frame)
           /\ \A k \in DOMAIN Ext!Disturbed :
                /\ k \in DOMAIN extFrames
                /\ Ext!Disturbed[k].disturbed
                /\ Ext!Disturbed[k].class = extFrames[k].class
                /\ Ext!Disturbed[k].module = extFrames[k].module
<1>1. CASE extFrames = <<>>
  BY <1>1 DEF Ext!Disturbed, Ext!CallsKnown
<1>2. CASE extFrames # <<>>
  <2>1. PICK last : last = [Ext!Inner EXCEPT !.disturbed = TRUE]
    OBVIOUS
  <2>2. last \in Ext!Frame /\ last.disturbed /\ last.class = Ext!Inner.class /\ last.module = Ext!Inner.module
    BY <1>2, <2>1, OuterKnown DEF Ext!Frame
  <2>3. Ext!Disturbed = Append(Ext!Outer, last)
    BY <1>2, <2>1 DEF Ext!Disturbed
  <2>4. /\ Ext!Disturbed \in Seq(Ext!Frame) /\ DOMAIN Ext!Disturbed = 1..Len(extFrames)
        /\ \A k \in 1..(Len(extFrames) - 1) : Ext!Disturbed[k] = Ext!Outer[k] /\ k \in DOMAIN Ext!Outer
        /\ Ext!Disturbed[Len(extFrames)] = last
    BY <1>2, <2>2, <2>3, OuterKnown
  <2> SUFFICES ASSUME NEW k \in DOMAIN Ext!Disturbed
               PROVE  /\ k \in DOMAIN extFrames
                      /\ Ext!Disturbed[k].disturbed
                      /\ Ext!Disturbed[k].class = extFrames[k].class
                      /\ Ext!Disturbed[k].module = extFrames[k].module
    BY <2>4
  <2>5. CASE k = Len(extFrames)
    BY <1>2, <2>2, <2>4, <2>5, OuterKnown DEF Ext!Inner
  <2>6. CASE k # Len(extFrames)
    <3>1. k \in 1..(Len(extFrames) - 1)
      BY <1>2, <2>4, <2>6, OuterKnown
    <3> QED
      BY <1>2, <2>4, <3>1, OuterKnown
  <2> QED
    BY <2>5, <2>6
<1> QED
  BY <1>1, <1>2

\* a call ends, or another comes in between
LEMMA CallsStay ==
    ASSUME Ext!CallsKnown, providers' = providers,
           extFrames' = Ext!Disturbed \/ (extFrames' = Ext!Outer /\ extFrames # <<>>)
    PROVE  Ext!CallsKnown'
<1>1. extFrames' \in Seq(Ext!Frame)
  BY AllDisturbed, OuterKnown
<1>2. \A k \in DOMAIN extFrames' :
        /\ k \in DOMAIN extFrames /\ extFrames'[k].disturbed
        /\ extFrames'[k].class = extFrames[k].class
        /\ extFrames'[k].module = extFrames[k].module
  BY AllDisturbed, OuterKnown
<1>3. Ext!Frame' = Ext!Frame
  BY DEF Ext!Frame, Ext!Asked, Ext!Modules
<1> QED
  BY <1>1, <1>2, <1>3 DEF Ext!CallsKnown

\* a call enters the extension's code, over the others
LEMMA CallEnters ==
    ASSUME Ext!CallsKnown, providers' = providers, NEW below,
           below = Ext!Disturbed \/ (below = Ext!Outer /\ extFrames # <<>>),
           NEW top \in Ext!Frame, extFrames' = Append(below, top),
           top.class \in DOMAIN providers, top.module = providers[top.class],
           top.kind = "create" => ppObj' = Ext!Null
    PROVE  Ext!CallsKnown'
<1>1. below \in Seq(Ext!Frame)
  BY AllDisturbed, OuterKnown
<1>2. \A k \in DOMAIN below : /\ k \in DOMAIN extFrames /\ below[k].disturbed
                              /\ below[k].class = extFrames[k].class
                              /\ below[k].module = extFrames[k].module
  BY AllDisturbed, OuterKnown
<1>3. /\ extFrames' \in Seq(Ext!Frame) /\ Len(extFrames') = Len(below) + 1 /\ Len(below) \in Nat
      /\ extFrames'[Len(extFrames')] = top
      /\ \A k \in DOMAIN extFrames' :
           k # Len(extFrames') => k \in DOMAIN below /\ extFrames'[k] = below[k]
  BY <1>1
<1>4. Ext!Frame' = Ext!Frame
  BY DEF Ext!Frame, Ext!Asked, Ext!Modules
<1> SUFFICES ASSUME NEW k \in DOMAIN extFrames'
             PROVE  /\ extFrames'[k].class \in DOMAIN providers
                    /\ extFrames'[k].module = providers[extFrames'[k].class]
                    /\ k < Len(extFrames') => extFrames'[k].disturbed
                    /\ k = Len(extFrames') /\ extFrames'[k].kind = "create" => ppObj' = Ext!Null
  BY <1>3, <1>4 DEF Ext!CallsKnown
<1>5. CASE k = Len(extFrames')
  BY <1>3, <1>5
<1>6. CASE k # Len(extFrames')
  BY <1>2, <1>3, <1>6 DEF Ext!CallsKnown
<1> QED
  BY <1>5, <1>6

LEMMA ExtensionInvStays ==
    Ext!ExtensionInv /\ [Ext!ExtensionNext]_Ext!extensionVars => Ext!ExtensionInv'
<1> SUFFICES ASSUME Ext!ExtensionInv, [Ext!ExtensionNext]_Ext!extensionVars
             PROVE  Ext!ExtensionInv'
  OBVIOUS
<1> DEFINE Provided == \A class \in DOMAIN providers : class \in Ext!Asked /\ providers[class] \in Ext!Modules
           Based == nextBase \in Nat /\ \A module \in DOMAIN loaded : loaded[module].base \in Nat
           Own == extAnswer.object # Ext!Null /\ ~extAnswer.disturbed =>
                    /\ extAnswer.class \in DOMAIN providers
                    /\ extAnswer.object = <<providers[extAnswer.class], extAnswer.class>>
<1>1. Provided /\ Based /\ Ext!CallsKnown /\ Own
  BY DEF Ext!ExtensionInv
<1>2. Ext!Asked' = Ext!Asked /\ Ext!Modules' = Ext!Modules /\ Ext!Frame' = Ext!Frame
  BY DEF Ext!Asked, Ext!Modules, Ext!Frame
<1>3. ASSUME Provided', Based', Ext!CallsKnown', Own'
      PROVE  Ext!ExtensionInv'
  BY <1>3 DEF Ext!ExtensionInv
<1>4. ASSUME UNCHANGED <<providers, loaded, nextBase>>, Ext!CallsKnown', Own'
      PROVE  Ext!ExtensionInv'
  BY <1>1, <1>2, <1>3, <1>4
<1>5. ASSUME NEW outer, NEW class, NEW disturbed, Ext!Answered(outer, class, Ext!Null, disturbed)
      PROVE  Own' /\ extFrames' = outer
  BY <1>5 DEF Ext!Answered
<1>6. extFrames # <<>> =>
        /\ Ext!Inner \in Ext!Frame /\ Ext!Inner.class \in DOMAIN providers
        /\ Ext!Inner.module = providers[Ext!Inner.class]
        /\ Ext!Inner.kind = "create" /\ ~Ext!Inner.disturbed =>
             ppObj \in {Ext!Null, <<Ext!Inner.module, Ext!Inner.class>>}
  BY <1>1, OuterKnown DEF Ext!CallsKnown, Ext!Inner
<1>7. CASE UNCHANGED Ext!extensionVars
  BY <1>1, <1>2, <1>3, <1>7 DEF Ext!extensionVars, Ext!CallsKnown
<1>8. ASSUME NEW entry \in Catalog, Ext!AddEntries(entry[1], entry[2])
      PROVE  Ext!ExtensionInv'
  <2> DEFINE class == entry[1]
             module == entry[2]
  <2>1. class \in Ext!Asked /\ module \in Ext!Modules
    BY DEF Ext!Asked, Ext!Modules
  <2>2. UNCHANGED <<loaded, nextBase, extFrames, extAnswer>> /\ extFrames = <<>>
    BY <1>8 DEF Ext!AddEntries
  <2>3. /\ DOMAIN providers' = DOMAIN providers \cup {class}
        /\ \A c \in DOMAIN providers : providers'[c] = providers[c]
        /\ class \notin DOMAIN providers => providers'[class] = module
    BY <1>8 DEF Ext!AddEntries, Ext!With
  <2> HIDE DEF class, module
  <2>4. Provided'
    BY <1>1, <1>2, <2>1, <2>3
  <2>5. Ext!CallsKnown'
    <3>1. DOMAIN extFrames' = {} /\ extFrames' \in Seq(Ext!Frame)
      BY <2>2, <1>1 DEF Ext!CallsKnown
    <3> QED
      BY <1>2, <3>1 DEF Ext!CallsKnown
  <2>6. Own'
    BY <1>1, <2>2, <2>3
  <2> QED
    BY <1>1, <1>3, <2>2, <2>4, <2>5, <2>6
<1>9. ASSUME NEW entry \in Catalog, Ext!CreateInstance(entry[1])
      PROVE  Ext!ExtensionInv'
  <2> DEFINE class == entry[1]
  <2>1. UNCHANGED <<providers, loaded, nextBase>>
    BY <1>9 DEF Ext!CreateInstance
  <2>2. CASE Ext!Answered(Ext!Disturbed, class, Ext!Null, FALSE)
    BY <2>1, <2>2, <1>1, <1>4, <1>5, CallsStay
  <2>3. CASE /\ class \in DOMAIN providers /\ providers[class] \in DOMAIN loaded
             /\ extFrames' = Append(Ext!Disturbed, Ext!Entered("create", class, providers[class],
                                                    loaded[providers[class]].base))
             /\ ppObj' = Ext!Begun /\ extAnswer' = extAnswer
    <3>1. PICK top : top = Ext!Entered("create", class, providers[class], loaded[providers[class]].base)
      OBVIOUS
    <3>2. top \in Ext!Frame /\ top.class = class /\ top.module = providers[class]
      BY <1>1, <2>3, <3>1 DEF Ext!Entered, Ext!Frame
    <3>3. Ext!CallsKnown'
      BY <1>1, <2>1, <2>3, <3>1, <3>2, CallEnters DEF Ext!Begun
    <3> QED
      BY <1>1, <1>4, <2>1, <2>3, <3>3
  <2>4. CASE /\ class \in DOMAIN providers
             /\ extFrames' = Append(Ext!Disturbed, Ext!Entered("load", class, providers[class], nextBase))
             /\ extAnswer' = extAnswer
    <3>1. PICK top : top = Ext!Entered("load", class, providers[class], nextBase)
      OBVIOUS
    <3>2. top \in Ext!Frame /\ top.class = class /\ top.module = providers[class] /\ top.kind = "load"
      BY <1>1, <2>4, <3>1 DEF Ext!Entered, Ext!Frame
    <3>3. Ext!CallsKnown'
      BY <1>1, <2>1, <2>4, <3>1, <3>2, CallEnters
    <3> QED
      BY <1>1, <1>4, <2>1, <2>4, <3>3
  <2> QED
    BY <1>9, <2>2, <2>3, <2>4 DEF Ext!CreateInstance
<1>10. CASE Ext!ExtensionStores
  <2>1. extFrames # <<>> /\ UNCHANGED <<providers, loaded, nextBase, extFrames, extAnswer>>
    BY <1>10 DEF Ext!ExtensionStores
  <2>2. Ext!Inner.kind = "create" => ppObj' = <<Ext!Inner.module, Ext!Inner.class>>
    BY <1>10 DEF Ext!ExtensionStores
  <2>3. Ext!CallsKnown'
    BY <1>1, <1>2, <2>1, <2>2 DEF Ext!CallsKnown, Ext!Inner
  <2> QED
    BY <1>1, <1>4, <2>1, <2>3
<1>11. CASE Ext!LoadReturns
  <2>1. extFrames # <<>> /\ UNCHANGED providers
    BY <1>11 DEF Ext!LoadReturns
  <2>2. CASE ppMod = Ext!Null
    <3>1. Ext!Answered(Ext!Outer, Ext!Inner.class, Ext!Null, Ext!Inner.disturbed) /\ UNCHANGED <<loaded, nextBase>>
      BY <1>11, <2>2 DEF Ext!LoadReturns
    <3> QED
      BY <3>1, <2>1, <1>1, <1>4, <1>5, CallsStay
  <2>3. CASE ppMod # Ext!Null
    <3>1. PICK top : top = [Ext!Inner EXCEPT !.kind = "create"]
      OBVIOUS
    <3>2. /\ extFrames' = Append(Ext!Outer, top) /\ ppObj' = Ext!Null /\ extAnswer' = extAnswer
          /\ nextBase' = nextBase + 1
      BY <1>11, <2>3, <3>1 DEF Ext!LoadReturns, Ext!Begun, Ext!BaseAfter
    <3>3. top \in Ext!Frame /\ top.class = Ext!Inner.class /\ top.module = Ext!Inner.module
      BY <1>6, <2>1, <3>1 DEF Ext!Frame
    <3>4. Ext!CallsKnown'
      BY <1>1, <1>6, <2>1, <3>2, <3>3, CallEnters
    <3>5. Based'
      <4>1. \A module \in DOMAIN loaded' :
              \/ module \in DOMAIN loaded /\ loaded'[module] = loaded[module]
              \/ loaded'[module].base = Ext!Inner.base
        BY <1>11, <2>3 DEF Ext!LoadReturns, Ext!With
      <4>2. Ext!Inner.base \in Nat
        BY <1>6, <2>1 DEF Ext!Frame
      <4> QED
        BY <1>1, <3>2, <4>1, <4>2
    <3>6. Provided' /\ Own'
      BY <1>1, <1>2, <2>1, <3>2
    <3> QED
      BY <1>3, <3>4, <3>5, <3>6
  <2> QED
    BY <2>2, <2>3
<1>12. ASSUME NEW success \in BOOLEAN, Ext!CreateReturns(success)
       PROVE  Ext!ExtensionInv'
  <2>1. extFrames # <<>> /\ Ext!Inner.kind = "create" /\ UNCHANGED <<providers, loaded, nextBase>>
    BY <1>12 DEF Ext!CreateReturns
  <2>2. PICK object : /\ object = IF success THEN ppObj ELSE Ext!Null
                      /\ Ext!Answered(Ext!Outer, Ext!Inner.class, object, Ext!Inner.disturbed)
    BY <1>12 DEF Ext!CreateReturns
  <2>3. /\ extAnswer'.class = Ext!Inner.class /\ extAnswer'.object = object
        /\ extAnswer'.disturbed = Ext!Inner.disturbed /\ extFrames' = Ext!Outer
    BY <2>2 DEF Ext!Answered
  <2>4. Own'
    BY <1>6, <2>1, <2>2, <2>3
  <2>5. Ext!CallsKnown'
    BY <1>1, <2>1, <2>3, CallsStay
  <2> QED
    BY <1>4, <2>1, <2>4, <2>5
<1>13. CASE Ext!Throws
  <2>1. /\ extFrames # <<>> /\ UNCHANGED <<providers, loaded, nextBase>>
        /\ Ext!Answered(Ext!Outer, Ext!Inner.class, Ext!Null, Ext!Inner.disturbed)
    BY <1>13 DEF Ext!Throws
  <2> QED
    BY <2>1, <1>1, <1>4, <1>5, CallsStay
<1> QED
  BY <1>7, <1>8, <1>9, <1>10, <1>11, <1>12, <1>13 DEF Ext!ExtensionNext

LEMMA ExtensionInvShows == Ext!ExtensionInv => Ext!AnswersOwnObject
  BY DEF Ext!ExtensionInv, Ext!AnswersOwnObject

(* The modules loaded lie apart, what is loaded inside a load excepted, and the calls
   under way that another disturbed are known (ExtensionModule). *)
LEMMA ModulesInvInit == Ext!ExtensionInit => Ext!ModulesInv
  BY DEF Ext!ExtensionInit, Ext!ModulesInv

LEMMA ModulesInvSays == Ext!ModulesInv => Ext!ModulesApart
  BY DEF Ext!ModulesInv, Ext!ModulesApart

(* Only the innermost of the calls under way was not disturbed. *)
Alone(s) ==
  /\ s \in Seq(Ext!Frame)
  /\ \A k \in DOMAIN s : k < Len(s) => s[k].disturbed

LEMMA CallReturned ==
    ASSUME Alone(v8), v8 # <<>>
    PROVE  /\ Alone(Ext!Outer) /\ \A k \in DOMAIN Ext!Outer : Ext!Outer[k].disturbed
           /\ Ext!Inner \in Ext!Frame
<1>1. PICK n \in Nat : n = Len(v8) /\ n > 0
  BY DEF Alone
<1>2. PICK r : r = SubSeq(v8, 1, n - 1)
  OBVIOUS
<1>3. r \in Seq(Ext!Frame) /\ Len(r) = n - 1 /\ \A k \in 1..n - 1 : r[k] = v8[k]
  BY <1>1, <1>2 DEF Alone
<1>4. \A k \in 1..n - 1 : v8[k].disturbed
  BY <1>1 DEF Alone
<1>5. Ext!Outer = r
  BY <1>1, <1>2 DEF Ext!Outer
<1>6. Ext!Inner \in Ext!Frame
  BY <1>1 DEF Ext!Inner, Alone
<1> QED
  BY <1>3, <1>4, <1>5, <1>6 DEF Alone

LEMMA CallEntered ==
    ASSUME NEW s \in Seq(Ext!Frame), \A k \in DOMAIN s : s[k].disturbed, NEW f \in Ext!Frame
    PROVE  /\ Alone(Append(s, f))
           /\ \A k \in DOMAIN Append(s, f) : \/ k = Len(Append(s, f)) /\ Append(s, f)[k] = f
                                             \/ Append(s, f)[k].disturbed
<1>0. PICK t : t = Append(s, f)
  OBVIOUS
<1>1. PICK n \in Nat : n = Len(s)
  OBVIOUS
<1>2. /\ t \in Seq(Ext!Frame) /\ Len(t) = n + 1 /\ t[n + 1] = f
      /\ \A k \in 1..n : t[k] = s[k] /\ s[k].disturbed
  BY <1>0, <1>1
<1>3. Alone(t) /\ \A k \in DOMAIN t : (k = Len(t) /\ t[k] = f) \/ t[k].disturbed
  BY <1>1, <1>2 DEF Alone
<1> QED
  BY <1>0, <1>3

LEMMA OthersDisturbed ==
    ASSUME Alone(v8)
    PROVE  Ext!Disturbed \in Seq(Ext!Frame) /\ \A k \in DOMAIN Ext!Disturbed : Ext!Disturbed[k].disturbed
<1>1. CASE v8 = <<>>
  BY <1>1 DEF Ext!Disturbed, Alone
<1>2. CASE v8 # <<>>
  <2>1. PICK f : f = [Ext!Inner EXCEPT !.disturbed = TRUE]
    OBVIOUS
  <2>2. f \in Ext!Frame /\ f.disturbed
    BY <1>2, <2>1, CallReturned DEF Ext!Frame
  <2>3. Ext!Disturbed = Append(Ext!Outer, f)
    BY <1>2, <2>1 DEF Ext!Disturbed
  <2>4. PICK s \in Seq(Ext!Frame) : s = Ext!Outer /\ \A k \in DOMAIN s : s[k].disturbed
    BY <1>2, CallReturned DEF Alone
  <2>5. Ext!Disturbed = Append(s, f)
    BY <2>3, <2>4
  <2> QED
    BY <2>2, <2>4, <2>5, CallEntered DEF Alone
<1> QED
  BY <1>1, <1>2

(* With no load alone, what is kept of the modules loaded. *)
LEMMA ModulesKeep ==
    ASSUME Ext!ModulesInv, v4' = v4, v2' = v2, v5' = v5, Alone(v8'),
           \A k \in DOMAIN v8' : v8'[k].kind = "load" => v8'[k].disturbed
    PROVE  Ext!ModulesInv'
  BY DEF Ext!ModulesInv, Alone

LEMMA ModulesInvStep ==
    ASSUME Ext!ModulesInv, Ext!ExtensionInv, [Ext!ExtensionNext]_(Ext!extensionVars)
    PROVE  Ext!ModulesInv'
<1>0. Alone(v8)
  BY DEF Ext!ModulesInv, Alone
<1>1. CASE UNCHANGED <<v4, v2, v5, v8, v6>>
  BY <1>1 DEF Ext!ModulesInv
<1>2. ASSUME NEW entry \in Catalog, Ext!CreateInstance(entry[1])
      PROVE  Ext!ModulesInv'
  <2>1. PICK d \in Seq(Ext!Frame) : d = Ext!Disturbed /\ \A k \in DOMAIN d : d[k].disturbed
    BY <1>0, OthersDisturbed
  <2>2. CASE v8' = d /\ v5' = v5
    BY <1>2, <2>1, <2>2, ModulesKeep DEF Ext!CreateInstance, Alone
  <2>3. ASSUME entry[1] \in DOMAIN v1, v8' # d \/ v5' # v5
        PROVE  Ext!ModulesInv'
    <3>1. PICK m \in Ext!Modules : m = v1[entry[1]]
      BY <2>3 DEF Ext!ExtensionInv
    <3>2. CASE m \in DOMAIN v2
      <4>1. PICK f \in Ext!Frame : f = Ext!Entered("create", entry[1], m, v2[m].base)
        BY <3>2 DEF Ext!ExtensionInv, Ext!Entered, Ext!Frame, Ext!Asked
      <4>2. f.kind = "create"
        BY <4>1 DEF Ext!Entered
      <4>3. v8' = Append(d, f) /\ v5' = v5 /\ v4' = v4 /\ v2' = v2
        BY <1>2, <2>1, <2>3, <3>1, <3>2, <4>1 DEF Ext!CreateInstance
      <4>4. Alone(v8') /\ \A k \in DOMAIN v8' : v8'[k] = f \/ v8'[k].disturbed
        BY <2>1, <4>3, CallEntered
      <4> QED
        BY <4>2, <4>3, <4>4, ModulesKeep
    <3>3. CASE m \notin DOMAIN v2
      <4>1. PICK f \in Ext!Frame : f = Ext!Entered("load", entry[1], m, v4)
        BY DEF Ext!ModulesInv, Ext!Entered, Ext!Frame, Ext!Asked
      <4>2. f.kind = "load" /\ f.module = m /\ f.base = v4
        BY <4>1 DEF Ext!Entered
      <4>3. /\ v8' = Append(d, f) /\ v5' = Ext!With(v5, v4, m) /\ v4' = v4
            /\ v2' = v2 /\ v6' = Ext!Null
        BY <1>2, <2>1, <2>2, <2>3, <3>1, <3>3, <4>1 DEF Ext!CreateInstance, Ext!Answered
      <4>4. Alone(v8') /\ \A k \in DOMAIN v8' : (k = Len(v8') /\ v8'[k] = f) \/ v8'[k].disturbed
        BY <2>1, <4>3, CallEntered
      <4>5. /\ v4 \in DOMAIN v5' /\ v5'[v4] = m
            /\ \A b \in DOMAIN v5 : b # v4 => b \in DOMAIN v5' /\ v5'[b] = v5[b]
        BY <4>3 DEF Ext!With
      <4>6. /\ v4' \in Nat /\ v8' \in Seq(Ext!Frame)
            /\ \A k \in DOMAIN v8' : k < Len(v8') => v8'[k].disturbed
        BY <4>3, <4>4 DEF Ext!ModulesInv, Alone
      <4>7. ASSUME NEW k \in DOMAIN v8', ~v8'[k].disturbed
            PROVE  k = Len(v8') /\ v8'[k].base = v4 /\ v8'[k].module = m
        BY <4>2, <4>4, <4>7
      <4>8. ASSUME NEW n \in DOMAIN v2, ~v2[n].disturbed
            PROVE  /\ v2[n].base \in Nat /\ v2[n].base < v4
                   /\ v2[n].base \in DOMAIN v5' /\ v5'[v2[n].base] = n
                   /\ v2[n].module = <<n>>
        <5>1. /\ v2[n].base \in Nat /\ v2[n].base < v4
              /\ v2[n].base \in DOMAIN v5 /\ v5[v2[n].base] = n
              /\ v2[n].module = <<n>> /\ v4 \in Nat
          BY <4>8 DEF Ext!ModulesInv
        <5>2. v2[n].base # v4
          BY <5>1
        <5> QED
          BY <5>1, <5>2, <4>5
      <4> QED
        BY <4>3, <4>5, <4>6, <4>7, <4>8 DEF Ext!ModulesInv
    <3> QED
      BY <3>2, <3>3
  <2>4. entry[1] \notin DOMAIN v1 => v8' = d /\ v5' = v5
    BY <1>2, <2>1 DEF Ext!CreateInstance, Ext!Answered
  <2> QED
    BY <2>2, <2>3, <2>4
<1>3. CASE Ext!ExtensionStores
  <2>1. /\ v8 # <<>> /\ v8' = v8 /\ v4' = v4 /\ v2' = v2
        /\ v5' = v5
    BY <1>3 DEF Ext!ExtensionStores
  <2>2. CASE Ext!Inner.kind = "load"
    <3>1. v6' = <<Ext!Inner.module>>
      BY <1>3, <2>2 DEF Ext!ExtensionStores
    <3> QED
      BY <2>1, <3>1 DEF Ext!ModulesInv, Ext!Inner
  <2>3. CASE Ext!Inner.kind # "load"
    <3>1. v6' = v6
      BY <1>3, <2>3 DEF Ext!ExtensionStores
    <3> QED
      BY <1>1, <2>1, <3>1
  <2> QED
    BY <2>2, <2>3
<1>4. CASE Ext!LoadReturns
  <2>1. PICK s \in Seq(Ext!Frame) : s = Ext!Outer /\ Alone(s) /\ \A k \in DOMAIN s : s[k].disturbed
    BY <1>0, <1>4, CallReturned DEF Ext!LoadReturns, Alone
  <2>2. CASE v6 = Ext!Null
    <3>1. v8' = s /\ v4' = v4 /\ v2' = v2 /\ v5' = v5
      BY <1>4, <2>1, <2>2 DEF Ext!LoadReturns, Ext!Answered
    <3> QED
      BY <2>1, <3>1, ModulesKeep
  <2>3. CASE v6 # Ext!Null
    <3>1. PICK f : f = [Ext!Inner EXCEPT !.kind = "create"]
      OBVIOUS
    <3>2. f \in Ext!Frame /\ f.kind = "create" /\ Ext!Inner \in Ext!Frame
      BY <1>0, <1>4, <3>1, CallReturned DEF Ext!LoadReturns, Ext!Frame
    <3>3. /\ v8' = Append(s, f) /\ v4' = v4 + 1 /\ v5' = v5
          /\ Ext!Inner.kind = "load" /\ v8 # <<>>
          /\ v2' = IF Ext!Inner.module \in DOMAIN v2 THEN v2
                       ELSE Ext!With(v2, Ext!Inner.module,
                                 [base |-> Ext!Inner.base, module |-> v6,
                                  disturbed |-> Ext!Inner.disturbed])
      BY <1>4, <2>1, <2>3, <3>1 DEF Ext!LoadReturns, Ext!BaseAfter
    <3>4. Alone(v8') /\ \A k \in DOMAIN v8' : v8'[k] = f \/ v8'[k].disturbed
      BY <2>1, <3>2, <3>3, CallEntered
    <3>5. v4 \in Nat
      BY DEF Ext!ModulesInv
    <3>6. Len(v8) \in DOMAIN v8 /\ Ext!Inner = v8[Len(v8)]
      BY <1>0, <3>3 DEF Alone, Ext!Inner
    <3>7. ~Ext!Inner.disturbed =>
            /\ Ext!Inner.base = v4 /\ v4 \in DOMAIN v5
            /\ v5[v4] = Ext!Inner.module /\ v6 = <<Ext!Inner.module>>
      BY <2>3, <3>3, <3>6 DEF Ext!ModulesInv
    <3>8. ASSUME NEW n \in DOMAIN v2', ~v2'[n].disturbed
          PROVE  /\ v2'[n].base \in Nat /\ v2'[n].base < v4 + 1
                 /\ v2'[n].base \in DOMAIN v5 /\ v5[v2'[n].base] = n
                 /\ v2'[n].module = <<n>>
      <4>1. CASE n \in DOMAIN v2 /\ v2'[n] = v2[n]
        <5>1. /\ v2[n].base \in Nat /\ v2[n].base < v4
              /\ v2[n].base \in DOMAIN v5 /\ v5[v2[n].base] = n
              /\ v2[n].module = <<n>>
          BY <3>8, <4>1 DEF Ext!ModulesInv
        <5> QED
          BY <3>5, <4>1, <5>1
      <4>2. CASE n = Ext!Inner.module /\ v2'[n] = [base |-> Ext!Inner.base, module |-> v6,
                                                   disturbed |-> Ext!Inner.disturbed]
        BY <3>5, <3>7, <3>8, <4>2
      <4> QED
        BY <3>3, <4>1, <4>2 DEF Ext!With
    <3> QED
      BY <3>2, <3>3, <3>4, <3>5, <3>8 DEF Ext!ModulesInv, Alone
  <2> QED
    BY <2>2, <2>3
<1>5. ASSUME NEW success \in BOOLEAN, Ext!CreateReturns(success)
      PROVE  Ext!ModulesInv'
  <2>1. Alone(Ext!Outer) /\ \A k \in DOMAIN Ext!Outer : Ext!Outer[k].disturbed
    BY <1>0, <1>5, CallReturned DEF Ext!CreateReturns
  <2>2. v8' = Ext!Outer /\ v4' = v4 /\ v2' = v2 /\ v5' = v5
    BY <1>5 DEF Ext!CreateReturns, Ext!Answered
  <2> QED
    BY <2>1, <2>2, ModulesKeep
<1>6. CASE Ext!Throws
  <2>1. Alone(Ext!Outer) /\ \A k \in DOMAIN Ext!Outer : Ext!Outer[k].disturbed
    BY <1>0, <1>6, CallReturned DEF Ext!Throws
  <2>2. v8' = Ext!Outer /\ v4' = v4 /\ v2' = v2 /\ v5' = v5
    BY <1>6 DEF Ext!Throws, Ext!Answered
  <2> QED
    BY <2>1, <2>2, ModulesKeep
<1> QED
  BY <1>1, <1>2, <1>3, <1>4, <1>5, <1>6 DEF Ext!ExtensionNext, Ext!extensionVars, Ext!AddEntries

-----------------------------------------------------------------------------
(* The images (ResImages). *)
Images == INSTANCE ResImages WITH
    Frames <- GifFrames, MaxFrames <- MaxGifFrames, MaxCalls <- MaxImageCalls,
    images <- v1, nextObject <- v2, info <- v3, shown <- v4, answer <- v5,
    calls <- v6

images == v1
nextObject == v2
info == v3
shown == v4
imageAnswer == v5
imageCalls == v6
USE DEF images, nextObject, info, shown, imageAnswer, imageCalls

LEMMA ImagesInvInitially == Images!ImagesInit => Images!ImagesInv
  BY DEF Images!ImagesInit, Images!ImagesInv, Images!FirstObject, Images!Fallback

LEMMA ImagesInvStays ==
    Images!ImagesBounds /\ Images!ImagesInv /\ [Images!ImagesNext]_Images!imageVars
        => Images!ImagesInv'
<1> SUFFICES ASSUME Images!ImagesBounds, Images!ImagesInv, [Images!ImagesNext]_Images!imageVars
             PROVE  Images!ImagesInv'
  OBVIOUS
\* most operations give out no number and make no image
<1>1. ASSUME nextObject' = nextObject, DOMAIN images' = DOMAIN images
      PROVE  Images!ImagesInv'
  BY <1>1 DEF Images!ImagesInv
<1>2. ASSUME NEW gif \in Images!Gifs, Images!LoadResObject(gif)
      PROVE  Images!ImagesInv'
  <2>1. nextObject' = nextObject + 1 /\ nextObject \in Nat /\ Room \in Nat
    BY <1>2 DEF Images!LoadResObject, Images!ImagesInv, Images!ImagesBounds
  <2>2. nextObject' \in Nat /\ nextObject' > Images!Fallback
    BY <2>1 DEF Images!Fallback
  <2>3. \A o \in DOMAIN images : o \in Images!FirstObject .. nextObject' - 1 /\ o < Room
    BY <2>1 DEF Images!ImagesInv, Images!FirstObject, Images!Fallback
  <2>4. CASE nextObject' > Room
    <3>1. images' = images
      BY <1>2, <2>4 DEF Images!LoadResObject
    <3> QED
      BY <3>1, <2>2, <2>3 DEF Images!ImagesInv, Images!FirstObject, Images!Fallback
  <2>5. CASE ~(nextObject' > Room)
    <3>1. DOMAIN images' = DOMAIN images \cup {nextObject}
      BY <1>2, <2>5 DEF Images!LoadResObject
    <3>2. nextObject \in Images!FirstObject .. nextObject' - 1 /\ nextObject < Room
      BY <2>1, <2>5 DEF Images!ImagesInv, Images!FirstObject, Images!Fallback
    <3>3. \A o \in DOMAIN images' : o \in Images!FirstObject .. nextObject' - 1 /\ o < Room
      BY <3>1, <3>2, <2>3
    <3> QED
      BY <3>3, <2>2 DEF Images!ImagesInv, Images!FirstObject, Images!Fallback
  <2> QED
    BY <2>4, <2>5
<1>3. ASSUME NEW o \in Images!Handles
      PROVE  /\ Images!Draw(o) \/ Images!Start(o) \/ Images!Notify(o) => Images!ImagesInv'
             /\ \A n \in 1 .. MaxGifFrames : Images!DrawFrame(o, n) => Images!ImagesInv'
  BY <1>1 DEF Images!Draw, Images!Start, Images!Notify, Images!DrawFrame
<1>4. CASE UNCHANGED Images!imageVars
  BY <1>4, <1>1 DEF Images!imageVars
<1>5. CASE Images!LoadFails
  BY <1>5, <1>1 DEF Images!LoadFails
<1> QED
  BY <1>2, <1>3, <1>4, <1>5 DEF Images!ImagesNext

LEMMA ImagesInvShows == Images!ImagesInv => Images!FallbackIsNoImage
  BY DEF Images!ImagesInv, Images!FallbackIsNoImage, Images!FirstObject, Images!Fallback

-----------------------------------------------------------------------------
(* The calls the HLE dispatches and their trace (HleCalls). *)
Calls == INSTANCE HleCalls WITH
    Slots <- CallSlots, Functions <- GuestFunctions, MaxDepth <- MaxCallDepth,
    pc <- v1, lr <- v2, r4 <- v3, stack <- v4, host <- v5, shadow <- v6, exact <- v7

callPc == v1
callLr == v2
callR4 == v3
callStack == v4
callHost == v5
callShadow == v6
callExact == v7
USE DEF callPc, callLr, callR4, callStack, callHost, callShadow, callExact

(* What the frames of the host's stack hold. *)
LEMMA FrameTypes ==
    ASSUME NEW h \in Calls!HostFrames
    PROVE  /\ h.kind \in {"call", "preserve", "handler"}
           /\ h.kind = "preserve" =>
                 /\ h.saved.pc \in {Calls!TrapAt(i) : i \in Calls!Traps}
                 /\ h.saved.lr \in Calls!Bodies /\ h.saved.r4 \in {0, 1}
           /\ h.kind = "handler" =>
                 /\ h.slot \in 1..CallSlots /\ h.back \in Calls!Bodies
                 /\ h.r4 \in {0, 1} /\ h.depth \in Nat /\ h.frames \in Nat
<1>1. CASE h \in [kind : {"call"}]
  BY <1>1
<1>2. CASE h \in [kind : {"preserve"},
                  saved : [pc : {Calls!TrapAt(i) : i \in Calls!Traps}, lr : Calls!Bodies, r4 : {0, 1}]]
  BY <1>2
<1>3. CASE h \in [kind : {"handler"}, slot : 1..CallSlots, back : Calls!Bodies, r4 : {0, 1},
                  depth : Nat, frames : Nat]
  BY <1>3
<1> QED
  BY <1>1, <1>2, <1>3 DEF Calls!HostFrames

LEMMA HostTypes ==
    ASSUME Calls!HostSound
    PROVE  /\ Len(callHost) \in Nat /\ DOMAIN callHost = 1..Len(callHost)
           /\ callHost # <<>> => Len(callHost) \in DOMAIN callHost /\ Calls!Top(callHost) = callHost[Len(callHost)]
           /\ \A k \in DOMAIN callHost :
                 /\ callHost[k].kind \in {"call", "preserve", "handler"}
                 /\ callHost[k].kind = "preserve" =>
                       /\ callHost[k].saved.pc \in {Calls!TrapAt(i) : i \in Calls!Traps}
                       /\ callHost[k].saved.lr \in Calls!Bodies /\ callHost[k].saved.r4 \in {0, 1}
                 /\ callHost[k].kind = "handler" =>
                       /\ callHost[k].slot \in 1..CallSlots /\ callHost[k].back \in Calls!Bodies
                       /\ callHost[k].r4 \in {0, 1} /\ callHost[k].depth \in Nat /\ callHost[k].frames \in Nat
<1>1. callHost \in Seq(Calls!HostFrames)
  BY DEF Calls!HostSound
<1>2. Len(callHost) \in Nat /\ DOMAIN callHost = 1..Len(callHost)
  BY <1>1
<1>3. callHost # <<>> => Len(callHost) \in DOMAIN callHost
  BY <1>1
<1>4. ASSUME NEW k \in DOMAIN callHost
      PROVE  callHost[k] \in Calls!HostFrames
  BY <1>1, <1>4
<1> QED
  BY <1>2, <1>3, <1>4, FrameTypes DEF Calls!Top

(* A frame goes on top of the host's stack: of a call over a handler, or of a
   handler over a call. *)
LEMMA HostPushed ==
    ASSUME Calls!HostSound, callHost # <<>>, NEW h \in Calls!HostFrames, h.kind # "call",
           h.kind = "handler" <=> Calls!Top(callHost).kind # "handler",
           h.kind = "preserve" => h.saved.lr = Calls!Top(callHost).back /\ h.saved.r4 = Calls!Top(callHost).r4,
           callHost' = Append(callHost, h)
    PROVE  Calls!HostSound'
<1>1. /\ Len(callHost) \in Nat /\ DOMAIN callHost = 1..Len(callHost) /\ Len(callHost) \in DOMAIN callHost
      /\ Calls!Top(callHost) = callHost[Len(callHost)]
  BY HostTypes
<1>2. callHost' \in Seq(Calls!HostFrames) /\ DOMAIN callHost' = 1..Len(callHost) + 1
  BY <1>1 DEF Calls!HostSound
<1>3. callHost'[Len(callHost) + 1] = h /\ \A k \in 1..Len(callHost) : callHost'[k] = callHost[k]
  BY <1>1 DEF Calls!HostSound
<1>4. ASSUME NEW k \in DOMAIN callHost'
      PROVE  /\ callHost'[k].kind = "call" <=> k = 1
             /\ k > 1 => (callHost'[k].kind = "handler" <=> callHost'[k - 1].kind # "handler")
             /\ callHost'[k].kind = "preserve" => /\ callHost'[k].saved.lr = callHost'[k - 1].back
                                              /\ callHost'[k].saved.r4 = callHost'[k - 1].r4
  <2>1. CASE k = Len(callHost) + 1
    <3>1. k - 1 = Len(callHost) /\ k - 1 \in 1..Len(callHost) /\ k # 1
      BY <1>1, <2>1
    <3> QED
      BY <1>1, <1>3, <2>1, <3>1
  <2>2. CASE k \in 1..Len(callHost)
    <3>1. callHost'[k] = callHost[k] /\ (k > 1 => callHost'[k - 1] = callHost[k - 1])
      BY <1>1, <1>3, <2>2
    <3>2. k = 1 => callHost[k].kind = "call"
      BY <1>1 DEF Calls!HostSound
    <3> QED
      BY <1>1, <2>2, <3>1, <3>2 DEF Calls!HostSound
  <2> QED
    BY <1>1, <1>2, <2>1, <2>2
<1> QED
  BY <1>2, <1>4 DEF Calls!HostSound, Calls!HostFrames, Calls!Bodies, Calls!Traps

(* The frames above the k-th leave. *)
LEMMA HostCut ==
    ASSUME Calls!HostSound, NEW k \in 0..Len(callHost), callHost' = SubSeq(callHost, 1, k)
    PROVE  Calls!HostSound' /\ Len(callHost') = k /\ \A j \in 1..k : callHost'[j] = callHost[j]
<1>1. Len(callHost) \in Nat /\ DOMAIN callHost = 1..Len(callHost) /\ k \in Nat
  BY HostTypes
<1>2. callHost \in Seq(Calls!HostFrames)
  BY DEF Calls!HostSound
<1>5. callHost' \in Seq(Calls!HostFrames) /\ Len(callHost') = k /\ DOMAIN callHost' = 1..k
      /\ \A j \in 1..k : callHost'[j] = callHost[j]
  BY <1>2, FirstElems
<1>6. \A j \in 1..k : callHost'[j] = callHost[j]
  BY <1>5
<1>7. ASSUME NEW j \in DOMAIN callHost'
      PROVE  /\ callHost'[j].kind = "call" <=> j = 1
             /\ j > 1 => (callHost'[j].kind = "handler" <=> callHost'[j - 1].kind # "handler")
             /\ callHost'[j].kind = "preserve" => /\ callHost'[j].saved.lr = callHost'[j - 1].back
                                              /\ callHost'[j].saved.r4 = callHost'[j - 1].r4
  <2>1. j \in DOMAIN callHost /\ callHost'[j] = callHost[j] /\ (j > 1 => callHost'[j - 1] = callHost[j - 1])
    BY <1>1, <1>5, <1>6
  <2>2. j = 1 => callHost[j].kind = "call"
    BY <2>1 DEF Calls!HostSound
  <2> QED
    BY <1>1, <1>5, <2>1, <2>2 DEF Calls!HostSound
<1> QED
  BY <1>5, <1>6, <1>7 DEF Calls!HostSound, Calls!HostFrames, Calls!Bodies, Calls!Traps

(* What StackSound says of one frame of the host's stack. *)
HandlerOn(b, k) ==
    /\ b <= callHost[k].frames /\ callHost[k].frames <= Len(callStack)
    /\ \A m \in DOMAIN callHost : m > k /\ callHost[m].kind = "handler" => callHost[k].frames <= callHost[m].frames

CallOn(b, k) ==
    /\ IF k < Len(callHost) THEN Calls!Base(b, k) < Calls!Roof(k) ELSE Calls!Base(b, k) <= Calls!Roof(k)
    /\ \A j \in Calls!Base(b, k) + 1..Calls!Roof(k) : callStack[j].ret = Calls!Sentinel <=> j = Calls!Base(b, k) + 1

LEMMA StackUnderPush ==
    ASSUME Calls!HostSound, NEW b \in 0..Len(callStack), Calls!StackSound(b), callHost # <<>>,
           NEW h \in Calls!HostFrames, h.kind # "call",
           h.kind = "handler" <=> Calls!Top(callHost).kind # "handler",
           h.kind = "handler" => h.frames = Len(callStack) /\ Calls!Base(b, Len(callHost)) < Len(callStack),
           h.kind = "preserve" => Calls!Top(callHost).frames = Len(callStack),
           callHost' = Append(callHost, h), UNCHANGED callStack
    PROVE  Calls!StackSound(b)'
<1>n. PICK n : n = Len(callHost)
  OBVIOUS
<1>1. /\ n \in Nat /\ DOMAIN callHost = 1..n /\ n \in DOMAIN callHost
      /\ Calls!Top(callHost) = callHost[n]
  BY <1>n, HostTypes
<1>2. DOMAIN callHost' = 1..n + 1 /\ Len(callHost') = n + 1 /\ callHost'[n + 1] = h
      /\ \A k \in 1..n : callHost'[k] = callHost[k]
  BY <1>n, <1>1 DEF Calls!HostSound
<1>3. Len(callStack) \in Nat /\ callStack' = callStack
  BY DEF Calls!StackSound
<1>t. \A k \in 1..n : callHost[k].kind = "handler" => callHost[k].frames \in Nat
  BY <1>1, HostTypes
<1>4. ASSUME NEW k \in DOMAIN callHost', callHost'[k].kind = "handler"
      PROVE  HandlerOn(b, k)'
  <2>1. CASE k = n + 1
    <3>1. callHost'[k].frames = Len(callStack)
      BY <1>2, <1>4, <2>1
    <3>2. \A m \in DOMAIN callHost' : ~(m > k)
      BY <1>n, <1>1, <1>2, <2>1
    <3> QED
      BY <1>3, <3>1, <3>2 DEF HandlerOn
  <2>2. CASE k \in 1..n
    <3>1. callHost'[k] = callHost[k] /\ HandlerOn(b, k)
      BY <1>n, <1>1, <1>2, <1>4, <2>2 DEF Calls!StackSound, HandlerOn
    <3>2. ASSUME NEW m \in DOMAIN callHost', m > k, callHost'[m].kind = "handler"
          PROVE  callHost[k].frames <= callHost'[m].frames
      <4>1. CASE m = n + 1
        BY <1>2, <3>1, <3>2, <4>1 DEF HandlerOn
      <4>2. CASE m \in 1..n
        BY <1>n, <1>1, <1>2, <3>1, <3>2, <4>2 DEF HandlerOn
      <4> QED
        BY <1>n, <1>1, <1>2, <4>1, <4>2
    <3> QED
      BY <1>3, <3>1, <3>2 DEF HandlerOn
  <2> QED
    BY <1>1, <1>2, <2>1, <2>2
<1>5. ASSUME NEW k \in DOMAIN callHost', callHost'[k].kind # "handler"
      PROVE  CallOn(b, k)'
  <2>1. CASE k = n + 1
    <3>1. k # 1 /\ k - 1 = n /\ ~(k < n + 1)
      BY <1>1, <2>1
    <3>2. h.kind = "preserve" /\ callHost[n].frames = Len(callStack)
      BY <1>n, <1>1, <1>2, <1>5, <2>1, FrameTypes
    <3>3. Calls!Base(b, k)' = Len(callStack)
      <4>1. callHost'[k - 1] = callHost[n]
        BY <1>1, <1>2, <3>1
      <4> QED
        BY <3>1, <3>2, <4>1 DEF Calls!Base
    <3>4. Calls!Roof(k)' = Len(callStack)
      BY <1>2, <1>3, <3>1, <2>1 DEF Calls!Roof
    <3> QED
      BY <1>2, <1>3, <3>1, <3>3, <3>4 DEF CallOn
  <2>2. CASE k = n
    <3>1. callHost[n].kind # "handler" /\ h.frames = Len(callStack) /\ CallOn(b, n)
          /\ Calls!Base(b, n) < Len(callStack)
      BY <1>n, <1>1, <1>2, <1>5, <2>2 DEF Calls!StackSound, CallOn
    <3>2. Calls!Base(b, n)' = Calls!Base(b, n)
      BY <1>n, <1>1, <1>2 DEF Calls!Base
    <3>3. Calls!Roof(n)' = Len(callStack) /\ Calls!Roof(n) = Len(callStack)
      BY <1>n, <1>1, <1>2, <1>3, <3>1 DEF Calls!Roof
    <3> QED
      BY <1>n, <1>1, <1>2, <1>3, <2>2, <3>1, <3>2, <3>3 DEF CallOn
  <2>3. CASE k \in 1..n - 1
    <3>1. callHost'[k] = callHost[k] /\ k < n /\ k < n + 1 /\ CallOn(b, k)
      BY <1>n, <1>1, <1>2, <1>5, <2>3 DEF Calls!StackSound, CallOn
    <3>2. Calls!Base(b, k)' = Calls!Base(b, k) /\ Calls!Roof(k)' = Calls!Roof(k)
      BY <1>n, <1>1, <1>2, <3>1, <2>3 DEF Calls!Base, Calls!Roof
    <3> QED
      BY <1>n, <1>1, <1>2, <1>3, <3>1, <3>2 DEF CallOn
  <2> QED
    BY <1>1, <1>2, <2>1, <2>2, <2>3
<1>6. (callStack \in Seq(Calls!StackFrames))'
  BY <1>3 DEF Calls!StackSound, Calls!StackFrames, Calls!Bodies, Calls!Sentinel
<1> QED
  BY <1>4, <1>5, <1>6 DEF Calls!StackSound, HandlerOn, CallOn

LEMMA StackUnderCut ==
    ASSUME Calls!HostSound, NEW b \in 0..Len(callStack), Calls!StackSound(b), NEW k \in 1..Len(callHost),
           NEW m, m = IF callHost[k].kind = "handler" THEN callHost[k].frames ELSE callHost[k + 1].frames,
           callHost[k].kind # "handler" => k < Len(callHost),
           callHost' = SubSeq(callHost, 1, k), callStack' = SubSeq(callStack, 1, m)
    PROVE  Calls!StackSound(b)' /\ m \in Nat /\ b <= m /\ m <= Len(callStack) /\ Len(callStack') = m
<1>n. PICK n : n = Len(callHost)
  OBVIOUS
<1>1. n \in Nat /\ DOMAIN callHost = 1..n /\ k \in 1..n
  BY <1>n, HostTypes
<1>2. DOMAIN callHost' = 1..k /\ Len(callHost') = k /\ \A j \in 1..k : callHost'[j] = callHost[j]
  BY <1>1, <1>n, HostCut
<1>t. \A j \in 1..n : callHost[j].kind = "handler" => callHost[j].frames \in Nat
  BY <1>1, HostTypes
<1>3. \A j \in 1..n : callHost[j].kind = "handler" => HandlerOn(b, j)
  BY <1>1 DEF Calls!StackSound, HandlerOn
<1>4. \A j \in 1..n : callHost[j].kind # "handler" => CallOn(b, j)
  BY <1>1 DEF Calls!StackSound, CallOn
<1>5. ASSUME NEW j \in 1..n, callHost[j].kind # "handler", j < n
      PROVE  j + 1 \in 1..n /\ callHost[j + 1].kind = "handler"
  <2>1. j + 1 \in 1..n /\ j + 1 > 1 /\ (j + 1) - 1 = j
    BY <1>1, <1>5
  <2>2. \A i \in 1..n : i > 1 => (callHost[i].kind = "handler" <=> callHost[i - 1].kind # "handler")
    BY <1>1 DEF Calls!HostSound
  <2> QED
    BY <2>1, <2>2, <1>5
<1>6. PICK top \in 1..n : callHost[top].kind = "handler" /\ m = callHost[top].frames
                          /\ top = IF callHost[k].kind = "handler" THEN k ELSE k + 1
  BY <1>1, <1>5, <1>n
<1>7. m \in Nat /\ b <= m /\ m <= Len(callStack)
  <2>1. HandlerOn(b, top) /\ callHost[top].frames \in Nat
    BY <1>6, <1>t, <1>3
  <2> QED
    BY <2>1, <1>6 DEF HandlerOn
<1>8. \A j \in 1..k : callHost[j].kind = "handler" => callHost[j].frames <= m
  <2> SUFFICES ASSUME NEW j \in 1..k, callHost[j].kind = "handler"
               PROVE  callHost[j].frames <= m
    OBVIOUS
  <2>1. CASE j = top
    BY <2>1, <1>6, <1>7
  <2>2. CASE j < top
    BY <2>2, <1>1, <1>6, <1>3 DEF HandlerOn
  <2> QED
    BY <2>1, <2>2, <1>1, <1>6
<1>9. callStack' \in Seq(Calls!StackFrames) /\ Len(callStack') = m /\ \A j \in 1..m : callStack'[j] = callStack[j]
  <2>1. callStack \in Seq(Calls!StackFrames) /\ m \in 0..Len(callStack)
    BY <1>7 DEF Calls!StackSound
  <2> QED
    BY <2>1, FirstElems
<1>10. ASSUME NEW j \in DOMAIN callHost', callHost'[j].kind = "handler"
       PROVE  HandlerOn(b, j)'
  <2>1. j \in 1..k /\ callHost'[j] = callHost[j] /\ HandlerOn(b, j)
    BY <1>1, <1>2, <1>3, <1>10
  <2>2. \A i \in DOMAIN callHost' : i > j /\ callHost'[i].kind = "handler" => callHost[j].frames <= callHost'[i].frames
    BY <1>1, <1>2, <2>1 DEF HandlerOn
  <2> QED
    BY <1>2, <1>8, <1>9, <1>10, <2>1, <2>2 DEF HandlerOn
<1>11. ASSUME NEW j \in DOMAIN callHost', callHost'[j].kind # "handler"
       PROVE  CallOn(b, j)'
  <2>1. j \in 1..k /\ callHost'[j] = callHost[j] /\ CallOn(b, j) /\ (j > 1 => callHost'[j - 1] = callHost[j - 1])
    BY <1>1, <1>2, <1>4, <1>11
  <2>2. Calls!Base(b, j)' = Calls!Base(b, j)
    BY <2>1, <1>1 DEF Calls!Base
  <2>3. j < n
    BY <2>1, <1>n, <1>1, <1>11
  <2>4. callHost[j + 1].kind = "handler" /\ Calls!Roof(j) = callHost[j + 1].frames
    BY <2>1, <2>3, <1>1, <1>5, <1>11, <1>n DEF Calls!Roof
  <2>5. Calls!Roof(j)' = Calls!Roof(j)
    <3>1. CASE j = k
      BY <3>1, <2>1, <2>4, <1>2, <1>9, <1>11 DEF Calls!Roof
    <3>2. CASE j < k
      <4>1. callHost'[j + 1] = callHost[j + 1]
        BY <3>2, <2>1, <1>1, <1>2
      <4> QED
        BY <3>2, <4>1, <2>4, <1>2 DEF Calls!Roof
    <3> QED
      BY <3>1, <3>2, <2>1, <1>1
  <2>6. Calls!Roof(j) \in Nat /\ Calls!Roof(j) <= m
    <3>1. CASE j = k
      BY <3>1, <2>1, <2>4, <1>7, <1>11
    <3>2. CASE j < k
      BY <3>2, <2>1, <2>4, <1>1, <1>8, <1>t, <2>3
    <3> QED
      BY <3>1, <3>2, <2>1, <1>1
  <2>7. Calls!Base(b, j) \in Nat
    <3>1. j > 1 => callHost[j - 1].kind = "handler"
      BY <2>1, <1>1, <1>11 DEF Calls!HostSound
    <3>2. j \in Nat /\ j >= 1 /\ (j > 1 => j - 1 \in 1..n)
      BY <2>1, <1>1
    <3>3. j > 1 => callHost[j - 1].frames \in Nat
      BY <3>1, <3>2, <1>t
    <3>4. j = 1 \/ j > 1
      BY <3>2
    <3>5. b \in Nat
      BY <1>7
    <3> QED
      BY <3>3, <3>4, <3>5 DEF Calls!Base
  <2>8. ASSUME NEW i \in Calls!Base(b, j) + 1..Calls!Roof(j)
        PROVE  callStack'[i] = callStack[i]
    <3>1. i \in 1..m
      <4>1. PICK x \in Nat : x = Calls!Base(b, j)
        BY <2>7
      <4>2. PICK y \in Nat : y = Calls!Roof(j)
        BY <2>6
      <4>3. i \in x + 1..y /\ y <= m /\ m \in Nat
        BY <4>1, <4>2, <2>6, <1>7
      <4> QED
        BY <4>3
    <3> QED
      BY <3>1, <1>9
  <2>9. Calls!Base(b, j) < Calls!Roof(j)
    BY <2>1, <2>3, <1>n DEF CallOn
  <2>10. \A i \in Calls!Base(b, j) + 1..Calls!Roof(j) : callStack'[i].ret = Calls!Sentinel <=> i = Calls!Base(b, j) + 1
    BY <2>1, <2>8 DEF CallOn
  <2>11. Calls!Base(b, j)' < Calls!Roof(j)' /\ Calls!Base(b, j)' <= Calls!Roof(j)'
    BY <2>2, <2>5, <2>6, <2>7, <2>9
  <2>12. (\A i \in Calls!Base(b, j) + 1..Calls!Roof(j) : callStack[i].ret = Calls!Sentinel <=> i = Calls!Base(b, j) + 1)'
    BY <2>2, <2>5, <2>10 DEF Calls!Sentinel, Calls!TrapAt
  <2> QED
    BY <2>11, <2>12 DEF CallOn
<1> QED
  <2>1. (callStack \in Seq(Calls!StackFrames))'
    BY <1>9 DEF Calls!StackFrames, Calls!Bodies, Calls!Sentinel
  <2> QED
    BY <2>1, <1>7, <1>9, <1>10, <1>11 DEF Calls!StackSound, HandlerOn, CallOn

(* While the guest runs, only frames above Base come and go. *)
LEMMA StackTopChanges ==
    ASSUME Calls!HostSound, NEW b \in 0..Len(callStack), Calls!StackSound(b), Calls!InGuest, UNCHANGED callHost,
           callStack' \in Seq(Calls!StackFrames), Len(callStack') >= Calls!Base(b, Len(callHost)),
           \A j \in 1..Len(callStack') : j <= Len(callStack) => callStack'[j] = callStack[j],
           \A j \in 1..Len(callStack') : j > Len(callStack) =>
               (callStack'[j].ret = Calls!Sentinel <=> j = Calls!Base(b, Len(callHost)) + 1)
    PROVE  Calls!StackSound(b)' /\ b <= Len(callStack')
<1>n. PICK n : n = Len(callHost)
  OBVIOUS
<1>1. n \in Nat /\ DOMAIN callHost = 1..n /\ n \in DOMAIN callHost /\ callHost[n].kind # "handler"
  BY <1>n, HostTypes DEF Calls!InGuest
<1>t. \A j \in 1..n : callHost[j].kind = "handler" => callHost[j].frames \in Nat
  BY <1>1, HostTypes
<1>3. \A j \in 1..n : callHost[j].kind = "handler" => HandlerOn(b, j)
  BY <1>1 DEF Calls!StackSound, HandlerOn
<1>4. \A j \in 1..n : callHost[j].kind # "handler" => CallOn(b, j)
  BY <1>1 DEF Calls!StackSound, CallOn
<1>5. \A j \in 1..n : callHost[j].kind # "handler" =>
          (j > 1 => j - 1 \in 1..n /\ callHost[j - 1].kind = "handler")
          /\ (j < n => j + 1 \in 1..n /\ callHost[j + 1].kind = "handler")
  <2> SUFFICES ASSUME NEW j \in 1..n, callHost[j].kind # "handler"
               PROVE  /\ j > 1 => j - 1 \in 1..n /\ callHost[j - 1].kind = "handler"
                      /\ j < n => j + 1 \in 1..n /\ callHost[j + 1].kind = "handler"
    OBVIOUS
  <2>1. ASSUME j > 1
        PROVE  j - 1 \in 1..n /\ callHost[j - 1].kind = "handler"
    <3>1. j - 1 \in 1..n
      BY <1>1, <2>1
    <3>2. callHost[j].kind = "handler" <=> callHost[j - 1].kind # "handler"
      BY <1>1, <2>1 DEF Calls!HostSound
    <3> QED
      BY <3>1, <3>2
  <2>2. ASSUME j < n
        PROVE  j + 1 \in 1..n /\ callHost[j + 1].kind = "handler"
    <3>1. j + 1 \in 1..n /\ j + 1 > 1 /\ (j + 1) - 1 = j
      BY <1>1, <2>2
    <3> QED
      BY <3>1, <1>1 DEF Calls!HostSound
  <2> QED
    BY <2>1, <2>2
<1>6. Len(callStack) \in Nat /\ Len(callStack') \in Nat
  BY DEF Calls!StackSound
<1>7. \A j \in 1..n : callHost[j].kind # "handler" => Calls!Base(b, j) \in Nat
  BY <1>5, <1>t DEF Calls!Base
<1>8. ASSUME NEW j \in 1..n, callHost[j].kind = "handler"
      PROVE  callHost[j].frames <= Calls!Base(b, n) /\ b <= Calls!Base(b, n)
  <2>1. n > 1 /\ n - 1 \in 1..n /\ callHost[n - 1].kind = "handler" /\ Calls!Base(b, n) = callHost[n - 1].frames
    BY <1>1, <1>5, <1>8 DEF Calls!Base, Calls!HostSound
  <2>2. j < n - 1 \/ j = n - 1
    BY <1>1, <1>8, <2>1
  <2>3. callHost[j].frames <= callHost[n - 1].frames
    <3>1. CASE j < n - 1
      BY <3>1, <2>1, <1>1, <1>3, <1>8 DEF HandlerOn
    <3>2. CASE j = n - 1
      BY <3>2, <1>8, <1>t
    <3> QED
      BY <3>1, <3>2, <2>2
  <2> QED
    BY <2>1, <2>3, <1>3 DEF HandlerOn
<1>9. b <= Calls!Base(b, n)
  <2>1. CASE n = 1
    BY <2>1 DEF Calls!Base
  <2>2. CASE n # 1
    <3>1. n > 1 /\ n - 1 \in 1..n
      BY <2>2, <1>1
    <3>2. callHost[n - 1].kind = "handler"
      BY <3>1, <1>1, <1>5
    <3> QED
      BY <3>1, <3>2, <1>8
  <2> QED
    BY <2>1, <2>2
<1>10. ASSUME NEW j \in 1..n, callHost[j].kind = "handler"
       PROVE  HandlerOn(b, j)'
  <2>1. callHost[j].frames <= Len(callStack')
    BY <1>8, <1>10, <1>6, <1>7, <1>1, <1>t, <1>n
  <2> QED
    BY <2>1, <1>3, <1>10 DEF HandlerOn
<1>11. ASSUME NEW j \in 1..n, callHost[j].kind # "handler", j < n
       PROVE  CallOn(b, j)'
  <2>1. Calls!Base(b, j)' = Calls!Base(b, j) /\ Calls!Roof(j)' = Calls!Roof(j) /\ Calls!Roof(j) = callHost[j + 1].frames
    BY <1>11, <1>n DEF Calls!Base, Calls!Roof
  <2>2. Calls!Roof(j) \in Nat /\ Calls!Roof(j) <= Calls!Base(b, n) /\ Calls!Roof(j) <= Len(callStack) /\ Calls!Base(b, n) \in Nat
    BY <2>1, <1>5, <1>8, <1>11, <1>t, <1>3, <1>7, <1>1 DEF HandlerOn
  <2>3. ASSUME NEW i \in Calls!Base(b, j) + 1..Calls!Roof(j)
        PROVE  callStack'[i] = callStack[i]
    <3>1. i \in 1..Len(callStack') /\ i <= Len(callStack)
      BY <2>2, <2>3, <1>6, <1>7, <1>11, <1>n
    <3> QED
      BY <3>1
  <2>4. CallOn(b, j)
    BY <1>4, <1>11
  <2>5. (\A i \in Calls!Base(b, j) + 1..Calls!Roof(j) : callStack[i].ret = Calls!Sentinel <=> i = Calls!Base(b, j) + 1)'
    BY <2>1, <2>3, <2>4 DEF CallOn, Calls!Sentinel, Calls!TrapAt
  <2> QED
    BY <2>1, <2>4, <2>5, <1>n, <1>11 DEF CallOn
<1>12. CallOn(b, n)'
  <2>1. Calls!Base(b, n)' = Calls!Base(b, n) /\ Calls!Roof(n)' = Len(callStack') /\ Calls!Roof(n) = Len(callStack)
    BY <1>1, <1>n DEF Calls!Base, Calls!Roof
  <2>2. CallOn(b, n)
    BY <1>1, <1>4
  <2>3. ASSUME NEW i \in Calls!Base(b, n) + 1..Len(callStack')
        PROVE  callStack'[i].ret = Calls!Sentinel <=> i = Calls!Base(b, n) + 1
    <3>1. i \in 1..Len(callStack') /\ Calls!Base(b, n) \in Nat
      BY <1>1, <1>6, <1>7
    <3>2. CASE i <= Len(callStack)
      <4>1. callStack'[i] = callStack[i] /\ i \in Calls!Base(b, n) + 1..Calls!Roof(n)
        BY <3>1, <3>2, <2>1, <1>6
      <4> QED
        BY <4>1, <2>2 DEF CallOn
    <3>3. CASE i > Len(callStack)
      BY <3>1, <3>3, <1>n
    <3> QED
      BY <3>1, <3>2, <3>3, <1>6
  <2>4. (\A i \in Calls!Base(b, n) + 1..Calls!Roof(n) : callStack[i].ret = Calls!Sentinel <=> i = Calls!Base(b, n) + 1)'
    BY <2>1, <2>3 DEF Calls!Sentinel, Calls!TrapAt
  <2> QED
    BY <2>1, <2>4, <1>n DEF CallOn
<1>13. (callStack \in Seq(Calls!StackFrames))'
  BY DEF Calls!StackFrames, Calls!Bodies, Calls!Sentinel
<1>14. b <= Len(callStack')
  BY <1>9, <1>6, <1>7, <1>1, <1>n
<1>15. \A j \in DOMAIN callHost' : (callHost'[j].kind = "handler" => HandlerOn(b, j)')
                               /\ (callHost'[j].kind # "handler" => CallOn(b, j)')
  <2> SUFFICES ASSUME NEW j \in 1..n
               PROVE  /\ callHost[j].kind = "handler" => HandlerOn(b, j)'
                      /\ callHost[j].kind # "handler" => CallOn(b, j)'
    BY <1>1
  <2>1. CASE j = n
    BY <2>1, <1>1, <1>12
  <2>2. CASE j < n
    BY <2>2, <1>10, <1>11
  <2> QED
    BY <2>1, <2>2, <1>1
<1> QED
  BY <1>13, <1>14, <1>15 DEF Calls!StackSound, HandlerOn, CallOn

(* The kinds of addresses are apart. *)
LEMMA AddressKinds ==
    ASSUME NEW a
    PROVE  /\ a \in Calls!Bodies => a.is = "body" /\ a # Calls!Sentinel
           /\ a \in {Calls!Entry(f) : f \in GuestFunctions} => a.is = "entry" /\ a # Calls!Sentinel /\ Calls!Body(a.n) \in Calls!Bodies
           /\ a \in {Calls!TrapAt(i) : i \in Calls!Traps} => a.is = "trap" /\ a.n \in Calls!Traps /\ a = Calls!TrapAt(a.n)
  BY DEF Calls!Bodies, Calls!Body, Calls!Entry, Calls!TrapAt, Calls!Sentinel

LEMMA TrapKinds ==
    ASSUME Calls!CallsBounds
    PROVE  /\ Calls!Sentinel.is = "trap" /\ Calls!Sentinel \in {Calls!TrapAt(i) : i \in Calls!Traps}
           /\ \A i \in Calls!Traps \ {0} : Calls!TrapAt(i) # Calls!Sentinel
           /\ \A i \in 1..CallSlots : i \in Calls!Traps /\ Calls!TrapAt(i).n = i
           /\ Calls!Body("host").is = "body"
  BY DEF Calls!CallsBounds, Calls!Body, Calls!TrapAt, Calls!Sentinel, Calls!Traps

(* Where a running function is. *)
LEMMA RunningBody ==
    ASSUME Calls!CallsTyped, NEW f \in GuestFunctions, Calls!Running(f), NEW b, Calls!AtGuest(b)
    PROVE  callPc \in Calls!Bodies /\ callPc.is = "body" /\ Calls!InGuest /\ Len(callStack) > Calls!Base(b, Len(callHost))
<1>1. callPc \in Calls!Bodies /\ Calls!InGuest
  BY DEF Calls!Running, Calls!Bodies
<1>2. callPc.is = "body" /\ callPc # Calls!Sentinel
  BY <1>1, AddressKinds
<1>3. callPc \notin {Calls!Entry(g) : g \in GuestFunctions} /\ callPc \notin {Calls!TrapAt(i) : i \in Calls!Traps}
  BY <1>2, AddressKinds
<1> QED
  BY <1>1, <1>2, <1>3 DEF Calls!AtGuest

(* The host's and the guest's stack stand, and so does what lies on them. *)
LEMMA StacksStand ==
    ASSUME Calls!HostSound, NEW b, Calls!StackSound(b), UNCHANGED <<callHost, callStack>>
    PROVE  Calls!HostSound' /\ Calls!StackSound(b)' /\ Calls!Base(b, Len(callHost))' = Calls!Base(b, Len(callHost))
<1>1. Calls!HostSound'
  BY DEF Calls!HostSound, Calls!HostFrames, Calls!Bodies, Calls!Traps
<1>2. Calls!StackSound(b)'
  BY DEF Calls!StackSound, Calls!StackFrames, Calls!Bodies, Calls!Sentinel, Calls!Base,
     Calls!Roof
<1> QED
  BY <1>1, <1>2 DEF Calls!Base

LEMMA GuestCallKeeps ==
    ASSUME Calls!CallsTyped, Calls!HostSound, Calls!AtHandler, NEW b, Calls!StackSound(b), Calls!AtGuest(b), Calls!GuestCall
    PROVE  Calls!CallsTyped' /\ Calls!HostSound' /\ Calls!AtHandler' /\ Calls!StackSound(b)' /\ Calls!AtGuest(b)'
<1>1. PICK f \in GuestFunctions, g \in GuestFunctions :
          /\ Calls!Running(f) /\ callLr' = Calls!Body(f) /\ callPc' = Calls!Entry(g) /\ Calls!OnCall(Calls!Entry(g))
          /\ UNCHANGED <<callR4, callStack, callHost, callExact>>
  BY DEF Calls!GuestCall
<1>2. Calls!HostSound' /\ Calls!StackSound(b)' /\ Calls!Base(b, Len(callHost))' = Calls!Base(b, Len(callHost))
  BY <1>1, StacksStand
<1>3. Calls!InGuest /\ Len(callStack) > Calls!Base(b, Len(callHost))
  BY <1>1, RunningBody
<1>4. Calls!InGuest' /\ Calls!AtHandler'
  BY <1>1, <1>3 DEF Calls!InGuest, Calls!AtHandler, Calls!Top
<1>5. callPc' \in {Calls!Entry(h) : h \in GuestFunctions} /\ callLr' \in Calls!Bodies
  BY <1>1 DEF Calls!Bodies
<1>6. Calls!AtGuest(b)'
  BY <1>1, <1>2, <1>3, <1>5 DEF Calls!AtGuest, Calls!Bodies
<1>7. callShadow' = Append(callShadow, Calls!Entry(g)) /\ Calls!Entry(g) \in {Calls!Entry(h) : h \in GuestFunctions}
  BY <1>1 DEF Calls!OnCall
<1>8. callShadow' \in Seq(Calls!TraceFrames)
  BY <1>7 DEF Calls!CallsTyped, Calls!TraceFrames
<1>9. Calls!CallsTyped'
  BY <1>1, <1>5, <1>8 DEF Calls!CallsTyped, Calls!TraceFrames, Calls!Bodies, Calls!Traps,
     Calls!Sentinel
<1> QED
  BY <1>2, <1>4, <1>6, <1>9

LEMMA GuestTrapKeeps ==
    ASSUME Calls!CallsTyped, Calls!HostSound, Calls!AtHandler, NEW b, Calls!StackSound(b), Calls!AtGuest(b), Calls!GuestTrap
    PROVE  Calls!CallsTyped' /\ Calls!HostSound' /\ Calls!AtHandler' /\ Calls!StackSound(b)' /\ Calls!AtGuest(b)'
<1>1. PICK f \in GuestFunctions, i \in Calls!Traps \ {0} :
          /\ Calls!Running(f) /\ callLr' = Calls!Body(f) /\ callPc' = Calls!TrapAt(i)
          /\ UNCHANGED <<callR4, callStack, callHost, callShadow, callExact>>
  BY DEF Calls!GuestTrap
<1>2. Calls!HostSound' /\ Calls!StackSound(b)' /\ Calls!Base(b, Len(callHost))' = Calls!Base(b, Len(callHost))
  BY <1>1, StacksStand
<1>3. Calls!InGuest /\ Len(callStack) > Calls!Base(b, Len(callHost))
  BY <1>1, RunningBody
<1>4. Calls!InGuest' /\ Calls!AtHandler'
  BY <1>1, <1>3 DEF Calls!InGuest, Calls!AtHandler, Calls!Top
<1>5. callPc' \in {Calls!TrapAt(j) : j \in Calls!Traps \ {0}} /\ callPc' \in {Calls!TrapAt(j) : j \in Calls!Traps} /\ callLr' \in Calls!Bodies
  BY <1>1 DEF Calls!Bodies
<1>6. Calls!AtGuest(b)'
  BY <1>1, <1>2, <1>3, <1>5 DEF Calls!AtGuest, Calls!Bodies, Calls!Traps
<1>9. Calls!CallsTyped'
  BY <1>1, <1>5 DEF Calls!CallsTyped, Calls!TraceFrames, Calls!Bodies, Calls!Traps,
     Calls!Sentinel
<1> QED
  BY <1>2, <1>4, <1>6, <1>9

LEMMA BaseType ==
    ASSUME Calls!HostSound, Calls!InGuest, NEW b \in Nat
    PROVE  Calls!Base(b, Len(callHost)) \in Nat
<1>1. Len(callHost) \in Nat \ {0}
  BY HostTypes DEF Calls!InGuest
<1>2. CASE Len(callHost) = 1
  BY <1>2 DEF Calls!Base
<1>3. CASE Len(callHost) # 1
  <2>1. Len(callHost) - 1 \in DOMAIN callHost /\ Len(callHost) \in DOMAIN callHost /\ Len(callHost) > 1
    BY <1>1, <1>3, HostTypes
  <2>2. callHost[Len(callHost) - 1].kind = "handler"
    BY <2>1 DEF Calls!HostSound, Calls!InGuest, Calls!Top
  <2> QED
    BY <2>1, <2>2, HostTypes DEF Calls!Base
<1> QED
  BY <1>2, <1>3

LEMMA EnterKeeps ==
    ASSUME Calls!CallsBounds, Calls!CallsTyped, Calls!HostSound, Calls!AtHandler, NEW b \in 0..Len(callStack), Calls!StackSound(b),
           Calls!AtGuest(b), Calls!Enter
    PROVE  Calls!CallsTyped' /\ Calls!HostSound' /\ Calls!AtHandler' /\ Calls!StackSound(b)' /\ Calls!AtGuest(b)' /\ b <= Len(callStack')
<1>1. /\ Calls!InGuest /\ callPc.is = "entry" /\ Len(callStack) < MaxCallDepth + 1
      /\ callStack' = Append(callStack, [ret |-> callLr, r4 |-> callR4]) /\ callPc' = Calls!Body(callPc.n) /\ callR4' = 1 - callR4
      /\ UNCHANGED <<callLr, callHost, callShadow, callExact>>
  BY DEF Calls!Enter
<1>2. callPc \notin Calls!Bodies /\ callPc \notin {Calls!TrapAt(i) : i \in Calls!Traps} /\ callPc # Calls!Sentinel
  BY <1>1, AddressKinds, TrapKinds
<1>3. callPc \in {Calls!Entry(f) : f \in GuestFunctions}
      /\ (\/ callLr = Calls!Sentinel /\ Len(callStack) = Calls!Base(b, Len(callHost))
          \/ callLr \in Calls!Bodies /\ Len(callStack) > Calls!Base(b, Len(callHost)))
  BY <1>1, <1>2 DEF Calls!AtGuest
<1>4. callPc' \in Calls!Bodies /\ callLr \in Calls!Bodies \cup {Calls!Sentinel}
      /\ (callLr = Calls!Sentinel <=> Len(callStack) = Calls!Base(b, Len(callHost)))
      /\ Len(callStack) >= Calls!Base(b, Len(callHost))
  <2>1. Len(callStack) \in Nat
    BY DEF Calls!StackSound
  <2>2. callPc' \in Calls!Bodies
    BY <1>1, <1>3, AddressKinds
  <2>3. callLr \in Calls!Bodies => callLr # Calls!Sentinel
    BY AddressKinds
  <2>4. Calls!Base(b, Len(callHost)) \in Nat
    BY <1>1, BaseType
  <2> QED
    BY <1>3, <2>1, <2>2, <2>3, <2>4
<1>5. Calls!HostSound'
  BY <1>1 DEF Calls!HostSound, Calls!HostFrames, Calls!Bodies, Calls!Traps
<1>6. callStack \in Seq(Calls!StackFrames) /\ [ret |-> callLr, r4 |-> callR4] \in Calls!StackFrames
  BY <1>4 DEF Calls!StackSound, Calls!StackFrames, Calls!CallsTyped, Calls!TraceFrames
<1>7. /\ callStack' \in Seq(Calls!StackFrames) /\ Len(callStack') = Len(callStack) + 1 /\ Len(callStack) \in Nat
      /\ \A j \in 1..Len(callStack) : callStack'[j] = callStack[j]
      /\ callStack'[Len(callStack) + 1].ret = callLr
  BY <1>1, <1>6
<1>8. Calls!Base(b, Len(callHost)) \in Nat
  BY <1>1, BaseType
<1>9. Calls!StackSound(b)' /\ b <= Len(callStack')
  <2>1. /\ Len(callStack') >= Calls!Base(b, Len(callHost))
        /\ \A j \in 1..Len(callStack') : j <= Len(callStack) => callStack'[j] = callStack[j]
        /\ \A j \in 1..Len(callStack') : j > Len(callStack) =>
               (callStack'[j].ret = Calls!Sentinel <=> j = Calls!Base(b, Len(callHost)) + 1)
    BY <1>4, <1>7, <1>8
  <2> QED
    BY <1>1, <1>7, <2>1, StackTopChanges
<1>10. Calls!InGuest' /\ Calls!AtHandler'
  BY <1>1 DEF Calls!InGuest, Calls!AtHandler, Calls!Top
<1>11. Calls!Base(b, Len(callHost))' = Calls!Base(b, Len(callHost))
  BY <1>1 DEF Calls!Base
<1>12. Calls!AtGuest(b)'
  BY <1>4, <1>7, <1>8, <1>11 DEF Calls!AtGuest, Calls!Bodies
<1>13. callR4' \in {0, 1} /\ Len(callStack') <= MaxCallDepth + 1
  BY <1>1, <1>7 DEF Calls!CallsTyped, Calls!TraceFrames, Calls!CallsBounds
<1>14. Calls!CallsTyped'
  BY <1>1, <1>4, <1>13 DEF Calls!CallsTyped, Calls!TraceFrames, Calls!Bodies, Calls!Traps,
     Calls!Sentinel
<1> QED
  BY <1>5, <1>9, <1>10, <1>12, <1>14

LEMMA TraceShrinks ==
    ASSUME callShadow \in Seq(Calls!TraceFrames), Calls!OnReturn
    PROVE  /\ callShadow' \in Seq(Calls!TraceFrames)
           /\ callShadow = <<>> => callShadow' = <<>>
           /\ callShadow # <<>> => /\ Len(callShadow) \in Nat \ {0} /\ Len(callShadow') = Len(callShadow) - 1
                              /\ \A j \in 1..Len(callShadow) - 1 : callShadow'[j] = callShadow[j]
<1>1. CASE callShadow = <<>>
  BY <1>1 DEF Calls!OnReturn
<1>2. CASE callShadow # <<>>
  <2>1. PICK n : n = Len(callShadow) - 1
    OBVIOUS
  <2>2. Len(callShadow) \in Nat \ {0} /\ n \in 0..Len(callShadow)
    BY <1>2, <2>1
  <2>3. callShadow' = SubSeq(callShadow, 1, n)
    BY <1>2, <2>1 DEF Calls!OnReturn, Calls!Popped
  <2>4. callShadow' \in Seq(Calls!TraceFrames) /\ Len(callShadow') = n /\ \A j \in 1..n : callShadow'[j] = callShadow[j]
    BY <2>2, <2>3, FirstElems
  <2> QED
    BY <1>2, <2>1, <2>2, <2>4
<1> QED
  BY <1>1, <1>2

LEMMA GuestReturnKeeps ==
    ASSUME Calls!CallsBounds, Calls!CallsTyped, Calls!HostSound, Calls!AtHandler, NEW b \in 0..Len(callStack), Calls!StackSound(b),
           Calls!AtGuest(b), Calls!GuestReturn
    PROVE  /\ Calls!CallsTyped' /\ Calls!HostSound' /\ Calls!AtHandler' /\ Calls!StackSound(b)' /\ Calls!AtGuest(b)' /\ b <= Len(callStack')
           /\ callPc' \in Calls!Bodies \cup {Calls!Sentinel} /\ Len(callStack') = Len(callStack) - 1
           /\ callPc' = Calls!Sentinel <=> Len(callStack) - 1 = Calls!Base(b, Len(callHost))
<1>1. PICK f \in GuestFunctions :
        /\ Calls!Running(f) /\ callPc' = Calls!Top(callStack).ret /\ callR4' = Calls!Top(callStack).r4 /\ callStack' = Calls!Popped(callStack)
        /\ Calls!OnReturn /\ UNCHANGED <<callLr, callHost>>
        /\ callExact' = (callExact /\ (Calls!Top(callStack).ret # Calls!Sentinel \/ callShadow = <<>>))
  BY DEF Calls!GuestReturn
<1>l. PICK l \in Nat : l = Len(callStack)
  BY DEF Calls!StackSound
<1>2. Calls!InGuest /\ l > Calls!Base(b, Len(callHost))
  BY <1>1, <1>l, RunningBody
<1>3. Calls!Base(b, Len(callHost)) \in Nat /\ l # 0 /\ l - 1 \in 0..l
  BY <1>2, BaseType
<1>4. callStack \in Seq(Calls!StackFrames) /\ callStack' = SubSeq(callStack, 1, l - 1) /\ l \in DOMAIN callStack
      /\ Calls!Top(callStack) = callStack[l]
  BY <1>1, <1>3, <1>l DEF Calls!StackSound, Calls!Popped, Calls!Top
<1>5. callStack' \in Seq(Calls!StackFrames) /\ Len(callStack') = l - 1 /\ \A j \in 1..l - 1 : callStack'[j] = callStack[j]
  BY <1>3, <1>4, <1>l, FirstElems
<1>6. Calls!HostSound'
  BY <1>1 DEF Calls!HostSound, Calls!HostFrames, Calls!Bodies, Calls!Traps
<1>7. Calls!StackSound(b)' /\ b <= Len(callStack')
  <2>1. /\ Len(callStack') >= Calls!Base(b, Len(callHost))
        /\ \A j \in 1..Len(callStack') : j <= Len(callStack) => callStack'[j] = callStack[j]
        /\ \A j \in 1..Len(callStack') : j > Len(callStack) =>
               (callStack'[j].ret = Calls!Sentinel <=> j = Calls!Base(b, Len(callHost)) + 1)
    BY <1>2, <1>3, <1>5, <1>l
  <2> QED
    BY <1>1, <1>2, <1>5, <2>1, StackTopChanges
<1>8. Calls!InGuest' /\ Calls!AtHandler' /\ Calls!Base(b, Len(callHost))' = Calls!Base(b, Len(callHost))
  BY <1>1, <1>2 DEF Calls!InGuest, Calls!AtHandler, Calls!Top, Calls!Base
<1>9. callStack[l] \in Calls!StackFrames /\ (callStack[l].ret = Calls!Sentinel <=> l = Calls!Base(b, Len(callHost)) + 1)
  <2>1. Len(callHost) \in DOMAIN callHost /\ callHost[Len(callHost)].kind # "handler"
    BY <1>2, HostTypes DEF Calls!InGuest
  <2>2. Calls!Roof(Len(callHost)) = l
    BY <2>1, <1>l, HostTypes DEF Calls!Roof
  <2>3. CallOn(b, Len(callHost))
    BY <2>1 DEF Calls!StackSound, CallOn
  <2>4. l \in Calls!Base(b, Len(callHost)) + 1..Calls!Roof(Len(callHost))
    BY <1>2, <1>3, <2>2
  <2>5. callStack[l] \in Calls!StackFrames
    BY <1>4
  <2> QED
    BY <2>3, <2>4, <2>5 DEF CallOn
<1>10. callPc' \in Calls!Bodies \cup {Calls!Sentinel} /\ callR4' \in {0, 1} /\ (callPc' = Calls!Sentinel <=> l - 1 = Calls!Base(b, Len(callHost)))
  <2>1. callStack[l].ret \in Calls!Bodies \cup {Calls!Sentinel} /\ callStack[l].r4 \in {0, 1}
    BY <1>9 DEF Calls!StackFrames
  <2> QED
    BY <1>1, <1>3, <1>4, <1>9, <2>1
<1>11. Calls!AtGuest(b)'
  <2>1. CASE callPc' = Calls!Sentinel
    BY <2>1, <1>5, <1>8, <1>10 DEF Calls!AtGuest, Calls!Sentinel, Calls!TrapAt
  <2>2. CASE callPc' # Calls!Sentinel
    <3>1. callPc' \in Calls!Bodies /\ Len(callStack') > Calls!Base(b, Len(callHost))
      BY <2>2, <1>2, <1>3, <1>5, <1>10
    <3> QED
      BY <3>1, <1>8 DEF Calls!AtGuest, Calls!Bodies
  <2> QED
    BY <2>1, <2>2
<1>12. callShadow' \in Seq(Calls!TraceFrames)
  BY <1>1, TraceShrinks DEF Calls!CallsTyped, Calls!TraceFrames
<1>13. Len(callStack') <= MaxCallDepth + 1 /\ callExact' \in BOOLEAN
  BY <1>1, <1>5, <1>3, <1>l DEF Calls!CallsTyped, Calls!TraceFrames, Calls!CallsBounds
<1>14. callPc' \in Calls!Bodies \cup {Calls!TrapAt(i) : i \in Calls!Traps}
  BY <1>10, TrapKinds
<1>15. Calls!CallsTyped'
  BY <1>1, <1>10, <1>12, <1>13, <1>14 DEF Calls!CallsTyped, Calls!TraceFrames, Calls!Bodies,
     Calls!Traps, Calls!Sentinel
<1> QED
  BY <1>5, <1>6, <1>7, <1>8, <1>10, <1>11, <1>15, <1>l

LEMMA CallFromMainKeeps ==
    ASSUME Calls!CallsBounds, Calls!CallsTyped, Calls!HostSound, NEW c \in 0..Len(callStack), Calls!StackSound(c), Calls!CallFromMain,
           NEW b, b = Len(callStack)
    PROVE  Calls!CallsTyped' /\ Calls!HostSound' /\ Calls!AtHandler' /\ Calls!StackSound(b)' /\ Calls!AtGuest(b)' /\ b \in 0..Len(callStack')
<1>1. PICK f \in GuestFunctions :
        /\ callHost = <<>> /\ callPc' = Calls!Entry(f) /\ callLr' = Calls!Sentinel /\ callHost' = <<[kind |-> "call"]>>
        /\ UNCHANGED <<callR4, callStack, callShadow, callExact>>
  BY DEF Calls!CallFromMain
<1>2. Len(callHost') = 1 /\ DOMAIN callHost' = {1} /\ callHost'[1] = [kind |-> "call"] /\ callHost' # <<>>
  BY <1>1
<1>3. [kind |-> "call"] \in Calls!HostFrames
  BY DEF Calls!HostFrames
<1>4. callHost' \in Seq(Calls!HostFrames)
  BY <1>1, <1>3
<1>5. Calls!HostSound'
  BY <1>2, <1>4 DEF Calls!HostSound, Calls!HostFrames, Calls!Bodies, Calls!Traps
<1>6. Calls!Base(b, 1)' = b /\ Calls!Roof(1)' = b /\ Calls!InGuest' /\ Calls!AtHandler' /\ Calls!Base(b, Len(callHost))' = b
  BY <1>1, <1>2 DEF Calls!Base, Calls!Roof, Calls!InGuest, Calls!AtHandler, Calls!Top
<1>7. callStack' \in Seq(Calls!StackFrames) /\ b \in Nat /\ Len(callStack') = b
  BY <1>1 DEF Calls!StackSound
<1>8. CallOn(b, 1)'
  BY <1>2, <1>6, <1>7 DEF CallOn
<1>9. (callStack \in Seq(Calls!StackFrames))'
  BY <1>7 DEF Calls!StackFrames, Calls!Bodies, Calls!Sentinel
<1>10. Calls!StackSound(b)'
  BY <1>2, <1>8, <1>9 DEF Calls!StackSound, CallOn
<1>11. callPc' \in {Calls!Entry(h) : h \in GuestFunctions}
  BY <1>1
<1>12. Calls!AtGuest(b)'
  BY <1>1, <1>6, <1>7, <1>11 DEF Calls!AtGuest, Calls!Sentinel
<1>13. Calls!CallsTyped'
  BY <1>1, <1>2, <1>11 DEF Calls!CallsTyped, Calls!TraceFrames, Calls!Bodies, Calls!Traps,
     Calls!Sentinel, Calls!CallsBounds
<1> QED
  BY <1>5, <1>6, <1>7, <1>10, <1>12, <1>13

LEMMA CallFromHandlerKeeps ==
    ASSUME Calls!CallsBounds, Calls!CallsTyped, Calls!HostSound, Calls!AtHandler, NEW b \in 0..Len(callStack), Calls!StackSound(b),
           Calls!CallFromHandler
    PROVE  Calls!CallsTyped' /\ Calls!HostSound' /\ Calls!AtHandler' /\ Calls!StackSound(b)' /\ Calls!AtGuest(b)'
<1>h. PICK h : h = [kind |-> "preserve", saved |-> Calls!Saved]
  OBVIOUS
<1>1. PICK f \in GuestFunctions :
        /\ callHost # <<>> /\ Calls!Top(callHost).kind = "handler" /\ Len(callHost) < MaxCallDepth
        /\ callPc' = Calls!Entry(f) /\ callLr' = Calls!Sentinel /\ callHost' = Append(callHost, h)
        /\ UNCHANGED <<callR4, callStack, callShadow, callExact>>
  BY <1>h DEF Calls!CallFromHandler
<1>2. /\ Len(callHost) \in Nat /\ Len(callHost) \in DOMAIN callHost /\ Calls!Top(callHost) = callHost[Len(callHost)]
      /\ Calls!Top(callHost).back \in Calls!Bodies /\ Calls!Top(callHost).frames \in Nat
  BY <1>1, HostTypes
<1>3. /\ callLr = Calls!Top(callHost).back /\ callR4 = Calls!Top(callHost).r4 /\ Len(callStack) = Calls!Top(callHost).frames
      /\ callPc \in {Calls!TrapAt(i) : i \in Calls!Traps}
  BY <1>1 DEF Calls!AtHandler
<1>4. h.kind = "preserve" /\ h.saved = [pc |-> callPc, lr |-> callLr, r4 |-> callR4]
  BY <1>h DEF Calls!Saved
<1>5. h \in Calls!HostFrames
  <2>1. [pc |-> callPc, lr |-> callLr, r4 |-> callR4] \in [pc : {Calls!TrapAt(i) : i \in Calls!Traps}, lr : Calls!Bodies, r4 : {0, 1}]
    BY <1>2, <1>3 DEF Calls!CallsTyped, Calls!TraceFrames
  <2> QED
    BY <2>1, <1>h DEF Calls!HostFrames, Calls!Saved
<1>6. h.saved.lr = Calls!Top(callHost).back /\ h.saved.r4 = Calls!Top(callHost).r4
  BY <1>3, <1>4
<1>7. Calls!HostSound'
  BY <1>1, <1>4, <1>5, <1>6, HostPushed
<1>8. Calls!StackSound(b)'
  BY <1>1, <1>3, <1>4, <1>5, StackUnderPush
<1>9. /\ Len(callHost') = Len(callHost) + 1 /\ callHost'[Len(callHost) + 1] = h /\ callHost'[Len(callHost)] = callHost[Len(callHost)]
      /\ callHost' # <<>>
  BY <1>1, <1>2 DEF Calls!HostSound
<1>10. Calls!InGuest' /\ Calls!AtHandler'
  BY <1>4, <1>9 DEF Calls!InGuest, Calls!AtHandler, Calls!Top
<1>11. Calls!Base(b, Len(callHost))' = Len(callStack)
  <2>1. Len(callHost') # 1 /\ Len(callHost') - 1 = Len(callHost)
    BY <1>1, <1>2, <1>9, HostTypes
  <2> QED
    BY <2>1, <1>2, <1>3, <1>9 DEF Calls!Base
<1>12. callPc' \in {Calls!Entry(g) : g \in GuestFunctions}
  BY <1>1
<1>13. Calls!AtGuest(b)'
  BY <1>1, <1>11, <1>12 DEF Calls!AtGuest, Calls!Sentinel
<1>14. Calls!CallsTyped'
  BY <1>1, <1>2, <1>9, <1>12 DEF Calls!CallsTyped, Calls!TraceFrames, Calls!Bodies,
     Calls!Traps, Calls!Sentinel, Calls!CallsBounds
<1> QED
  BY <1>7, <1>8, <1>10, <1>13, <1>14

LEMMA DispatchKeeps ==
    ASSUME Calls!CallsBounds, Calls!CallsTyped, Calls!HostSound, Calls!AtHandler, NEW b \in 0..Len(callStack), Calls!StackSound(b),
           Calls!AtGuest(b), Calls!Dispatch
    PROVE  Calls!CallsTyped' /\ Calls!HostSound' /\ Calls!AtHandler' /\ Calls!StackSound(b)' /\ Calls!AtGuest(b)'
<1>1. Calls!InGuest /\ callPc.is = "trap" /\ callPc # Calls!Sentinel /\ UNCHANGED <<callLr, callR4, callStack, callExact>>
  BY DEF Calls!Dispatch
<1>2. callPc \notin Calls!Bodies /\ callPc \notin {Calls!Entry(f) : f \in GuestFunctions}
  BY <1>1, AddressKinds
<1>3. callPc \in {Calls!TrapAt(i) : i \in Calls!Traps \ {0}} /\ callLr \in Calls!Bodies /\ Len(callStack) > Calls!Base(b, Len(callHost))
  BY <1>1, <1>2 DEF Calls!AtGuest
<1>4. callPc \in {Calls!TrapAt(i) : i \in Calls!Traps}
  BY <1>3
<1>5. CASE Calls!Implemented(callPc.n)
  <2>h. PICK h : h = [kind |-> "handler", slot |-> callPc.n, back |-> callLr, r4 |-> callR4,
                      depth |-> Len(callShadow), frames |-> Len(callStack)]
    OBVIOUS
  <2>1. Len(callHost) < MaxCallDepth /\ callHost' = Append(callHost, h) /\ callShadow' = Append(callShadow, callPc) /\ callPc' = callPc
    BY <1>5, <2>h DEF Calls!Dispatch, Calls!OnCall
  <2>2. /\ Len(callHost) \in Nat /\ Len(callHost) \in DOMAIN callHost /\ Calls!Top(callHost) = callHost[Len(callHost)]
        /\ callHost # <<>> /\ Calls!Top(callHost).kind # "handler"
    BY <1>1, HostTypes DEF Calls!InGuest
  <2>3. /\ h.kind = "handler" /\ h.back = callLr /\ h.r4 = callR4 /\ h.frames = Len(callStack)
        /\ h.depth = Len(callShadow)
    BY <2>h
  <2>4. h \in Calls!HostFrames
    <3>1. Len(callShadow) \in Nat /\ Len(callStack) \in Nat /\ callPc.n \in 1..CallSlots
      BY <1>5 DEF Calls!CallsTyped, Calls!TraceFrames, Calls!StackSound, Calls!Implemented
    <3> QED
      BY <2>h, <3>1, <1>3 DEF Calls!HostFrames, Calls!CallsTyped, Calls!TraceFrames
  <2>5. Calls!HostSound'
    BY <2>1, <2>2, <2>3, <2>4, HostPushed
  <2>6. Calls!StackSound(b)'
    BY <2>1, <2>2, <2>3, <2>4, <1>1, <1>3, StackUnderPush
  <2>7. Len(callHost') = Len(callHost) + 1 /\ callHost'[Len(callHost) + 1] = h /\ callHost' # <<>>
    BY <2>1, <2>2 DEF Calls!HostSound
  <2>8. ~Calls!InGuest' /\ Calls!AtHandler'
    BY <2>1, <2>3, <2>7, <1>1, <1>4 DEF Calls!InGuest, Calls!AtHandler, Calls!Top, Calls!Traps
  <2>9. Calls!AtGuest(b)'
    BY <2>8 DEF Calls!AtGuest
  <2>10. callShadow' \in Seq(Calls!TraceFrames)
    BY <2>1, <1>4 DEF Calls!CallsTyped, Calls!TraceFrames
  <2>11. Calls!CallsTyped'
    BY <1>1, <2>1, <2>2, <2>7, <2>10 DEF Calls!CallsTyped, Calls!TraceFrames, Calls!Bodies,
       Calls!Traps, Calls!Sentinel, Calls!CallsBounds
  <2> QED
    BY <2>5, <2>6, <2>8, <2>9, <2>11
<1>6. CASE ~Calls!Implemented(callPc.n)
  <2>1. callPc' = callLr /\ UNCHANGED <<callHost, callShadow>>
    BY <1>6 DEF Calls!Dispatch
  <2>2. Calls!HostSound' /\ Calls!StackSound(b)' /\ Calls!Base(b, Len(callHost))' = Calls!Base(b, Len(callHost))
    BY <1>1, <2>1, StacksStand
  <2>3. Calls!InGuest' /\ Calls!AtHandler'
    BY <1>1, <2>1 DEF Calls!InGuest, Calls!AtHandler, Calls!Top
  <2>4. Calls!AtGuest(b)'
    BY <1>1, <1>3, <2>1, <2>2 DEF Calls!AtGuest, Calls!Bodies
  <2>5. Calls!CallsTyped'
    BY <1>1, <1>3, <2>1 DEF Calls!CallsTyped, Calls!TraceFrames, Calls!Bodies, Calls!Traps,
       Calls!Sentinel
  <2> QED
    BY <2>2, <2>3, <2>4, <2>5
<1> QED
  BY <1>5, <1>6

LEMMA CallReturnsKeeps ==
    ASSUME Calls!CallsBounds, Calls!CallsTyped, Calls!HostSound, Calls!AtHandler, NEW b \in 0..Len(callStack), Calls!StackSound(b),
           Calls!AtGuest(b), Calls!CallReturns
    PROVE  Calls!CallsTyped' /\ Calls!HostSound' /\ Calls!AtHandler' /\ Calls!StackSound(b)' /\ Calls!AtGuest(b)'
<1>n. PICK n : n = Len(callHost)
  OBVIOUS
<1>1. Calls!InGuest /\ callPc = Calls!Sentinel /\ callHost' = Calls!Popped(callHost) /\ UNCHANGED <<callStack, callShadow, callExact>>
  BY DEF Calls!CallReturns
<1>2. /\ n \in Nat /\ n \in DOMAIN callHost /\ DOMAIN callHost = 1..n /\ Calls!Top(callHost) = callHost[n]
      /\ callHost # <<>> /\ callHost[n].kind # "handler"
  BY <1>1, <1>n, HostTypes DEF Calls!InGuest
<1>3. callHost' = SubSeq(callHost, 1, n - 1) /\ n - 1 \in 0..Len(callHost)
  BY <1>1, <1>2, <1>n DEF Calls!Popped
<1>4. Calls!HostSound' /\ Len(callHost') = n - 1 /\ \A j \in 1..n - 1 : callHost'[j] = callHost[j]
  BY <1>3, HostCut
<1>5. callStack \in Seq(Calls!StackFrames) /\ Len(callStack) \in Nat
  BY DEF Calls!StackSound
<1>6. Len(callStack) = Calls!Base(b, n)
  <2>1. callPc \notin Calls!Bodies /\ callPc \notin {Calls!Entry(f) : f \in GuestFunctions}
    BY <1>1, AddressKinds
  <2>2. callPc \notin {Calls!TrapAt(i) : i \in Calls!Traps \ {0}}
    BY <1>1, TrapKinds
  <2> QED
    BY <1>1, <1>n, <2>1, <2>2 DEF Calls!AtGuest
<1>7. CASE callHost[n].kind = "call"
  <2>1. n = 1 /\ UNCHANGED <<callPc, callLr, callR4>>
    BY <1>2, <1>7 DEF Calls!HostSound, Calls!CallReturns
  <2>2. callHost' = <<>> /\ DOMAIN callHost' = {}
    BY <2>1, <1>4 DEF Calls!HostSound
  <2>3. Calls!StackSound(b)'
    BY <2>2, <1>1, <1>5 DEF Calls!StackSound, Calls!StackFrames, Calls!Bodies, Calls!Sentinel
  <2>4. Calls!AtHandler' /\ Calls!AtGuest(b)'
    BY <2>2 DEF Calls!AtHandler, Calls!AtGuest, Calls!InGuest
  <2>5. Calls!CallsTyped'
    BY <2>1, <1>1, <1>2, <1>4 DEF Calls!CallsTyped, Calls!TraceFrames, Calls!Bodies,
       Calls!Traps, Calls!Sentinel, Calls!CallsBounds
  <2> QED
    BY <1>4, <2>3, <2>4, <2>5
<1>8. CASE callHost[n].kind # "call"
  <2>1. /\ callPc' = callHost[n].saved.pc /\ callLr' = callHost[n].saved.lr /\ callR4' = callHost[n].saved.r4
        /\ callHost[n].kind = "preserve"
    BY <1>2, <1>8, HostTypes DEF Calls!CallReturns
  <2>2. n > 1 /\ n - 1 \in DOMAIN callHost
    BY <1>2, <1>8 DEF Calls!HostSound
  <2>3. /\ callHost[n - 1].kind = "handler" /\ callLr' = callHost[n - 1].back /\ callR4' = callHost[n - 1].r4
        /\ Len(callStack) = callHost[n - 1].frames
    BY <1>2, <1>6, <2>1, <2>2 DEF Calls!HostSound, Calls!Base
  <2>4. callHost' # <<>> /\ Calls!Top(callHost)' = callHost[n - 1]
    BY <1>2, <1>4, <2>2 DEF Calls!Top, Calls!HostSound
  <2>5. callPc' \in {Calls!TrapAt(i) : i \in Calls!Traps} /\ callLr' \in Calls!Bodies /\ callR4' \in {0, 1}
    BY <1>2, <2>1, HostTypes
  <2>6. Calls!AtHandler'
    BY <1>1, <2>3, <2>4, <2>5 DEF Calls!AtHandler, Calls!Traps
  <2>7. Calls!AtGuest(b)'
    BY <2>3, <2>4 DEF Calls!AtGuest, Calls!InGuest
  <2>8. Calls!StackSound(b)'
    <3>1. \A s \in Seq(Calls!StackFrames) : s = SubSeq(s, 1, Len(s))
      OBVIOUS
    <3>2. PICK k : k = n - 1
      OBVIOUS
    <3>3. k \in 1..Len(callHost) /\ callHost[k].kind = "handler" /\ callStack' = SubSeq(callStack, 1, callHost[k].frames)
      BY <1>1, <1>2, <1>5, <1>n, <2>2, <2>3, <3>1, <3>2
    <3>4. callHost' = SubSeq(callHost, 1, k)
      BY <1>3, <3>2
    <3> QED
      BY <3>3, <3>4, StackUnderCut
  <2>9. Calls!CallsTyped'
    BY <1>1, <1>2, <1>4, <2>5 DEF Calls!CallsTyped, Calls!TraceFrames, Calls!Bodies,
       Calls!Traps, Calls!Sentinel, Calls!CallsBounds
  <2> QED
    BY <1>4, <2>6, <2>7, <2>8, <2>9
<1> QED
  BY <1>7, <1>8

LEMMA HandlerReturnsKeeps ==
    ASSUME Calls!CallsBounds, Calls!CallsTyped, Calls!HostSound, Calls!AtHandler, NEW b \in 0..Len(callStack), Calls!StackSound(b),
           Calls!HandlerReturns
    PROVE  /\ Calls!CallsTyped' /\ Calls!HostSound' /\ Calls!AtHandler' /\ Calls!StackSound(b)' /\ Calls!AtGuest(b)'
           /\ callPc' = Calls!Top(callHost).back /\ callR4' = Calls!Top(callHost).r4 /\ Len(callStack) = Calls!Top(callHost).frames
<1>n. PICK n : n = Len(callHost)
  OBVIOUS
<1>1. /\ callHost # <<>> /\ Calls!Top(callHost).kind = "handler" /\ callPc' = callLr /\ callHost' = Calls!Popped(callHost) /\ Calls!OnReturn
      /\ UNCHANGED <<callLr, callR4, callStack, callExact>>
  BY DEF Calls!HandlerReturns
<1>2. n \in Nat /\ n \in DOMAIN callHost /\ DOMAIN callHost = 1..n /\ Calls!Top(callHost) = callHost[n]
  BY <1>1, <1>n, HostTypes
<1>3. callLr = callHost[n].back /\ callR4 = callHost[n].r4 /\ Len(callStack) = callHost[n].frames
  BY <1>1, <1>2 DEF Calls!AtHandler
<1>4. n > 1 /\ n - 1 \in DOMAIN callHost /\ callHost[n - 1].kind # "handler"
  BY <1>1, <1>2 DEF Calls!HostSound
<1>5. PICK k : k = n - 1
  OBVIOUS
<1>6. k \in 1..Len(callHost) /\ k \in 0..Len(callHost) /\ k < Len(callHost) /\ k + 1 = n /\ callHost[k].kind # "handler"
  BY <1>2, <1>4, <1>5, <1>n
<1>7. callHost' = SubSeq(callHost, 1, k)
  BY <1>1, <1>5, <1>n DEF Calls!Popped
<1>8. Calls!HostSound' /\ Len(callHost') = k /\ \A j \in 1..k : callHost'[j] = callHost[j]
  BY <1>6, <1>7, HostCut
<1>9. Calls!StackSound(b)'
  <2>1. callStack \in Seq(Calls!StackFrames)
    BY DEF Calls!StackSound
  <2>2. callStack' = SubSeq(callStack, 1, callHost[k + 1].frames)
    BY <2>1, <1>1, <1>3, <1>6
  <2> QED
    BY <2>2, <1>6, <1>7, StackUnderCut
<1>10. Calls!InGuest' /\ Calls!AtHandler' /\ callHost' # <<>>
  <2>1. callHost' # <<>> /\ Calls!Top(callHost)' = callHost[k]
    BY <1>4, <1>5, <1>6, <1>8 DEF Calls!HostSound, Calls!Top
  <2> QED
    BY <2>1, <1>6 DEF Calls!InGuest, Calls!AtHandler
<1>11. Calls!Base(b, Len(callHost))' = Calls!Base(b, k)
  BY <1>4, <1>5, <1>6, <1>8 DEF Calls!Base
<1>12. Calls!Base(b, k) < Len(callStack)
  <2>1. Calls!Base(b, k) < Calls!Roof(k) /\ Calls!Roof(k) = callHost[n].frames
    BY <1>2, <1>4, <1>5, <1>6 DEF Calls!StackSound, Calls!Roof
  <2> QED
    BY <2>1, <1>3
<1>13. callPc' \in Calls!Bodies
  BY <1>1, <1>2, <1>3, HostTypes
<1>14. Calls!AtGuest(b)'
  <2>1. Len(callStack') > Calls!Base(b, Len(callHost))'
    BY <1>1, <1>11, <1>12
  <2> QED
    BY <1>13, <2>1 DEF Calls!AtGuest, Calls!Bodies
<1>15. Calls!CallsTyped'
  <2>1. callShadow' \in Seq(Calls!TraceFrames)
    BY <1>1, TraceShrinks DEF Calls!CallsTyped
  <2>2. Len(callHost') <= MaxCallDepth
    BY <1>2, <1>5, <1>8, <1>n DEF Calls!CallsTyped, Calls!CallsBounds
  <2> QED
    BY <1>1, <1>13, <2>1, <2>2 DEF Calls!CallsTyped, Calls!TraceFrames, Calls!Bodies,
       Calls!Traps, Calls!Sentinel
<1> QED
  BY <1>1, <1>2, <1>3, <1>8, <1>9, <1>10, <1>14, <1>15

LEMMA ThrowKeeps ==
    ASSUME Calls!CallsBounds, Calls!CallsTyped, Calls!HostSound, Calls!AtHandler, NEW b \in 0..Len(callStack), Calls!StackSound(b), Calls!Throw
    PROVE  /\ Calls!CallsTyped' /\ Calls!HostSound' /\ Calls!AtHandler' /\ Calls!StackSound(b)' /\ Calls!AtGuest(b)' /\ b <= Len(callStack')
           /\ ~callExact'
<1>1. PICK k \in {0} \cup {j \in 1..Len(callHost) - 1 : callHost[j].kind = "handler"} : Calls!Unwound(k)
  BY DEF Calls!Throw
<1>2. callHost # <<>> /\ UNCHANGED callShadow /\ callHost' = SubSeq(callHost, 1, k) /\ ~callExact'
  BY <1>1 DEF Calls!Throw, Calls!Running, Calls!InGuest, Calls!Unwound
<1>3. Len(callHost) \in Nat \ {0} /\ k \in 0..Len(callHost) /\ k < Len(callHost) /\ DOMAIN callHost = 1..Len(callHost)
  BY <1>2, HostTypes
<1>4. Calls!HostSound' /\ Len(callHost') = k /\ \A j \in 1..k : callHost'[j] = callHost[j]
  BY <1>2, <1>3, HostCut
<1>5. callStack \in Seq(Calls!StackFrames) /\ Len(callStack) \in Nat
  BY DEF Calls!StackSound
<1>6. CASE k = 0
  <2>1. callHost' = <<>> /\ DOMAIN callHost' = {} /\ UNCHANGED <<callPc, callLr, callR4, callStack>>
    BY <1>1, <1>6, <1>4 DEF Calls!HostSound, Calls!Unwound
  <2>2. Calls!StackSound(b)'
    BY <2>1, <1>5 DEF Calls!StackSound, Calls!StackFrames, Calls!Bodies, Calls!Sentinel
  <2>3. Calls!AtHandler' /\ Calls!AtGuest(b)'
    BY <2>1 DEF Calls!AtHandler, Calls!AtGuest, Calls!InGuest
  <2>4. Calls!CallsTyped'
    <3>1. callExact' = FALSE
      BY <1>1, Zenon DEF Calls!Unwound
    <3>2. Len(callHost') <= MaxCallDepth
      BY <1>4, <1>6 DEF Calls!CallsBounds
    <3>3. callExact' \in BOOLEAN
      BY <3>1
    <3> QED
      BY <2>1, <3>2, <3>3, <1>2 DEF Calls!CallsTyped, Calls!TraceFrames, Calls!Bodies,
         Calls!Traps, Calls!Sentinel
  <2> QED
    BY <1>2, <1>4, <1>5, <2>1, <2>2, <2>3, <2>4
<1>7. CASE k # 0
  <2>1. /\ k \in 1..Len(callHost) /\ callHost[k].kind = "handler" /\ callStack' = SubSeq(callStack, 1, callHost[k].frames)
        /\ callPc' = callHost[k + 1].saved.pc /\ callLr' = callHost[k + 1].saved.lr /\ callR4' = callHost[k + 1].saved.r4
    BY <1>1, <1>3, <1>7 DEF Calls!Unwound
  <2>2. k + 1 \in DOMAIN callHost /\ k + 1 # 1 /\ k + 1 > 1 /\ (k + 1) - 1 = k
    BY <1>3, <2>1
  <2>3. callHost[k + 1].kind = "preserve"
    BY <2>1, <2>2, HostTypes DEF Calls!HostSound
  <2>4. callLr' = callHost[k].back /\ callR4' = callHost[k].r4
    BY <2>1, <2>2, <2>3 DEF Calls!HostSound
  <2>5. callPc' \in {Calls!TrapAt(i) : i \in Calls!Traps} /\ callLr' \in Calls!Bodies /\ callR4' \in {0, 1}
    BY <2>1, <2>2, <2>3, HostTypes
  <2>6. Calls!StackSound(b)' /\ callHost[k].frames \in Nat /\ b <= callHost[k].frames /\ callHost[k].frames <= Len(callStack)
        /\ Len(callStack') = callHost[k].frames
    BY <1>2, <2>1, StackUnderCut
  <2>7. callHost' # <<>> /\ Calls!Top(callHost)' = callHost[k]
    BY <1>4, <2>1 DEF Calls!HostSound, Calls!Top
  <2>8. Calls!AtHandler' /\ Calls!AtGuest(b)'
    BY <2>1, <2>4, <2>5, <2>6, <2>7 DEF Calls!AtHandler, Calls!AtGuest, Calls!InGuest,
       Calls!Traps
  <2>9. Len(callHost') <= MaxCallDepth /\ Len(callStack') <= MaxCallDepth + 1
    BY <1>3, <1>4, <1>5, <2>6 DEF Calls!CallsTyped, Calls!CallsBounds
  <2>10. Calls!CallsTyped'
    BY <1>1, <1>2, <2>5, <2>9 DEF Calls!CallsTyped, Calls!TraceFrames, Calls!Bodies,
       Calls!Traps, Calls!Sentinel, Calls!Unwound
  <2> QED
    BY <1>2, <1>4, <2>6, <2>8, <2>10
<1> QED
  BY <1>6, <1>7

(* What TraceSound says of one handler, and of the guest. *)
Deep(b, k) == callHost[k].depth = Calls!Under(k - 1) + callHost[k].frames - Calls!Base(b, k - 1) - 1

Named(k) == Len(callShadow) > callHost[k].depth /\ callShadow[callHost[k].depth + 1] = Calls!TrapAt(callHost[k].slot)

Deeper(k) == \A m \in DOMAIN callHost : m > k /\ callHost[m].kind = "handler" => callHost[k].depth < callHost[m].depth

LastCalled(k) == k = Len(callHost) => Len(callShadow) = callHost[k].depth + 1

Level(b) ==
    Calls!InGuest => Len(callShadow) = Calls!Under(Len(callHost))
                 + (IF callPc = Calls!Sentinel \/ (callPc.is = "entry" /\ callLr = Calls!Sentinel) THEN 0
                    ELSE Len(callStack) - Calls!Base(b, Len(callHost)) - (IF callPc.is = "entry" THEN 0 ELSE 1))

LEMMA NextInside ==
    ASSUME NEW x \in Nat, NEW y \in Nat, x < y
    PROVE  x + 1 \in 1..y
  OBVIOUS

LEMMA NextBelow ==
    ASSUME NEW x \in Nat, NEW y \in Nat, x <= y
    PROVE  x + 1 \in 1..y + 1 /\ y + 1 \in Nat
  OBVIOUS

LEMMA TraceParts ==
    ASSUME NEW b
    PROVE  Calls!TraceSound(b) <=>
              /\ callHost = <<>> => callShadow = <<>>
              /\ \A k \in DOMAIN callHost : callHost[k].kind = "handler" =>
                     Deep(b, k) /\ Named(k) /\ Deeper(k) /\ LastCalled(k)
              /\ Level(b)
  BY DEF Calls!TraceSound, Deep, Named, Deeper, LastCalled, Level

(* While the guest runs, only frames of its own calls come and go. *)
LEMMA TraceTopChanges ==
    ASSUME Calls!HostSound, Calls!InGuest, NEW b, Calls!TraceSound(b), UNCHANGED callHost, Len(callShadow') \in Nat,
           Calls!Under(Len(callHost)) <= Len(callShadow'),
           \A j \in 1..Calls!Under(Len(callHost)) : callShadow'[j] = callShadow[j], Level(b)'
    PROVE  Calls!TraceSound(b)'
<1>n. PICK n : n = Len(callHost)
  OBVIOUS
<1>1. n \in Nat /\ DOMAIN callHost = 1..n /\ n \in DOMAIN callHost /\ callHost[n].kind # "handler" /\ callHost # <<>>
  BY <1>n, HostTypes DEF Calls!InGuest
<1>t. \A k \in 1..n : callHost[k].kind = "handler" => callHost[k].depth \in Nat
  BY <1>1, HostTypes
<1>2. ASSUME NEW k \in 1..n, callHost[k].kind = "handler"
      PROVE  callHost[k].depth + 1 \in 1..Calls!Under(n) /\ k < n /\ Calls!Under(n) \in Nat
  <2>1. k < n
    BY <1>1, <1>2
  <2>2. n > 1 /\ n - 1 \in 1..n /\ callHost[n - 1].kind = "handler"
    <3>1. n > 1 /\ n - 1 \in 1..n
      BY <1>1, <2>1
    <3> QED
      BY <3>1, <1>1 DEF Calls!HostSound
  <2>3. Calls!Under(n) = callHost[n - 1].depth + 1
    BY <2>2 DEF Calls!Under
  <2>4. callHost[k].depth <= callHost[n - 1].depth
    <3>1. CASE k = n - 1
      BY <3>1, <1>t, <1>2
    <3>2. CASE k < n - 1
      <4>1. Deeper(k)
        BY <1>1, <1>2, TraceParts
      <4> QED
        BY <4>1, <3>2, <2>2, <1>1, <1>t, <1>2 DEF Deeper
    <3> QED
      BY <3>1, <3>2, <2>1, <1>1
  <2>5. callHost[n - 1].depth \in Nat /\ callHost[k].depth \in Nat
    BY <2>2, <1>t, <1>2
  <2>6. callHost[k].depth + 1 \in 1..callHost[n - 1].depth + 1 /\ callHost[n - 1].depth + 1 \in Nat
    BY <2>4, <2>5, NextBelow
  <2> QED
    BY <2>1, <2>3, <2>6
<1>3. ASSUME NEW k \in 1..n, callHost[k].kind = "handler"
      PROVE  (Deep(b, k) /\ Named(k) /\ Deeper(k) /\ LastCalled(k))'
  <2>1. Deep(b, k) /\ Named(k) /\ Deeper(k) /\ LastCalled(k) /\ k < n
    BY <1>1, <1>2, <1>3, TraceParts
  <2>2. Deep(b, k)' /\ Deeper(k)'
    BY <2>1 DEF Deep, Deeper, Calls!Under, Calls!Base
  <2>3. LastCalled(k)'
    BY <2>1, <1>n, <1>1 DEF LastCalled
  <2>4. callHost[k].depth + 1 \in 1..Calls!Under(n) /\ callHost[k].depth \in Nat
    BY <1>2, <1>3, <1>t
  <2>5. Len(callShadow') > callHost[k].depth
    BY <2>4, <1>n, <1>2, <1>3
  <2>6. callShadow'[callHost[k].depth + 1] = Calls!TrapAt(callHost[k].slot)
    BY <2>1, <2>4, <1>n DEF Named
  <2> QED
    BY <2>2, <2>3, <2>5, <2>6 DEF Named, Calls!TrapAt
<1>4. (/\ callHost = <<>> => callShadow = <<>>
       /\ \A k \in DOMAIN callHost : callHost[k].kind = "handler" =>
              Deep(b, k) /\ Named(k) /\ Deeper(k) /\ LastCalled(k)
       /\ Level(b))'
  <2>1. \A k \in DOMAIN callHost' : callHost'[k].kind = "handler" =>
              (Deep(b, k) /\ Named(k) /\ Deeper(k) /\ LastCalled(k))'
    BY <1>1, <1>3
  <2> QED
    BY <2>1, <1>1
<1> QED
  BY <1>4 DEF Calls!TraceSound, Deep, Named, Deeper, LastCalled, Level

(* A frame goes on top of the host's stack. *)
LEMMA TracePushed ==
    ASSUME Calls!HostSound, NEW b, Calls!TraceSound(b), callHost # <<>>, callShadow \in Seq(Calls!TraceFrames),
           NEW h \in Calls!HostFrames, callHost' = Append(callHost, h),
           h.kind = "handler" => /\ Calls!InGuest /\ h.depth = Len(callShadow) /\ callShadow' = Append(callShadow, Calls!TrapAt(h.slot))
                                 /\ h.depth = Calls!Under(Len(callHost)) + h.frames - Calls!Base(b, Len(callHost)) - 1,
           h.kind # "handler" => Calls!Top(callHost).kind = "handler" /\ callShadow' = callShadow,
           Level(b)'
    PROVE  Calls!TraceSound(b)'
<1>n. PICK n : n = Len(callHost)
  OBVIOUS
<1>1. n \in Nat /\ DOMAIN callHost = 1..n /\ n \in DOMAIN callHost /\ Calls!Top(callHost) = callHost[n]
  BY <1>n, HostTypes
<1>t. \A k \in 1..n : callHost[k].kind = "handler" => callHost[k].depth \in Nat
  BY <1>1, HostTypes
<1>2. DOMAIN callHost' = 1..n + 1 /\ Len(callHost') = n + 1 /\ callHost'[n + 1] = h
      /\ (\A k \in 1..n : callHost'[k] = callHost[k]) /\ callHost' # <<>>
  BY <1>n, <1>1 DEF Calls!HostSound
<1>3. Len(callShadow) \in Nat /\ Len(callShadow') \in Nat /\ Len(callShadow') >= Len(callShadow)
      /\ \A j \in 1..Len(callShadow) : callShadow'[j] = callShadow[j]
  <2>1. callShadow' = callShadow \/ callShadow' = Append(callShadow, Calls!TrapAt(h.slot))
    OBVIOUS
  <2>2. \A t : Len(Append(callShadow, t)) = Len(callShadow) + 1
               /\ \A j \in 1..Len(callShadow) : Append(callShadow, t)[j] = callShadow[j]
    OBVIOUS
  <2> QED
    BY <2>1, <2>2
<1>4. ASSUME NEW k \in 1..n, callHost[k].kind = "handler"
      PROVE  (Deep(b, k) /\ Named(k) /\ Deeper(k) /\ LastCalled(k))'
  <2>k. k # 1
    BY <1>1, <1>4 DEF Calls!HostSound
  <2>p. Deep(b, k) /\ Named(k) /\ Deeper(k)
    BY <1>1, <1>4, TraceParts
  <2>1. Deep(b, k) /\ Named(k) /\ Deeper(k) /\ callHost[k].depth \in Nat /\ callHost'[k] = callHost[k] /\ k > 1
    BY <1>1, <1>2, <1>4, <1>t, <2>k, <2>p
  <2>2. Calls!Under(k - 1)' = Calls!Under(k - 1) /\ Calls!Base(b, k - 1)' = Calls!Base(b, k - 1)
    BY <2>1, <1>1, <1>2 DEF Calls!Under, Calls!Base
  <2>3. Deep(b, k)'
    BY <2>1, <2>2 DEF Deep
  <2>4. Named(k)'
    <3>1. callHost[k].depth + 1 \in 1..Len(callShadow)
      <4>1. callHost[k].depth < Len(callShadow) /\ callHost[k].depth \in Nat /\ Len(callShadow) \in Nat
        BY <2>1, <1>3 DEF Named
      <4> QED
        BY <4>1, NextInside
    <3>2. callShadow'[callHost[k].depth + 1] = Calls!TrapAt(callHost[k].slot)
      BY <3>1, <2>1, <1>3 DEF Named
    <3>3. Len(callShadow') > callHost[k].depth
      <4>1. PICK x \in Nat : x = callHost[k].depth
        BY <2>1
      <4>2. PICK y \in Nat : y = Len(callShadow)
        BY <1>3
      <4>3. PICK z \in Nat : z = Len(callShadow')
        BY <1>3
      <4>4. x < y /\ y <= z
        BY <4>1, <4>2, <4>3, <2>1, <1>3 DEF Named
      <4> QED
        BY <4>1, <4>3, <4>4
    <3> QED
      BY <3>2, <3>3, <2>1 DEF Named, Calls!TrapAt
  <2>5. Deeper(k)'
    <3> SUFFICES ASSUME NEW m \in DOMAIN callHost', m > k, callHost'[m].kind = "handler"
                 PROVE  callHost[k].depth < callHost'[m].depth
      BY <2>1 DEF Deeper
    <3>1. CASE m = n + 1
      BY <3>1, <2>1, <1>2 DEF Named
    <3>2. CASE m \in 1..n
      BY <3>2, <2>1, <1>1, <1>2 DEF Deeper
    <3> QED
      BY <3>1, <3>2, <1>1, <1>2
  <2>6. LastCalled(k)'
    BY <1>1, <1>2 DEF LastCalled
  <2> QED
    BY <2>3, <2>4, <2>5, <2>6
<1>5. ASSUME h.kind = "handler"
      PROVE  (Deep(b, n + 1) /\ Named(n + 1) /\ Deeper(n + 1) /\ LastCalled(n + 1))'
  <2>1. callHost[n].kind # "handler" /\ (n + 1) - 1 = n
    BY <1>1, <1>5 DEF Calls!InGuest
  <2>2. Calls!Under(n)' = Calls!Under(n) /\ Calls!Base(b, n)' = Calls!Base(b, n)
    BY <1>1, <1>2 DEF Calls!Under, Calls!Base
  <2>3. Deep(b, n + 1)'
    BY <2>1, <2>2, <1>2, <1>5, <1>n DEF Deep
  <2>4. Len(callShadow') = Len(callShadow) + 1 /\ callShadow'[Len(callShadow) + 1] = Calls!TrapAt(h.slot)
    BY <1>5, <1>3
  <2>5. Named(n + 1)' /\ LastCalled(n + 1)'
    BY <2>4, <1>2, <1>3, <1>5 DEF Named, LastCalled, Calls!TrapAt
  <2>6. Deeper(n + 1)'
    BY <1>1, <1>2 DEF Deeper
  <2> QED
    BY <2>3, <2>5, <2>6
<1>6. \A k \in DOMAIN callHost' : callHost'[k].kind = "handler" =>
              (Deep(b, k) /\ Named(k) /\ Deeper(k) /\ LastCalled(k))'
  BY <1>1, <1>2, <1>4, <1>5
<1> QED
  BY <1>2, <1>6 DEF Calls!TraceSound, Deep, Named, Deeper, LastCalled, Level

(* The frame on top leaves. *)
LEMMA TracePopped ==
    ASSUME Calls!HostSound, NEW b, Calls!TraceSound(b), callShadow \in Seq(Calls!TraceFrames),
           NEW k \in 1..Len(callHost) - 1, k = Len(callHost) - 1, callHost' = SubSeq(callHost, 1, k),
           Len(callShadow') \in Nat,
           Calls!Top(callHost).kind = "handler" => Len(callShadow') = Calls!Top(callHost).depth,
           Calls!Top(callHost).kind # "handler" => Len(callShadow') = callHost[k].depth + 1,
           \A j \in 1..Len(callShadow') : callShadow'[j] = callShadow[j],
           Level(b)'
    PROVE  Calls!TraceSound(b)'
<1>n. PICK n : n = Len(callHost)
  OBVIOUS
<1>1. n \in Nat /\ DOMAIN callHost = 1..n /\ k \in 1..n /\ n = k + 1 /\ n \in 1..n /\ k \in 0..Len(callHost)
      /\ Calls!Top(callHost) = callHost[n]
  BY <1>n, HostTypes
<1>t. \A j \in 1..n : callHost[j].kind = "handler" => callHost[j].depth \in Nat
  BY <1>1, HostTypes
<1>2. Len(callHost') = k /\ DOMAIN callHost' = 1..k /\ (\A j \in 1..k : callHost'[j] = callHost[j]) /\ callHost' # <<>>
  BY <1>1, HostCut, HostTypes DEF Calls!HostSound
<1>3. callHost[n].kind = "handler" <=> callHost[k].kind # "handler"
  BY <1>1 DEF Calls!HostSound
<1>k. k \in Nat /\ k = n - 1
  BY <1>1
<1>4. ASSUME NEW j \in 1..k, callHost[j].kind = "handler"
      PROVE  (Deep(b, j) /\ Named(j) /\ Deeper(j) /\ LastCalled(j))'
  <2>j. j \in Nat /\ 1 <= j /\ j <= k
    BY <1>k
  <2>k. j # 1
    BY <1>1, <1>4 DEF Calls!HostSound
  <2>d. j \in DOMAIN callHost
    BY <2>j, <1>k, <1>1
  <2>p. Deep(b, j) /\ Named(j) /\ Deeper(j)
    BY <2>d, <1>4, TraceParts
  <2>1. Deep(b, j) /\ Named(j) /\ Deeper(j) /\ callHost[j].depth \in Nat /\ callHost'[j] = callHost[j] /\ j > 1
    BY <1>1, <1>2, <1>4, <1>t, <2>k, <2>p
  <2>2. Calls!Under(j - 1)' = Calls!Under(j - 1) /\ Calls!Base(b, j - 1)' = Calls!Base(b, j - 1)
    BY <2>1, <1>1, <1>2 DEF Calls!Under, Calls!Base
  <2>3. Deep(b, j)'
    BY <2>1, <2>2 DEF Deep
  <2>4. callHost[j].depth + 1 \in 1..Len(callShadow') /\ (j = k => Len(callShadow') = callHost[j].depth + 1)
    <3>1. CASE callHost[n].kind = "handler"
      <4>a. n > j /\ n \in DOMAIN callHost
        BY <2>j, <1>k, <1>1
      <4>b. j # k
        BY <3>1, <1>3, <1>4
      <4>1. callHost[j].depth < callHost[n].depth /\ j # k
        BY <4>a, <4>b, <3>1, <2>1 DEF Deeper
      <4>2. callHost[n].depth \in Nat /\ Len(callShadow') = callHost[n].depth
        BY <3>1, <1>1, <1>t
      <4>3. callHost[j].depth + 1 \in 1..callHost[n].depth
        BY <4>1, <4>2, <2>1, NextInside
      <4> QED
        BY <4>1, <4>2, <4>3
    <3>2. CASE callHost[n].kind # "handler"
      <4>1. callHost[k].kind = "handler" /\ Len(callShadow') = callHost[k].depth + 1 /\ callHost[k].depth \in Nat
        BY <3>2, <1>1, <1>3, <1>t
      <4>2. callHost[j].depth <= callHost[k].depth
        <5>1. CASE j = k
          BY <5>1, <2>1
        <5>2. CASE j < k
          <6>1. k \in DOMAIN callHost /\ k > j /\ callHost[j].depth \in Nat
            BY <5>2, <2>1, <1>1
          <6>2. callHost[j].depth < callHost[k].depth
            BY <6>1, <4>1, <2>1 DEF Deeper
          <6> QED
            BY <6>1, <6>2, <4>1
        <5>3. j = k \/ j < k
          BY <1>k, <2>j
        <5> QED
          BY <5>1, <5>2, <5>3
      <4>3. callHost[j].depth + 1 \in 1..callHost[k].depth + 1
        BY <4>1, <4>2, <2>1, NextBelow
      <4> QED
        BY <4>1, <4>3
    <3> QED
      BY <3>1, <3>2
  <2>5. Named(j)'
    BY <2>1, <2>4 DEF Named, Calls!TrapAt
  <2>6. Deeper(j)'
    BY <2>1, <1>1, <1>2 DEF Deeper
  <2>7. LastCalled(j)'
    BY <2>1, <2>4, <1>2 DEF LastCalled
  <2> QED
    BY <2>3, <2>5, <2>6, <2>7
<1>5. \A j \in DOMAIN callHost' : callHost'[j].kind = "handler" =>
              (Deep(b, j) /\ Named(j) /\ Deeper(j) /\ LastCalled(j))'
  BY <1>1, <1>2, <1>4
<1> QED
  BY <1>2, <1>5 DEF Calls!TraceSound, Deep, Named, Deeper, LastCalled, Level

(* The trace, one action after another. *)
LEMMA GuestKinds ==
    ASSUME Calls!CallsBounds, Calls!HostSound, Calls!InGuest, NEW b \in 0..Len(callStack), Calls!StackSound(b), Calls!AtGuest(b)
    PROVE  /\ Len(callStack) \in Nat /\ Calls!Base(b, Len(callHost)) \in Nat /\ Len(callStack) >= Calls!Base(b, Len(callHost))
           /\ Calls!Under(Len(callHost)) \in Nat
           /\ callPc.is \in {"entry", "body", "trap"}
           /\ callPc # Calls!Sentinel /\ (callPc.is = "entry" => callLr # Calls!Sentinel) => Len(callStack) > Calls!Base(b, Len(callHost))
           /\ callPc = Calls!Sentinel \/ (callPc.is = "entry" /\ callLr = Calls!Sentinel) => Len(callStack) = Calls!Base(b, Len(callHost))
<1>1. Len(callStack) \in Nat /\ Calls!Base(b, Len(callHost)) \in Nat
  BY BaseType DEF Calls!StackSound
<1>2. Calls!Under(Len(callHost)) \in Nat
  <2>1. Len(callHost) \in Nat \ {0} /\ Len(callHost) \in DOMAIN callHost /\ callHost[Len(callHost)].kind # "handler"
    BY HostTypes DEF Calls!InGuest
  <2>2. CASE Len(callHost) = 1
    BY <2>2 DEF Calls!Under
  <2>3. CASE Len(callHost) # 1
    <3>1. Len(callHost) - 1 \in DOMAIN callHost /\ Len(callHost) > 1
      BY <2>1, <2>3, HostTypes
    <3>2. callHost[Len(callHost) - 1].kind = "handler"
      BY <2>1, <3>1 DEF Calls!HostSound
    <3>3. callHost[Len(callHost) - 1].depth \in Nat
      BY <3>1, <3>2, HostTypes
    <3> QED
      BY <2>3, <3>3 DEF Calls!Under
  <2> QED
    BY <2>2, <2>3
<1>3. \/ callPc.is = "entry" /\ callPc # Calls!Sentinel /\ callLr = Calls!Sentinel /\ Len(callStack) = Calls!Base(b, Len(callHost))
      \/ callPc.is = "entry" /\ callPc # Calls!Sentinel /\ callLr # Calls!Sentinel /\ Len(callStack) > Calls!Base(b, Len(callHost))
      \/ callPc.is = "body" /\ callPc # Calls!Sentinel /\ Len(callStack) > Calls!Base(b, Len(callHost))
      \/ callPc.is = "trap" /\ callPc # Calls!Sentinel /\ Len(callStack) > Calls!Base(b, Len(callHost))
      \/ callPc.is = "trap" /\ callPc = Calls!Sentinel /\ Len(callStack) = Calls!Base(b, Len(callHost))
  <2>1. CASE callPc \in {Calls!Entry(f) : f \in GuestFunctions} /\ callLr = Calls!Sentinel /\ Len(callStack) = Calls!Base(b, Len(callHost))
    BY <2>1, AddressKinds
  <2>2. CASE callPc \in {Calls!Entry(f) : f \in GuestFunctions} /\ callLr \in Calls!Bodies /\ Len(callStack) > Calls!Base(b, Len(callHost))
    BY <2>2, AddressKinds
  <2>3. CASE callPc \in Calls!Bodies /\ Len(callStack) > Calls!Base(b, Len(callHost))
    BY <2>3, AddressKinds
  <2>4. CASE callPc \in {Calls!TrapAt(i) : i \in Calls!Traps \ {0}} /\ callLr \in Calls!Bodies /\ Len(callStack) > Calls!Base(b, Len(callHost))
    <3>1. callPc # Calls!Sentinel /\ callPc \in {Calls!TrapAt(i) : i \in Calls!Traps}
      BY <2>4, TrapKinds
    <3> QED
      BY <3>1, <2>4, AddressKinds
  <2>5. CASE callPc = Calls!Sentinel /\ Len(callStack) = Calls!Base(b, Len(callHost))
    BY <2>5, TrapKinds
  <2> QED
    BY <2>1, <2>2, <2>3, <2>4, <2>5 DEF Calls!AtGuest
<1> QED
  BY <1>1, <1>2, <1>3

LEMMA GuestCallTraced ==
    ASSUME Calls!CallsBounds, Calls!CallsTyped, Calls!HostSound, NEW b \in 0..Len(callStack), Calls!StackSound(b), Calls!AtGuest(b),
           Calls!TraceSound(b), Calls!GuestCall
    PROVE  Calls!TraceSound(b)'
<1>1. PICK f \in GuestFunctions, g \in GuestFunctions :
          /\ Calls!Running(f) /\ callLr' = Calls!Body(f) /\ callPc' = Calls!Entry(g) /\ Calls!OnCall(Calls!Entry(g))
          /\ UNCHANGED <<callR4, callStack, callHost, callExact>>
  BY DEF Calls!GuestCall
<1>2. Calls!InGuest /\ callPc.is = "body" /\ callPc # Calls!Sentinel /\ Len(callStack) > Calls!Base(b, Len(callHost))
  BY <1>1, RunningBody, AddressKinds
<1>3. /\ Len(callStack) \in Nat /\ Calls!Base(b, Len(callHost)) \in Nat /\ Calls!Under(Len(callHost)) \in Nat
  BY <1>2, GuestKinds
<1>4. Len(callShadow) = Calls!Under(Len(callHost)) + (Len(callStack) - Calls!Base(b, Len(callHost)) - 1)
  BY <1>2, TraceParts DEF Level
<1>5. callShadow' = Append(callShadow, Calls!Entry(g)) /\ callShadow \in Seq(Calls!TraceFrames)
  BY <1>1 DEF Calls!OnCall, Calls!CallsTyped
<1>6. Len(callShadow) \in Nat /\ Len(callShadow') = Len(callShadow) + 1 /\ \A j \in 1..Len(callShadow) : callShadow'[j] = callShadow[j]
  BY <1>5
<1>7. Calls!Under(Len(callHost)) <= Len(callShadow) /\ \A j \in 1..Calls!Under(Len(callHost)) : j \in 1..Len(callShadow)
  BY <1>2, <1>3, <1>4, <1>6
<1>8. /\ Len(callHost)' = Len(callHost) /\ Calls!Under(Len(callHost))' = Calls!Under(Len(callHost))
      /\ Calls!Base(b, Len(callHost))' = Calls!Base(b, Len(callHost)) /\ Len(callStack)' = Len(callStack)
  BY <1>1 DEF Calls!Under, Calls!Base
<1>9. callPc'.is = "entry" /\ callPc' # Calls!Sentinel /\ callLr' # Calls!Sentinel
  BY <1>1, AddressKinds DEF Calls!Bodies
<1>10. Level(b)'
  <2>1. Len(callShadow') = Calls!Under(Len(callHost)) + (Len(callStack) - Calls!Base(b, Len(callHost)) - 0)
    BY <1>3, <1>4, <1>6
  <2> QED
    BY <2>1, <1>8, <1>9 DEF Level, Calls!Sentinel, Calls!TrapAt
<1> QED
  BY <1>1, <1>2, <1>3, <1>6, <1>7, <1>10, TraceTopChanges

LEMMA GuestTrapTraced ==
    ASSUME Calls!CallsBounds, Calls!CallsTyped, Calls!HostSound, NEW b \in 0..Len(callStack), Calls!StackSound(b), Calls!AtGuest(b),
           Calls!TraceSound(b), Calls!GuestTrap
    PROVE  Calls!TraceSound(b)'
<1>1. PICK f \in GuestFunctions, i \in Calls!Traps \ {0} :
          /\ Calls!Running(f) /\ callLr' = Calls!Body(f) /\ callPc' = Calls!TrapAt(i)
          /\ UNCHANGED <<callR4, callStack, callHost, callShadow, callExact>>
  BY DEF Calls!GuestTrap
<1>2. Calls!InGuest /\ callPc.is = "body" /\ callPc # Calls!Sentinel /\ Len(callStack) > Calls!Base(b, Len(callHost))
  BY <1>1, RunningBody, AddressKinds
<1>3. /\ Len(callStack) \in Nat /\ Calls!Base(b, Len(callHost)) \in Nat /\ Calls!Under(Len(callHost)) \in Nat
  BY <1>2, GuestKinds
<1>4. Len(callShadow) = Calls!Under(Len(callHost)) + (Len(callStack) - Calls!Base(b, Len(callHost)) - 1)
  BY <1>2, TraceParts DEF Level
<1>5. Len(callShadow) \in Nat /\ Calls!Under(Len(callHost)) <= Len(callShadow)
  BY <1>2, <1>3, <1>4 DEF Calls!CallsTyped
<1>6. /\ Len(callHost)' = Len(callHost) /\ Calls!Under(Len(callHost))' = Calls!Under(Len(callHost))
      /\ Calls!Base(b, Len(callHost))' = Calls!Base(b, Len(callHost)) /\ Len(callStack)' = Len(callStack)
  BY <1>1 DEF Calls!Under, Calls!Base
<1>7. callPc'.is = "trap" /\ callPc' # Calls!Sentinel
  BY <1>1, TrapKinds DEF Calls!TrapAt
<1>8. Level(b)'
  BY <1>1, <1>4, <1>6, <1>7 DEF Level, Calls!Sentinel, Calls!TrapAt
<1> QED
  BY <1>1, <1>2, <1>5, <1>8, TraceTopChanges

LEMMA EnterTraced ==
    ASSUME Calls!CallsBounds, Calls!CallsTyped, Calls!HostSound, NEW b \in 0..Len(callStack), Calls!StackSound(b), Calls!AtGuest(b),
           Calls!TraceSound(b), Calls!Enter
    PROVE  Calls!TraceSound(b)'
<1>1. /\ Calls!InGuest /\ callPc.is = "entry" /\ callStack' = Append(callStack, [ret |-> callLr, r4 |-> callR4])
      /\ callPc' = Calls!Body(callPc.n) /\ UNCHANGED <<callLr, callHost, callShadow, callExact>>
  BY DEF Calls!Enter
<1>2. /\ Len(callStack) \in Nat /\ Calls!Base(b, Len(callHost)) \in Nat /\ Calls!Under(Len(callHost)) \in Nat
      /\ callLr # Calls!Sentinel => Len(callStack) > Calls!Base(b, Len(callHost))
      /\ callLr = Calls!Sentinel => Len(callStack) = Calls!Base(b, Len(callHost))
      /\ callPc # Calls!Sentinel
  BY <1>1, GuestKinds, TrapKinds
<1>3. Len(callShadow) = Calls!Under(Len(callHost)) + (Len(callStack) - Calls!Base(b, Len(callHost)))
  <2>1. CASE callLr = Calls!Sentinel
    <3>1. Len(callShadow) = Calls!Under(Len(callHost)) + 0
      BY <1>1, <2>1, TraceParts DEF Level
    <3> QED
      BY <3>1, <2>1, <1>2
  <2>2. CASE callLr # Calls!Sentinel
    <3>1. Len(callShadow) = Calls!Under(Len(callHost)) + (Len(callStack) - Calls!Base(b, Len(callHost)) - 0)
      BY <1>1, <1>2, <2>2, TraceParts DEF Level
    <3> QED
      BY <3>1, <1>2
  <2> QED
    BY <2>1, <2>2
<1>4. Len(callShadow) \in Nat /\ Calls!Under(Len(callHost)) <= Len(callShadow)
  BY <1>2, <1>3 DEF Calls!CallsTyped
<1>5. /\ Len(callHost)' = Len(callHost) /\ Calls!Under(Len(callHost))' = Calls!Under(Len(callHost))
      /\ Calls!Base(b, Len(callHost))' = Calls!Base(b, Len(callHost))
  BY <1>1 DEF Calls!Under, Calls!Base
<1>6. Len(callStack)' = Len(callStack) + 1
  BY <1>1 DEF Calls!StackSound
<1>7. callPc'.is = "body" /\ callPc' # Calls!Sentinel
  BY <1>1 DEF Calls!Body, Calls!Sentinel, Calls!TrapAt
<1>8. Level(b)'
  <2>1. Len(callShadow') = Calls!Under(Len(callHost)) + ((Len(callStack) + 1) - Calls!Base(b, Len(callHost)) - 1)
    BY <1>1, <1>2, <1>3
  <2> QED
    BY <2>1, <1>5, <1>6, <1>7 DEF Level, Calls!Sentinel, Calls!TrapAt
<1> QED
  BY <1>1, <1>4, <1>8, TraceTopChanges

LEMMA GuestReturnTraced ==
    ASSUME Calls!CallsBounds, Calls!CallsTyped, Calls!HostSound, Calls!AtHandler, NEW b \in 0..Len(callStack), Calls!StackSound(b), Calls!AtGuest(b),
           callExact, Calls!TraceSound(b), Calls!GuestReturn, callExact'
    PROVE  Calls!TraceSound(b)'
<1>1. PICK f \in GuestFunctions :
        /\ Calls!Running(f) /\ callPc' = Calls!Top(callStack).ret /\ callR4' = Calls!Top(callStack).r4 /\ callStack' = Calls!Popped(callStack)
        /\ Calls!OnReturn /\ UNCHANGED <<callLr, callHost>>
        /\ callExact' = (callExact /\ (Calls!Top(callStack).ret # Calls!Sentinel \/ callShadow = <<>>))
  BY DEF Calls!GuestReturn
<1>2. Calls!InGuest /\ callPc.is = "body" /\ callPc # Calls!Sentinel /\ Len(callStack) > Calls!Base(b, Len(callHost))
  BY <1>1, RunningBody, AddressKinds
<1>3. /\ Len(callStack) \in Nat /\ Calls!Base(b, Len(callHost)) \in Nat /\ Calls!Under(Len(callHost)) \in Nat
  BY <1>2, GuestKinds
<1>4. Len(callShadow) = Calls!Under(Len(callHost)) + (Len(callStack) - Calls!Base(b, Len(callHost)) - 1)
  BY <1>2, TraceParts DEF Level
<1>5. callShadow \in Seq(Calls!TraceFrames)
  BY DEF Calls!CallsTyped
<1>6. /\ Len(callStack') = Len(callStack) - 1 /\ callPc' \in Calls!Bodies \cup {Calls!Sentinel}
      /\ callPc' = Calls!Sentinel <=> Len(callStack) - 1 = Calls!Base(b, Len(callHost))
  BY GuestReturnKeeps
<1>7. /\ Len(callHost)' = Len(callHost) /\ Calls!Under(Len(callHost))' = Calls!Under(Len(callHost))
      /\ Calls!Base(b, Len(callHost))' = Calls!Base(b, Len(callHost))
  BY <1>1 DEF Calls!Under, Calls!Base
<1>8. CASE callShadow = <<>>
  <2>1. Calls!Under(Len(callHost)) = 0 /\ Len(callStack) - 1 = Calls!Base(b, Len(callHost))
    BY <1>2, <1>3, <1>4, <1>8
  <2>2. callShadow' = <<>> /\ Len(callShadow') = 0 /\ callPc' = Calls!Sentinel
    BY <1>1, <1>5, <1>6, <1>8, <2>1, TraceShrinks
  <2>3. Level(b)'
    BY <2>1, <2>2, <1>7 DEF Level, Calls!Sentinel, Calls!TrapAt
  <2>4. \A j \in 1..Calls!Under(Len(callHost)) : callShadow'[j] = callShadow[j]
    BY <2>1
  <2> QED
    BY <1>1, <1>2, <2>1, <2>2, <2>3, <2>4, TraceTopChanges
<1>9. CASE callShadow # <<>>
  <2>1. callPc' \in Calls!Bodies /\ callPc' # Calls!Sentinel /\ Len(callStack) - 1 # Calls!Base(b, Len(callHost))
    BY <1>1, <1>6, <1>9
  <2>2. callPc'.is = "body"
    BY <2>1, AddressKinds
  <2>3. /\ Len(callShadow) \in Nat \ {0} /\ Len(callShadow') = Len(callShadow) - 1
        /\ \A j \in 1..Len(callShadow) - 1 : callShadow'[j] = callShadow[j]
    BY <1>1, <1>5, <1>9, TraceShrinks
  <2>4. Len(callShadow') = Calls!Under(Len(callHost)) + ((Len(callStack) - 1) - Calls!Base(b, Len(callHost)) - 1)
    BY <1>3, <1>4, <2>3
  <2>5. Level(b)'
    BY <1>6, <1>7, <2>1, <2>2, <2>4 DEF Level, Calls!Sentinel, Calls!TrapAt
  <2>6. Calls!Under(Len(callHost)) <= Len(callShadow) - 1
    BY <1>2, <1>3, <1>4, <2>1
  <2>7. \A j \in 1..Calls!Under(Len(callHost)) : callShadow'[j] = callShadow[j]
    BY <1>3, <2>3, <2>6
  <2>8. Len(callShadow') \in Nat /\ Calls!Under(Len(callHost)) <= Len(callShadow')
    BY <2>3, <2>6
  <2> QED
    BY <1>1, <1>2, <2>5, <2>7, <2>8, TraceTopChanges
<1> QED
  BY <1>8, <1>9

LEMMA CallFromHandlerTraced ==
    ASSUME Calls!CallsBounds, Calls!CallsTyped, Calls!HostSound, NEW b, Calls!TraceSound(b), Calls!CallFromHandler, Calls!AtHandler
    PROVE  Calls!TraceSound(b)'
<1>h. PICK h : h = [kind |-> "preserve", saved |-> Calls!Saved]
  OBVIOUS
<1>1. /\ callHost # <<>> /\ Calls!Top(callHost).kind = "handler" /\ callLr' = Calls!Sentinel /\ callHost' = Append(callHost, h)
      /\ callPc' \in {Calls!Entry(f) : f \in GuestFunctions} /\ UNCHANGED <<callR4, callStack, callShadow, callExact>>
  BY <1>h DEF Calls!CallFromHandler
<1>2. /\ Len(callHost) \in Nat /\ Len(callHost) \in DOMAIN callHost /\ Calls!Top(callHost) = callHost[Len(callHost)]
      /\ Calls!Top(callHost).back \in Calls!Bodies /\ Calls!Top(callHost).depth \in Nat
  BY <1>1, HostTypes
<1>3. h.kind = "preserve" /\ h \in Calls!HostFrames
  <2>1. [pc |-> callPc, lr |-> callLr, r4 |-> callR4] \in [pc : {Calls!TrapAt(i) : i \in Calls!Traps}, lr : Calls!Bodies, r4 : {0, 1}]
    BY <1>1, <1>2 DEF Calls!CallsTyped, Calls!AtHandler
  <2> QED
    BY <2>1, <1>h DEF Calls!HostFrames, Calls!Saved
<1>4. /\ Len(callHost') = Len(callHost) + 1 /\ callHost'[Len(callHost)] = callHost[Len(callHost)]
  BY <1>1, <1>2 DEF Calls!HostSound
<1>5. Calls!Under(Len(callHost))' = Calls!Top(callHost).depth + 1
  <2>1. Len(callHost') # 1 /\ Len(callHost') - 1 = Len(callHost)
    BY <1>1, <1>2, <1>4, HostTypes
  <2> QED
    BY <2>1, <1>2, <1>4 DEF Calls!Under
<1>6. Len(callShadow) = Calls!Top(callHost).depth + 1
  BY <1>1, <1>2, TraceParts DEF LastCalled
<1>7. callPc'.is = "entry" /\ callPc' # Calls!Sentinel
  BY <1>1, AddressKinds
<1>8. Level(b)'
  <2>1. Len(callShadow') = (Calls!Top(callHost).depth + 1) + 0
    BY <1>1, <1>2, <1>6
  <2> QED
    BY <2>1, <1>1, <1>5, <1>7 DEF Level, Calls!Sentinel, Calls!TrapAt
<1>9. callShadow \in Seq(Calls!TraceFrames)
  BY DEF Calls!CallsTyped
<1> QED
  BY <1>1, <1>3, <1>8, <1>9, TracePushed

LEMMA DispatchTraced ==
    ASSUME Calls!CallsBounds, Calls!CallsTyped, Calls!HostSound, Calls!AtHandler, NEW b \in 0..Len(callStack), Calls!StackSound(b),
           Calls!AtGuest(b), Calls!TraceSound(b), Calls!Dispatch
    PROVE  Calls!TraceSound(b)'
<1>1. Calls!InGuest /\ callPc.is = "trap" /\ callPc # Calls!Sentinel /\ UNCHANGED <<callLr, callR4, callStack, callExact>>
  BY DEF Calls!Dispatch
<1>2. /\ Len(callStack) \in Nat /\ Calls!Base(b, Len(callHost)) \in Nat /\ Calls!Under(Len(callHost)) \in Nat
      /\ Len(callStack) > Calls!Base(b, Len(callHost))
  BY <1>1, GuestKinds
<1>3. Len(callShadow) = Calls!Under(Len(callHost)) + (Len(callStack) - Calls!Base(b, Len(callHost)) - 1)
  BY <1>1, TraceParts DEF Level
<1>4. callShadow \in Seq(Calls!TraceFrames) /\ Len(callShadow) \in Nat
  BY DEF Calls!CallsTyped
<1>5. callLr \in Calls!Bodies /\ callPc \in {Calls!TrapAt(i) : i \in Calls!Traps}
  <2>1. callPc \notin Calls!Bodies /\ callPc \notin {Calls!Entry(f) : f \in GuestFunctions}
    BY <1>1, AddressKinds
  <2> QED
    BY <1>1, <2>1 DEF Calls!AtGuest
<1>6. CASE Calls!Implemented(callPc.n)
  <2>h. PICK h : h = [kind |-> "handler", slot |-> callPc.n, back |-> callLr, r4 |-> callR4,
                      depth |-> Len(callShadow), frames |-> Len(callStack)]
    OBVIOUS
  <2>1. callHost' = Append(callHost, h) /\ callShadow' = Append(callShadow, callPc) /\ callPc' = callPc
    BY <1>6, <2>h DEF Calls!Dispatch, Calls!OnCall
  <2>2. callHost # <<>>
    BY <1>1 DEF Calls!InGuest
  <2>3. h.kind = "handler" /\ h.frames = Len(callStack) /\ h.depth = Len(callShadow) /\ h.slot = callPc.n
    BY <2>h
  <2>4. h \in Calls!HostFrames
    <3>1. callPc.n \in 1..CallSlots
      BY <1>6 DEF Calls!Implemented
    <3> QED
      BY <2>h, <3>1, <1>2, <1>4, <1>5 DEF Calls!HostFrames, Calls!CallsTyped
  <2>5. callShadow' = Append(callShadow, Calls!TrapAt(h.slot))
    BY <2>1, <2>3, <1>5, AddressKinds
  <2>6. h.depth = Calls!Under(Len(callHost)) + h.frames - Calls!Base(b, Len(callHost)) - 1
    BY <2>3, <1>2, <1>3
  <2>7. callHost' # <<>> /\ Calls!Top(callHost)' = h
    BY <2>1 DEF Calls!Top, Calls!HostSound
  <2>8. Level(b)'
    BY <2>3, <2>7 DEF Level, Calls!InGuest
  <2> QED
    BY <1>1, <1>4, <2>1, <2>2, <2>3, <2>4, <2>5, <2>6, <2>8, TracePushed
<1>7. CASE ~Calls!Implemented(callPc.n)
  <2>1. callPc' = callLr /\ UNCHANGED <<callHost, callShadow>>
    BY <1>7 DEF Calls!Dispatch
  <2>2. callPc'.is = "body" /\ callPc' # Calls!Sentinel
    BY <2>1, <1>5, AddressKinds
  <2>3. /\ Len(callHost)' = Len(callHost) /\ Calls!Under(Len(callHost))' = Calls!Under(Len(callHost))
        /\ Calls!Base(b, Len(callHost))' = Calls!Base(b, Len(callHost)) /\ Len(callStack)' = Len(callStack)
    BY <1>1, <2>1 DEF Calls!Under, Calls!Base
  <2>4. Level(b)'
    BY <1>3, <2>1, <2>2, <2>3 DEF Level, Calls!Sentinel, Calls!TrapAt
  <2>5. Calls!Under(Len(callHost)) <= Len(callShadow)
    BY <1>2, <1>3
  <2> QED
    BY <1>1, <1>4, <2>1, <2>4, <2>5, TraceTopChanges
<1> QED
  BY <1>6, <1>7

LEMMA CallReturnsTraced ==
    ASSUME Calls!CallsBounds, Calls!CallsTyped, Calls!HostSound, NEW b \in 0..Len(callStack), Calls!StackSound(b), Calls!AtGuest(b),
           Calls!TraceSound(b), Calls!CallReturns
    PROVE  Calls!TraceSound(b)'
<1>n. PICK n : n = Len(callHost)
  OBVIOUS
<1>1. Calls!InGuest /\ callPc = Calls!Sentinel /\ callHost' = Calls!Popped(callHost) /\ UNCHANGED <<callStack, callShadow, callExact>>
  BY DEF Calls!CallReturns
<1>2. /\ n \in Nat /\ n \in DOMAIN callHost /\ DOMAIN callHost = 1..n /\ Calls!Top(callHost) = callHost[n]
      /\ callHost # <<>> /\ callHost[n].kind # "handler"
  BY <1>1, <1>n, HostTypes DEF Calls!InGuest
<1>3. callShadow \in Seq(Calls!TraceFrames) /\ Len(callShadow) \in Nat
  BY DEF Calls!CallsTyped
<1>4. Len(callShadow) = Calls!Under(n) + 0 /\ Calls!Under(n) \in Nat
  BY <1>1, <1>n, TraceParts, GuestKinds DEF Level
<1>5. CASE n = 1
  <2>1. callShadow = <<>>
    BY <1>3, <1>4, <1>5 DEF Calls!Under
  <2>z. Len(callHost) - 1 = 0
    BY <1>5, <1>n
  <2>2. callHost' = SubSeq(callHost, 1, 0)
    BY <1>1, <2>z DEF Calls!Popped
  <2>3. callHost' = <<>> /\ DOMAIN callHost' = {}
    BY <2>2 DEF Calls!HostSound
  <2> QED
    BY <1>1, <2>1, <2>3 DEF Calls!TraceSound, Calls!InGuest
<1>6. CASE n # 1
  <2>1. PICK k : k = n - 1
    OBVIOUS
  <2>2. k \in 1..Len(callHost) - 1 /\ k = Len(callHost) - 1 /\ n > 1 /\ k \in DOMAIN callHost
    BY <1>2, <1>6, <1>n, <2>1
  <2>3. callHost' = SubSeq(callHost, 1, k) /\ callHost[k].kind = "handler"
    BY <1>1, <1>2, <1>n, <2>1, <2>2 DEF Calls!Popped, Calls!HostSound
  <2>4. Len(callShadow) = callHost[k].depth + 1
    BY <1>4, <1>6, <2>1 DEF Calls!Under
  <2>5. callHost' # <<>> /\ Calls!Top(callHost)' = callHost[k]
    <3>1. k \in 0..Len(callHost)
      BY <2>2
    <3>2. Len(callHost') = k /\ \A j \in 1..k : callHost'[j] = callHost[j]
      BY <3>1, <2>3, HostCut
    <3> QED
      BY <2>2, <3>2 DEF Calls!Top
  <2>6. Level(b)'
    BY <2>3, <2>5 DEF Level, Calls!InGuest
  <2> QED
    BY <1>1, <1>2, <1>3, <2>2, <2>3, <2>4, <2>6, TracePopped
<1> QED
  BY <1>5, <1>6

LEMMA HandlerReturnsTraced ==
    ASSUME Calls!CallsBounds, Calls!CallsTyped, Calls!HostSound, Calls!AtHandler, NEW b \in 0..Len(callStack), Calls!StackSound(b),
           Calls!TraceSound(b), Calls!HandlerReturns
    PROVE  Calls!TraceSound(b)'
<1>n. PICK n : n = Len(callHost)
  OBVIOUS
<1>1. /\ callHost # <<>> /\ Calls!Top(callHost).kind = "handler" /\ callPc' = callLr /\ callHost' = Calls!Popped(callHost) /\ Calls!OnReturn
      /\ UNCHANGED <<callLr, callR4, callStack, callExact>>
  BY DEF Calls!HandlerReturns
<1>2. /\ n \in Nat /\ n \in DOMAIN callHost /\ DOMAIN callHost = 1..n /\ Calls!Top(callHost) = callHost[n]
      /\ callHost[n].depth \in Nat /\ callHost[n].frames \in Nat
  BY <1>1, <1>n, HostTypes
<1>3. n > 1 /\ n - 1 \in DOMAIN callHost /\ callHost[n - 1].kind # "handler"
  BY <1>1, <1>2 DEF Calls!HostSound
<1>4. PICK k : k = n - 1
  OBVIOUS
<1>5. k \in 1..Len(callHost) - 1 /\ k = Len(callHost) - 1 /\ k \in 0..Len(callHost)
  BY <1>3, <1>4, <1>n, <1>2
<1>6. callHost' = SubSeq(callHost, 1, k)
  BY <1>1, <1>4, <1>n DEF Calls!Popped
<1>7. Len(callHost') = k /\ \A j \in 1..k : callHost'[j] = callHost[j]
  BY <1>5, <1>6, HostCut
<1>8. callShadow \in Seq(Calls!TraceFrames)
  BY DEF Calls!CallsTyped
<1>9. Len(callShadow) = callHost[n].depth + 1
      /\ callHost[n].depth = Calls!Under(k) + callHost[n].frames - Calls!Base(b, k) - 1
  BY <1>1, <1>2, <1>4, <1>n, TraceParts DEF LastCalled, Deep
<1>10. /\ Len(callShadow') = callHost[n].depth /\ Len(callShadow') \in Nat
       /\ \A j \in 1..Len(callShadow') : callShadow'[j] = callShadow[j]
  BY <1>1, <1>2, <1>8, <1>9, TraceShrinks
<1>11. Len(callStack) = callHost[n].frames /\ callLr \in Calls!Bodies
  BY <1>1, <1>2, HostTypes DEF Calls!AtHandler
<1>12. callPc'.is = "body" /\ callPc' # Calls!Sentinel
  BY <1>1, <1>11, AddressKinds
<1>13. Calls!Under(Len(callHost))' = Calls!Under(k) /\ Calls!Base(b, Len(callHost))' = Calls!Base(b, k)
  <2>1. k # 1 => callHost'[k - 1] = callHost[k - 1]
    BY <1>5, <1>7
  <2> QED
    BY <1>7, <2>1 DEF Calls!Base, Calls!Under
<1>14. Level(b)'
  <2>1. Calls!Base(b, k) \in Nat /\ Calls!Under(k) \in Nat
    <3>1. k > 1 => callHost[k - 1].kind = "handler" /\ k - 1 \in DOMAIN callHost
      BY <1>2, <1>3, <1>4 DEF Calls!HostSound
    <3>2. k > 1 => callHost[k - 1].frames \in Nat /\ callHost[k - 1].depth \in Nat
      BY <3>1, HostTypes
    <3>3. k \in Nat /\ (k = 1 \/ k > 1) /\ b \in Nat
      BY <1>5
    <3>4. CASE k = 1
      BY <3>3, <3>4 DEF Calls!Base, Calls!Under
    <3>5. CASE k > 1
      <4>1. PICK d \in Nat : d = callHost[k - 1].depth
        BY <3>2, <3>5
      <4>2. Calls!Under(k) = d + 1 /\ Calls!Base(b, k) = callHost[k - 1].frames
        BY <3>5, <4>1, <3>3 DEF Calls!Base, Calls!Under
      <4> QED
        BY <3>2, <3>5, <4>1, <4>2
    <3> QED
      BY <3>3, <3>4, <3>5
  <2>2. Len(callShadow') = Calls!Under(k) + (Len(callStack') - Calls!Base(b, k) - 1)
    BY <2>1, <1>1, <1>2, <1>9, <1>10, <1>11
  <2> QED
    BY <2>2, <1>12, <1>13 DEF Level, Calls!Sentinel, Calls!TrapAt
<1> QED
  BY <1>1, <1>2, <1>5, <1>6, <1>8, <1>10, <1>14, TracePopped

LEMMA CallFromMainTraced ==
    ASSUME Calls!CallsBounds, Calls!CallsTyped, Calls!HostSound, NEW c, Calls!TraceSound(c), Calls!CallFromMain, NEW b, b = Len(callStack)
    PROVE  Calls!TraceSound(b)'
<1>1. /\ callHost = <<>> /\ callPc' \in {Calls!Entry(f) : f \in GuestFunctions} /\ callLr' = Calls!Sentinel
      /\ callHost' = <<[kind |-> "call"]>> /\ UNCHANGED <<callR4, callStack, callShadow, callExact>>
  BY DEF Calls!CallFromMain
<1>2. Len(callHost') = 1 /\ DOMAIN callHost' = {1} /\ callHost'[1].kind = "call" /\ callHost' # <<>>
  BY <1>1
<1>3. callShadow = <<>> /\ Len(callShadow') = 0
  BY <1>1 DEF Calls!TraceSound
<1>4. Calls!Under(Len(callHost))' = 0
  BY <1>2 DEF Calls!Under
<1>5. callPc'.is = "entry"
  BY <1>1, AddressKinds
<1>6. Level(b)'
  BY <1>1, <1>3, <1>4, <1>5 DEF Level, Calls!Sentinel
<1> QED
  BY <1>2, <1>6 DEF Calls!TraceSound, Level

LEMMA CallsInvInitially ==
    ASSUME Calls!CallsBounds, Calls!CallsInit
    PROVE  Calls!CallsInv
<1>1. /\ callStack = <<>> /\ callHost = <<>> /\ callShadow = <<>> /\ callPc = Calls!Body("host") /\ callLr = Calls!Body("host") /\ callR4 = 0
      /\ callExact = TRUE /\ DOMAIN callHost = {} /\ Len(callStack) = 0 /\ Len(callHost) = 0
  BY DEF Calls!CallsInit
<1>2. \A S : <<>> \in Seq(S)
  OBVIOUS
<1>3. Calls!HostSound /\ Calls!AtHandler
  BY <1>1, <1>2 DEF Calls!HostSound, Calls!AtHandler
<1>4. Calls!StackSound(0) /\ Calls!AtGuest(0) /\ Calls!TraceSound(0) /\ 0 \in 0..Len(callStack)
  BY <1>1, <1>2 DEF Calls!StackSound, Calls!AtGuest, Calls!TraceSound, Calls!InGuest
<1>5. Calls!CallsTyped
  BY <1>1, <1>2 DEF Calls!CallsTyped, Calls!CallsBounds
<1> QED
  BY <1>3, <1>4, <1>5 DEF Calls!CallsInv

(* The invariant one step later, with the base of the first call. *)
LEMMA CallsInvNext ==
    ASSUME Calls!CallsTyped', Calls!HostSound', Calls!AtHandler', NEW b, b \in 0..Len(callStack'), Calls!StackSound(b)', Calls!AtGuest(b)',
           callExact' => Calls!TraceSound(b)'
    PROVE  Calls!CallsInv'
<1>1. PICK c : c = b
  OBVIOUS
<1>2. (\E d \in 0..Len(callStack) : Calls!StackSound(d) /\ Calls!AtGuest(d) /\ (callExact => Calls!TraceSound(d)))'
  <2>1. b \in (0..Len(callStack))'
    OBVIOUS
  <2> QED
    BY <2>1
<1> QED
  BY <1>2 DEF Calls!CallsInv

LEMMA CallsInvStep ==
    ASSUME Calls!CallsBounds, Calls!CallsInv, Calls!CallsNext
    PROVE  Calls!CallsInv'
<1>1. PICK b \in 0..Len(callStack) : Calls!StackSound(b) /\ Calls!AtGuest(b) /\ (callExact => Calls!TraceSound(b))
  BY DEF Calls!CallsInv
<1>2. Calls!CallsTyped /\ Calls!HostSound /\ Calls!AtHandler
  BY DEF Calls!CallsInv
<1>3. CASE Calls!CallFromMain
  <2>1. PICK c : c = Len(callStack)
    OBVIOUS
  <2>2. callExact' = callExact
    BY <1>3 DEF Calls!CallFromMain
  <2>3. callExact' => Calls!TraceSound(c)'
    BY <2>1, <2>2, <1>1, <1>2, <1>3, CallFromMainTraced
  <2>4. Calls!CallsTyped' /\ Calls!HostSound' /\ Calls!AtHandler' /\ Calls!StackSound(c)' /\ Calls!AtGuest(c)' /\ c \in 0..Len(callStack')
    BY <2>1, <1>1, <1>2, <1>3, CallFromMainKeeps
  <2> QED
    BY <2>3, <2>4, CallsInvNext
<1>4. CASE Calls!CallFromHandler
  <2>1. callExact' = callExact /\ callStack' = callStack
    BY <1>4 DEF Calls!CallFromHandler
  <2>2. callExact' => Calls!TraceSound(b)'
    BY <2>1, <1>1, <1>2, <1>4, CallFromHandlerTraced
  <2>3. Calls!CallsTyped' /\ Calls!HostSound' /\ Calls!AtHandler' /\ Calls!StackSound(b)' /\ Calls!AtGuest(b)'
    BY <1>1, <1>2, <1>4, CallFromHandlerKeeps
  <2>4. b \in 0..Len(callStack')
    BY <2>1
  <2> QED
    BY <2>2, <2>3, <2>4, CallsInvNext
<1>5. CASE Calls!CallReturns
  <2>1. callExact' = callExact /\ callStack' = callStack
    BY <1>5 DEF Calls!CallReturns
  <2>2. callExact' => Calls!TraceSound(b)'
    BY <2>1, <1>1, <1>2, <1>5, CallReturnsTraced
  <2>3. Calls!CallsTyped' /\ Calls!HostSound' /\ Calls!AtHandler' /\ Calls!StackSound(b)' /\ Calls!AtGuest(b)'
    BY <1>1, <1>2, <1>5, CallReturnsKeeps
  <2>4. b \in 0..Len(callStack')
    BY <2>1
  <2> QED
    BY <2>2, <2>3, <2>4, CallsInvNext
<1>6. CASE Calls!Enter
  <2>1. callExact' = callExact
    BY <1>6 DEF Calls!Enter
  <2>2. callExact' => Calls!TraceSound(b)'
    BY <2>1, <1>1, <1>2, <1>6, EnterTraced
  <2>3. Calls!CallsTyped' /\ Calls!HostSound' /\ Calls!AtHandler' /\ Calls!StackSound(b)' /\ Calls!AtGuest(b)' /\ b <= Len(callStack')
    BY <1>1, <1>2, <1>6, EnterKeeps
  <2>4. b \in 0..Len(callStack')
    BY <2>3 DEF Calls!StackSound
  <2> QED
    BY <2>2, <2>3, <2>4, CallsInvNext
<1>7. CASE Calls!GuestCall
  <2>1. callExact' = callExact /\ callStack' = callStack
    BY <1>7 DEF Calls!GuestCall
  <2>2. callExact' => Calls!TraceSound(b)'
    BY <2>1, <1>1, <1>2, <1>7, GuestCallTraced
  <2>3. Calls!CallsTyped' /\ Calls!HostSound' /\ Calls!AtHandler' /\ Calls!StackSound(b)' /\ Calls!AtGuest(b)'
    BY <1>1, <1>2, <1>7, GuestCallKeeps
  <2>4. b \in 0..Len(callStack')
    BY <2>1
  <2> QED
    BY <2>2, <2>3, <2>4, CallsInvNext
<1>8. CASE Calls!GuestTrap
  <2>1. callExact' = callExact /\ callStack' = callStack
    BY <1>8 DEF Calls!GuestTrap
  <2>2. callExact' => Calls!TraceSound(b)'
    BY <2>1, <1>1, <1>2, <1>8, GuestTrapTraced
  <2>3. Calls!CallsTyped' /\ Calls!HostSound' /\ Calls!AtHandler' /\ Calls!StackSound(b)' /\ Calls!AtGuest(b)'
    BY <1>1, <1>2, <1>8, GuestTrapKeeps
  <2>4. b \in 0..Len(callStack')
    BY <2>1
  <2> QED
    BY <2>2, <2>3, <2>4, CallsInvNext
<1>9. CASE Calls!GuestReturn
  <2>1. callExact' => callExact
    BY <1>9 DEF Calls!GuestReturn
  <2>2. callExact' => Calls!TraceSound(b)'
    BY <2>1, <1>1, <1>2, <1>9, GuestReturnTraced
  <2>3. Calls!CallsTyped' /\ Calls!HostSound' /\ Calls!AtHandler' /\ Calls!StackSound(b)' /\ Calls!AtGuest(b)' /\ b <= Len(callStack')
    BY <1>1, <1>2, <1>9, GuestReturnKeeps
  <2>4. b \in 0..Len(callStack')
    BY <2>3 DEF Calls!StackSound
  <2> QED
    BY <2>2, <2>3, <2>4, CallsInvNext
<1>10. CASE Calls!Dispatch
  <2>1. callExact' = callExact /\ callStack' = callStack
    BY <1>10 DEF Calls!Dispatch
  <2>2. callExact' => Calls!TraceSound(b)'
    BY <2>1, <1>1, <1>2, <1>10, DispatchTraced
  <2>3. Calls!CallsTyped' /\ Calls!HostSound' /\ Calls!AtHandler' /\ Calls!StackSound(b)' /\ Calls!AtGuest(b)'
    BY <1>1, <1>2, <1>10, DispatchKeeps
  <2>4. b \in 0..Len(callStack')
    BY <2>1
  <2> QED
    BY <2>2, <2>3, <2>4, CallsInvNext
<1>11. CASE Calls!HandlerReturns
  <2>1. callExact' = callExact /\ callStack' = callStack
    BY <1>11 DEF Calls!HandlerReturns
  <2>2. callExact' => Calls!TraceSound(b)'
    BY <2>1, <1>1, <1>2, <1>11, HandlerReturnsTraced
  <2>3. Calls!CallsTyped' /\ Calls!HostSound' /\ Calls!AtHandler' /\ Calls!StackSound(b)' /\ Calls!AtGuest(b)'
    BY <1>1, <1>2, <1>11, HandlerReturnsKeeps
  <2>4. b \in 0..Len(callStack')
    BY <2>1
  <2> QED
    BY <2>2, <2>3, <2>4, CallsInvNext
<1>12. CASE Calls!Throw
  <2>1. /\ Calls!CallsTyped' /\ Calls!HostSound' /\ Calls!AtHandler' /\ Calls!StackSound(b)' /\ Calls!AtGuest(b)' /\ b <= Len(callStack')
        /\ ~callExact'
    BY <1>1, <1>2, <1>12, ThrowKeeps
  <2>2. b \in 0..Len(callStack')
    BY <2>1 DEF Calls!StackSound
  <2> QED
    BY <2>1, <2>2, CallsInvNext
<1> QED
  BY <1>3, <1>4, <1>5, <1>6, <1>7, <1>8, <1>9, <1>10, <1>11, <1>12 DEF Calls!CallsNext

LEMMA CallsInvStutters ==
    ASSUME Calls!CallsInv, UNCHANGED Calls!callsVars
    PROVE  Calls!CallsInv'
<1>1. PICK b \in 0..Len(callStack) : Calls!StackSound(b) /\ Calls!AtGuest(b) /\ (callExact => Calls!TraceSound(b))
  BY DEF Calls!CallsInv
<1>2. Calls!CallsTyped /\ Calls!HostSound /\ Calls!AtHandler
  BY DEF Calls!CallsInv
<1>3. /\ callPc' = callPc /\ callLr' = callLr /\ callR4' = callR4 /\ callStack' = callStack /\ callHost' = callHost /\ callShadow' = callShadow
      /\ callExact' = callExact
  BY DEF Calls!callsVars
<1>4. Calls!HostSound' /\ Calls!StackSound(b)'
  BY <1>1, <1>2, <1>3, StacksStand
<1>5. Calls!CallsTyped'
  BY <1>2, <1>3 DEF Calls!CallsTyped, Calls!TraceFrames, Calls!Bodies, Calls!Traps,
     Calls!Sentinel
<1>6. Calls!AtHandler' /\ Calls!InGuest' = Calls!InGuest
  BY <1>2, <1>3 DEF Calls!AtHandler, Calls!InGuest, Calls!Traps, Calls!Top
<1>7. Calls!AtGuest(b)'
  BY <1>1, <1>3, <1>6 DEF Calls!AtGuest, Calls!Bodies, Calls!Traps, Calls!Sentinel, Calls!Base
<1>8. callExact' => Calls!TraceSound(b)'
  BY <1>1, <1>3, <1>6 DEF Calls!TraceSound, Calls!Sentinel, Calls!Base, Calls!Under,
     Calls!TrapAt
<1>9. b \in 0..Len(callStack')
  BY <1>3
<1> QED
  BY <1>4, <1>5, <1>6, <1>7, <1>8, <1>9, CallsInvNext

LEMMA HandlersGoBack ==
    ASSUME Calls!CallsBounds, Calls!CallsInv
    PROVE  Calls!GoesBack
<1>1. PICK b \in 0..Len(callStack) : Calls!StackSound(b)
  BY DEF Calls!CallsInv
<1>2. Calls!CallsTyped /\ Calls!HostSound /\ Calls!AtHandler
  BY DEF Calls!CallsInv
<1> QED
  BY <1>1, <1>2, HandlerReturnsKeeps DEF Calls!GoesBack

LEMMA TraceExactThen ==
    ASSUME Calls!CallsInv
    PROVE  Calls!TraceIsExact
<1>1. PICK b \in 0..Len(callStack) : callExact => Calls!TraceSound(b)
  BY DEF Calls!CallsInv
<1> QED
  BY <1>1, HostTypes DEF Calls!CallsInv, Calls!TraceIsExact, Calls!TraceSound

LEMMA CallsTypedThen ==
    ASSUME Calls!CallsBounds, Calls!CallsInv
    PROVE  Calls!CallsTypeOK
<1>1. callPc.is \in {"trap", "entry", "body"}
  BY AddressKinds, TrapKinds DEF Calls!CallsInv, Calls!CallsTyped
<1>2. callLr.is \in {"trap", "body"}
  BY AddressKinds, TrapKinds DEF Calls!CallsInv, Calls!CallsTyped
<1> QED
  BY <1>1, <1>2 DEF Calls!CallsInv, Calls!CallsTyped, Calls!CallsTypeOK

-----------------------------------------------------------------------------
(* The runtime the modules call (ModRuntime). *)
Runtime == INSTANCE ModRuntime WITH
    Fields <- AppletFields,
    functions <- v1, table <- v2, phase <- v3, context <- v4, pending <- v5,
    field <- v6, created <- v7

rtFunctions == v1
rtTable == v2
rtPhase == v3
rtContext == v4
rtPending == v5
rtField == v6
rtCreated == v7
USE DEF rtFunctions, rtTable, rtPhase, rtContext, rtPending, rtField, rtCreated

LEMMA RuntimeInvInitially ==
    ASSUME Runtime!RuntimeInit
    PROVE  Runtime!RuntimeInv
  BY DEF Runtime!RuntimeInit, Runtime!ContextInit, Runtime!RuntimeInv,
     Runtime!ContextTypeOK, Runtime!Blocks, Runtime!Objects

(* A block's fields change: those of a set get a value. *)
LEMMA FieldsChange ==
    ASSUME Runtime!ContextTypeOK, NEW b \in Runtime!Blocks, NEW S \in SUBSET AppletFields, NEW v \in Runtime!Objects, NEW new,
           new = [f \in AppletFields |-> IF f \in S THEN v ELSE rtField[b][f]],
           rtField' = [rtField EXCEPT ![b] = new]
    PROVE  /\ rtField' \in [Runtime!Blocks -> [AppletFields -> Runtime!Objects]]
           /\ \A c \in Runtime!Blocks, f \in AppletFields :
                  rtField'[c][f] = IF c = b /\ f \in S THEN v ELSE rtField[c][f]
<1>1. rtField \in [Runtime!Blocks -> [AppletFields -> Runtime!Objects]] /\ "applet" \in Runtime!Blocks
  BY DEF Runtime!ContextTypeOK, Runtime!Blocks
<1>2. \A f \in AppletFields : rtField[b][f] \in Runtime!Objects
  BY <1>1
<1>3. new \in [AppletFields -> Runtime!Objects] /\ \A f \in AppletFields : new[f] = IF f \in S THEN v ELSE rtField[b][f]
  BY <1>2
<1>4. rtField' \in [Runtime!Blocks -> [AppletFields -> Runtime!Objects]]
  BY <1>1, <1>3
<1>5. \A c \in Runtime!Blocks : rtField'[c] = IF c = b THEN new ELSE rtField[c]
  BY <1>1
<1> QED
  BY <1>3, <1>4, <1>5

LEMMA RuntimeInvStep ==
    ASSUME Runtime!RuntimeInv, Runtime!RuntimeNext
    PROVE  Runtime!RuntimeInv'
<1>1. /\ Runtime!ContextTypeOK /\ "applet" \in Runtime!Blocks /\ "boot" \in Runtime!Blocks /\ rtContext \in Runtime!Blocks
      /\ rtPending \subseteq AppletFields /\ rtCreated \in BOOLEAN /\ rtField \in [Runtime!Blocks -> [AppletFields -> Runtime!Objects]]
  BY DEF Runtime!RuntimeInv, Runtime!ContextTypeOK, Runtime!Blocks
<1>2. CASE UNCHANGED Runtime!contextVars
  BY <1>2 DEF Runtime!contextVars, Runtime!RuntimeInv, Runtime!ContextTypeOK
<1>3. CASE \E f \in AppletFields : Runtime!SetObject(f)
  BY <1>3 DEF Runtime!SetObject, Runtime!RuntimeInv, Runtime!ContextTypeOK
<1>4. CASE Runtime!SetContextAddress
  BY <1>4, <1>1 DEF Runtime!SetContextAddress, Runtime!RuntimeInv, Runtime!ContextTypeOK,
     Runtime!Primed
<1>5. CASE Runtime!GetAppContext
  <2>1. /\ rtField' = [rtField EXCEPT ![rtContext] =
                      [f \in AppletFields |-> IF f \in rtPending THEN "os" ELSE rtField[rtContext][f]]]
        /\ rtPending' = {} /\ UNCHANGED <<rtContext, rtCreated>>
    BY <1>5 DEF Runtime!GetAppContext
  <2>2. "os" \in Runtime!Objects
    BY DEF Runtime!Objects
  <2>3. /\ rtField' \in [Runtime!Blocks -> [AppletFields -> Runtime!Objects]]
        /\ \A c \in Runtime!Blocks, f \in AppletFields :
               rtField'[c][f] = IF c = rtContext /\ f \in rtPending THEN "os" ELSE rtField[c][f]
    BY <1>1, <2>1, <2>2, FieldsChange
  <2>4. \A f \in AppletFields \ Runtime!Primed : rtField'["applet"][f] # "os"
    BY <1>1, <2>3 DEF Runtime!RuntimeInv
  <2> QED
    BY <1>1, <2>1, <2>3, <2>4 DEF Runtime!RuntimeInv, Runtime!ContextTypeOK
<1>6. CASE Runtime!CreateApplet
  BY <1>6 DEF Runtime!CreateApplet, Runtime!RuntimeInv, Runtime!ContextTypeOK
<1>7. CASE \E f \in AppletFields : Runtime!GuestWrites(Runtime!AppInstance, f)
  <2>1. PICK f \in AppletFields : Runtime!GuestWrites(Runtime!AppInstance, f)
    BY <1>7
  <2>2. PICK b \in Runtime!Blocks : b = Runtime!AppInstance
    BY <1>1 DEF Runtime!AppInstance
  <2>3. rtField' = [rtField EXCEPT ![b][f] = "guest"] /\ UNCHANGED <<rtContext, rtPending, rtCreated>>
    BY <2>1, <2>2 DEF Runtime!GuestWrites
  <2>4. "guest" \in Runtime!Objects
    BY DEF Runtime!Objects
  <2>5. PICK new : new = [g \in AppletFields |-> IF g \in {f} THEN "guest" ELSE rtField[b][g]]
    OBVIOUS
  <2>6. rtField' = [rtField EXCEPT ![b] = new]
    BY <1>1, <2>3, <2>5
  <2>7. /\ rtField' \in [Runtime!Blocks -> [AppletFields -> Runtime!Objects]]
        /\ \A c \in Runtime!Blocks, g \in AppletFields :
               rtField'[c][g] = IF c = b /\ g \in {f} THEN "guest" ELSE rtField[c][g]
    BY <1>1, <2>4, <2>5, <2>6, FieldsChange
  <2>8. \A g \in AppletFields \ Runtime!Primed : rtField'["applet"][g] # "os"
    BY <1>1, <2>7 DEF Runtime!RuntimeInv
  <2> QED
    BY <1>1, <2>3, <2>7, <2>8 DEF Runtime!RuntimeInv, Runtime!ContextTypeOK
<1> QED
  BY <1>2, <1>3, <1>4, <1>5, <1>6, <1>7 DEF Runtime!RuntimeNext, Runtime!TableNext,
     Runtime!ContextNext

LEMMA RuntimeInvStutters ==
    ASSUME Runtime!RuntimeInv, UNCHANGED Runtime!runtimeVars
    PROVE  Runtime!RuntimeInv'
  BY DEF Runtime!runtimeVars, Runtime!contextVars, Runtime!RuntimeInv, Runtime!ContextTypeOK

LEMMA AppletIsSpared ==
    ASSUME Runtime!RuntimeInv'
    PROVE  Runtime!AppletSpared
  BY DEF Runtime!RuntimeInv, Runtime!AppletSpared

-----------------------------------------------------------------------------
(* The heap object (GuestHeap). *)
Heap == INSTANCE GuestHeap WITH
    Word <- HeapWord, MaxBlocks <- MaxHeapBlocks,
    cursor <- v1, sizes <- v2, bytes <- v3, held <- v4, saved <- v5

heapCursor == v1
heapSizes == v2
heapBytes == v3
heapHeld == v4
heapSaved == v5
USE DEF heapCursor, heapSizes, heapBytes, heapHeld, heapSaved

LEMMA Multiple ==
    ASSUME NEW w \in Nat, w > 0, NEW m \in Nat, m % w = 0
    PROVE  \E k \in Nat : m = w * k
<1> DEFINE k == m \div w
           r == m % w
<1>1. k \in Nat /\ r \in 0..w - 1 /\ m = w * k + r
  OBVIOUS
<1>2. r = 0
  OBVIOUS
<1> HIDE DEF k, r
<1>3. w * k \in Nat
  BY <1>1
<1>4. m = w * k
  BY <1>1, <1>2, <1>3
<1> QED
  BY <1>1, <1>4

(* Rounding up to whole words. *)
LEMMA WholeWords ==
    ASSUME Heap!HeapBounds, NEW n \in Nat
    PROVE  /\ Heap!Aligned(n) \in Nat /\ n <= Heap!Aligned(n) /\ Heap!Aligned(n) % HeapWord = 0
           /\ \A m \in Nat : m % HeapWord = 0 /\ n <= m => Heap!Aligned(n) <= m
<1> DEFINE p == n + HeapWord - 1
           q == p \div HeapWord
           r == p % HeapWord
<1>1. HeapWord \in Nat /\ HeapWord > 0 /\ p \in Nat
  BY DEF Heap!HeapBounds
<1>2. q \in Nat /\ r \in 0..HeapWord - 1 /\ p = HeapWord * q + r
  BY <1>1
<1>3. Heap!Aligned(n) = q * HeapWord
  BY DEF Heap!Aligned
<1>4. q * HeapWord = p - r /\ q * HeapWord \in Nat
  <2> HIDE DEF p, q, r
  <2> QED
    BY <1>1, <1>2
<1>5. n <= p - r
  BY <1>1, <1>2
<1>6. (q * HeapWord) % HeapWord = 0
  <2> HIDE DEF q
  <2> QED
    BY <1>1, <1>2
<1>7. ASSUME NEW m \in Nat, m % HeapWord = 0, n <= m
      PROVE  q * HeapWord <= m
  <2>1. PICK k \in Nat : m = HeapWord * k
    BY <1>1, <1>7, Multiple
  <2>2. HeapWord * q <= HeapWord * k + HeapWord - 1
    BY <1>1, <1>2, <2>1, <1>7
  <2>3. q <= k
    <3> HIDE DEF q, p, r
    <3>1. SUFFICES ASSUME q >= k + 1
                   PROVE  FALSE
      BY <1>2, <2>1
    <3>2. HeapWord * q >= HeapWord * (k + 1)
      BY <3>1, <1>1, <1>2, <2>1
    <3>3. HeapWord * (k + 1) = HeapWord * k + HeapWord /\ HeapWord * k \in Nat /\ HeapWord * q \in Nat
      BY <1>1, <1>2, <2>1
    <3> QED
      BY <3>2, <3>3, <2>2, <1>1
  <2>4. HeapWord * q <= HeapWord * k
    <3> HIDE DEF q, p, r
    <3> QED
      BY <2>3, <1>1, <1>2, <2>1
  <2> QED
    BY <2>1, <2>4, <1>1, <1>2
<1> HIDE DEF p, q, r
<1> QED
  BY <1>1, <1>2, <1>3, <1>4, <1>5, <1>6, <1>7

LEMMA WordsAdd ==
    ASSUME Heap!HeapBounds, NEW a \in Nat, NEW b \in Nat, a % HeapWord = 0, b % HeapWord = 0
    PROVE  (a + b) % HeapWord = 0
<1>1. HeapWord \in Nat /\ HeapWord > 0
  BY DEF Heap!HeapBounds
<1>2. ASSUME NEW m \in Nat, m % HeapWord = 0
      PROVE  \E k \in Nat : m = HeapWord * k
  BY <1>1, <1>2, Multiple
<1>3. PICK j \in Nat : a = HeapWord * j
  BY <1>2
<1>4. PICK k \in Nat : b = HeapWord * k
  BY <1>2
<1>5. a + b = HeapWord * (j + k)
  BY <1>1, <1>3, <1>4
<1>6. \A m \in Nat : (HeapWord * m) % HeapWord = 0
  BY <1>1
<1> QED
  BY <1>5, <1>6

(* A block is cut off at the cursor: what was known of the others stays true. *)
LEMMA StillKnown ==
    ASSUME Heap!HeapBounds, NEW H, Heap!Known(H), heapCursor \in Nat, heapCursor' \in Nat, heapCursor <= heapCursor',
           \A b \in H : b.size > 0 => b.at \in DOMAIN heapSizes' /\ heapSizes'[b.at] = heapSizes[b.at]
    PROVE  Heap!Known(H)'
<1>1. /\ H \subseteq [at : Heap!Heap \cup {HeapBytes}, size : 0..HeapBytes]
      /\ \A b \in H : b.at % HeapWord = 0 /\ b.at + b.size <= heapCursor
                      /\ (b.size > 0 => b.at \in DOMAIN heapSizes /\ heapSizes[b.at] = b.size)
      /\ \A b, c \in H : b # c => Heap!Cells(b) \cap Heap!Cells(c) = {}
  BY DEF Heap!Known
<1>2. \A b \in H : b.at \in Nat /\ b.size \in Nat
  BY <1>1 DEF Heap!Heap, Heap!HeapBounds
<1>3. \A b \in H : b.at + b.size <= heapCursor'
  BY <1>1, <1>2
<1>4. \A b \in H : b.size > 0 => b.at \in DOMAIN heapSizes' /\ heapSizes'[b.at] = b.size
  BY <1>1
<1> QED
  BY <1>1, <1>3, <1>4 DEF Heap!Known, Heap!Cells, Heap!Heap

(* What Allocate does when there is space. *)
LEMMA AllocationKeeps ==
    ASSUME Heap!HeapBounds, Heap!HeapInv, NEW size \in Nat, Heap!Allocate(size) # Heap!Null,
           heapCursor' = heapCursor + Heap!Aligned(size),
           heapSizes' = [a \in DOMAIN heapSizes \cup {heapCursor} |-> IF a = heapCursor THEN size ELSE heapSizes[a]],
           heapBytes' \in [Heap!Heap -> Heap!Values],
           heapHeld' = heapHeld \cup {[at |-> heapCursor, size |-> size]}, heapSaved' = heapSaved
    PROVE  Heap!HeapInv'
<1>1. /\ heapCursor \in Nat /\ heapCursor <= HeapBytes /\ heapCursor % HeapWord = 0 /\ HeapBytes \in Nat
      /\ Heap!Aligned(size) \in Nat /\ size <= Heap!Aligned(size) /\ Heap!Aligned(size) % HeapWord = 0
  BY WholeWords DEF Heap!HeapInv, Heap!HeapBounds
<1>2. Heap!Aligned(size) <= HeapBytes - heapCursor
  BY <1>1 DEF Heap!Allocate, Heap!HeapAvail
<1>3. heapCursor' \in 0..HeapBytes /\ heapCursor' % HeapWord = 0 /\ heapCursor <= heapCursor' /\ heapCursor' \in Nat
  <2>1. heapCursor + Heap!Aligned(size) \in 0..HeapBytes /\ heapCursor <= heapCursor + Heap!Aligned(size)
        /\ heapCursor + Heap!Aligned(size) \in Nat
    BY <1>1, <1>2
  <2>2. (heapCursor + Heap!Aligned(size)) % HeapWord = 0
    BY <1>1, WordsAdd
  <2> QED
    BY <2>1, <2>2
<1>4. DOMAIN heapSizes' = DOMAIN heapSizes \cup {heapCursor} /\ heapSizes'[heapCursor] = size
      /\ \A a \in DOMAIN heapSizes : a # heapCursor => heapSizes'[a] = heapSizes[a]
  OBVIOUS
<1>5. \A a \in DOMAIN heapSizes' : a \in Nat /\ a % HeapWord = 0 /\ heapSizes'[a] \in Nat /\ a + heapSizes'[a] <= heapCursor'
  <2> SUFFICES ASSUME NEW a \in DOMAIN heapSizes'
               PROVE  a \in Nat /\ a % HeapWord = 0 /\ heapSizes'[a] \in Nat /\ a + heapSizes'[a] <= heapCursor'
    OBVIOUS
  <2>1. CASE a = heapCursor
    BY <2>1, <1>1, <1>4
  <2>2. CASE a # heapCursor
    <3>1. a \in DOMAIN heapSizes /\ heapSizes'[a] = heapSizes[a]
      BY <2>2, <1>4
    <3>2. a \in Nat /\ a % HeapWord = 0 /\ heapSizes[a] \in Nat /\ a + heapSizes[a] <= heapCursor
      BY <3>1 DEF Heap!HeapInv
    <3> QED
      BY <3>1, <3>2, <1>1, <1>3
  <2> QED
    BY <2>1, <2>2
<1>6. ASSUME NEW H, Heap!Known(H), NEW b \in H, b.size > 0
      PROVE  b.at \in DOMAIN heapSizes' /\ heapSizes'[b.at] = heapSizes[b.at]
  <2>1. b.at \in DOMAIN heapSizes /\ b.at + b.size <= heapCursor /\ b.at \in Nat /\ b.size \in Nat
    BY <1>6 DEF Heap!Known, Heap!Heap, Heap!HeapBounds
  <2>2. b.at # heapCursor
    BY <2>1, <1>1, <1>6
  <2> QED
    BY <2>1, <2>2, <1>4
<1>7. heapSaved # Heap!NoSave => Heap!Known(heapSaved.held)'
  <2> SUFFICES ASSUME heapSaved # Heap!NoSave
               PROVE  Heap!Known(heapSaved.held)'
    OBVIOUS
  <2>1. PICK H : H = heapSaved.held
    OBVIOUS
  <2>2. Heap!Known(H)
    BY <2>1 DEF Heap!HeapInv
  <2>3. Heap!Known(H)'
    BY <2>2, <1>1, <1>3, <1>6, StillKnown
  <2> QED
    BY <2>1, <2>3 DEF Heap!Known
<1>8. Heap!Known(heapHeld)'
  <2>1. PICK H : H = heapHeld
    OBVIOUS
  <2>2. Heap!Known(H)
    BY <2>1 DEF Heap!HeapInv
  <2>3. Heap!Known(H)'
    BY <2>2, <1>1, <1>3, <1>6, StillKnown
  <2>4. PICK new : new = [at |-> heapCursor, size |-> size]
    OBVIOUS
  <2>5. new \in [at : Heap!Heap \cup {HeapBytes}, size : 0..HeapBytes]
        /\ new.at = heapCursor /\ new.size = size
    BY <2>4, <1>1, <1>2 DEF Heap!Heap
  <2>6. /\ new.at % HeapWord = 0 /\ new.at + new.size <= heapCursor'
        /\ new.at \in DOMAIN heapSizes' /\ heapSizes'[new.at] = new.size
    BY <2>5, <1>1, <1>4
  <2>7. \A b \in H : Heap!Cells(b) \cap Heap!Cells(new) = {}
    <3> SUFFICES ASSUME NEW b \in H
                 PROVE  Heap!Cells(b) \cap Heap!Cells(new) = {}
      OBVIOUS
    <3>1. b.at \in Nat /\ b.size \in Nat /\ b.at + b.size <= heapCursor
      BY <2>2 DEF Heap!Known, Heap!Heap, Heap!HeapBounds
    <3> QED
      BY <3>1, <2>5, <1>1 DEF Heap!Cells
  <2>8. heapHeld' = H \cup {new}
    BY <2>1, <2>4
  <2>9. \A b, c \in heapHeld' : b # c => Heap!Cells(b) \cap Heap!Cells(c) = {}
    <3>1. \A b, c \in H : b # c => Heap!Cells(b) \cap Heap!Cells(c) = {}
      BY <2>2 DEF Heap!Known
    <3> QED
      BY <3>1, <2>7, <2>8
  <2>10. heapHeld' \subseteq [at : Heap!Heap \cup {HeapBytes}, size : 0..HeapBytes]
    BY <2>2, <2>5, <2>8 DEF Heap!Known
  <2>11. \A b \in heapHeld' :
           /\ b.at % HeapWord = 0 /\ b.at + b.size <= heapCursor'
           /\ b.size > 0 => b.at \in DOMAIN heapSizes' /\ heapSizes'[b.at] = b.size
    BY <2>3, <2>6, <2>8 DEF Heap!Known
  <2> QED
    BY <2>9, <2>10, <2>11 DEF Heap!Known, Heap!Cells, Heap!Heap
<1> QED
  BY <1>3, <1>5, <1>7, <1>8 DEF Heap!HeapInv, Heap!Heap, Heap!Values, Heap!NoSave

LEMMA ZeroedKeeps ==
    ASSUME NEW m \in [Heap!Heap -> Heap!Values], NEW at \in Nat, NEW n \in Nat
    PROVE  /\ Heap!Zeroed(m, at, n) \in [Heap!Heap -> Heap!Values]
           /\ \A a \in Heap!Heap : Heap!Zeroed(m, at, n)[a] = IF at <= a /\ a < at + n THEN 0 ELSE m[a]
<1>1. \A a \in Heap!Heap : a \in at..at + n - 1 <=> at <= a /\ a < at + n
  BY DEF Heap!Heap
<1> QED
  BY <1>1 DEF Heap!Zeroed, Heap!Values

LEMMA CopiedKeeps ==
    ASSUME NEW m \in [Heap!Heap -> Heap!Values], NEW to \in Nat, NEW from \in Nat, NEW n \in Nat
    PROVE  /\ Heap!Copied(m, to, from, n) \in [Heap!Heap -> Heap!Values]
           /\ \A a \in Heap!Heap : a < to \/ a >= to + n => Heap!Copied(m, to, from, n)[a] = m[a]
           /\ \A a \in Heap!Heap : to <= a /\ a < to + n /\ from + (a - to) \in Heap!Heap =>
                  Heap!Copied(m, to, from, n)[a] = m[from + (a - to)]
<1>1. \A a \in Heap!Heap : a \in to..to + n - 1 <=> to <= a /\ a < to + n
  BY DEF Heap!Heap
<1>2. \A a \in Heap!Heap : Heap!Copied(m, to, from, n)[a] =
          IF a \in to..to + n - 1 /\ from + (a - to) \in Heap!Heap THEN m[from + (a - to)] ELSE m[a]
  BY DEF Heap!Copied
<1>3. \A a \in Heap!Heap : Heap!Copied(m, to, from, n)[a] \in Heap!Values
  BY <1>2
<1>4. Heap!Copied(m, to, from, n) \in [Heap!Heap -> Heap!Values]
  BY <1>3 DEF Heap!Copied
<1> QED
  BY <1>1, <1>2, <1>4 DEF Heap!Heap

(* A call that allocates: nothing changes, or a block is cut off and what its
   caller puts in it does not reach below the cursor. *)
Grows ==
    \/ UNCHANGED <<heapCursor, heapSizes, heapBytes, heapHeld>>
    \/ \E size \in Nat :
          /\ Heap!Allocate(size) # Heap!Null
          /\ heapCursor' = heapCursor + Heap!Aligned(size)
          /\ heapSizes' = [a \in DOMAIN heapSizes \cup {heapCursor} |-> IF a = heapCursor THEN size ELSE heapSizes[a]]
          /\ heapBytes' \in [Heap!Heap -> Heap!Values] /\ \A a \in Heap!Heap : a < heapCursor => heapBytes'[a] = heapBytes[a]
          /\ heapHeld' = heapHeld \cup {[at |-> heapCursor, size |-> size]}

LEMMA Shortest ==
    ASSUME NEW a \in Nat, NEW b \in Nat
    PROVE  Heap!Least({a, b}) = IF a <= b THEN a ELSE b
  BY DEF Heap!Least

LEMMA ClearedBlock ==
    ASSUME Heap!HeapBounds, Heap!HeapInv, NEW size \in Nat, NEW clear \in BOOLEAN, NEW m,
           m = IF clear THEN Heap!Zeroed(heapBytes, heapCursor, Heap!Aligned(size)) ELSE heapBytes
    PROVE  m \in [Heap!Heap -> Heap!Values] /\ \A a \in Heap!Heap : a < heapCursor => m[a] = heapBytes[a]
<1>1. heapBytes \in [Heap!Heap -> Heap!Values] /\ heapCursor \in Nat /\ Heap!Aligned(size) \in Nat
  BY WholeWords DEF Heap!HeapInv, Heap!HeapBounds
<1>2. CASE clear
  <2>1. m = Heap!Zeroed(heapBytes, heapCursor, Heap!Aligned(size))
    BY <1>2
  <2>2. /\ m \in [Heap!Heap -> Heap!Values]
        /\ \A a \in Heap!Heap : m[a] = IF heapCursor <= a /\ a < heapCursor + Heap!Aligned(size) THEN 0 ELSE heapBytes[a]
    BY <1>1, <2>1, ZeroedKeeps
  <2> QED
    BY <1>1, <2>2 DEF Heap!Heap
<1>3. CASE ~clear
  BY <1>1, <1>3
<1> QED
  BY <1>2, <1>3

LEMMA AllocateOnly ==
    ASSUME Heap!HeapBounds, Heap!HeapInv, NEW size \in Nat, NEW clear \in BOOLEAN, Heap!Allocated(size, clear, Heap!Nothing)
    PROVE  Grows
<1>1. CASE Heap!Allocate(size) = Heap!Null
  BY <1>1 DEF Heap!Allocated, Grows
<1>2. CASE Heap!Allocate(size) # Heap!Null
  <2>1. Heap!Allocate(size) = heapCursor
    BY <1>2 DEF Heap!Allocate
  <2>2. PICK m : m = IF clear THEN Heap!Zeroed(heapBytes, heapCursor, Heap!Aligned(size)) ELSE heapBytes
    OBVIOUS
  <2>3. /\ heapCursor' = heapCursor + Heap!Aligned(size) /\ heapBytes' = m
        /\ heapSizes' = [a \in DOMAIN heapSizes \cup {heapCursor} |-> IF a = heapCursor THEN size ELSE heapSizes[a]]
        /\ heapHeld' = heapHeld \cup {[at |-> heapCursor, size |-> size]}
    BY <1>2, <2>1, <2>2 DEF Heap!Allocated, Heap!Nothing
  <2>4. m \in [Heap!Heap -> Heap!Values] /\ \A a \in Heap!Heap : a < heapCursor => m[a] = heapBytes[a]
    BY <2>2, ClearedBlock
  <2> QED
    BY <1>2, <2>3, <2>4 DEF Grows
<1> QED
  BY <1>1, <1>2

LEMMA AllocateCopy ==
    ASSUME Heap!HeapBounds, Heap!HeapInv, NEW size \in Nat, NEW clear \in BOOLEAN, NEW from \in Nat, NEW n \in Nat,
           Heap!Allocated(size, clear, LAMBDA x : Heap!Copied(x, heapCursor, from, n))
    PROVE  Grows
<1>1. CASE Heap!Allocate(size) = Heap!Null
  BY <1>1 DEF Heap!Allocated, Grows
<1>2. CASE Heap!Allocate(size) # Heap!Null
  <2>1. Heap!Allocate(size) = heapCursor /\ heapCursor \in Nat
    BY <1>2 DEF Heap!Allocate, Heap!HeapInv
  <2>2. PICK m : m = IF clear THEN Heap!Zeroed(heapBytes, heapCursor, Heap!Aligned(size)) ELSE heapBytes
    OBVIOUS
  <2>3. /\ heapCursor' = heapCursor + Heap!Aligned(size) /\ heapBytes' = Heap!Copied(m, heapCursor, from, n)
        /\ heapSizes' = [a \in DOMAIN heapSizes \cup {heapCursor} |-> IF a = heapCursor THEN size ELSE heapSizes[a]]
        /\ heapHeld' = heapHeld \cup {[at |-> heapCursor, size |-> size]}
    BY <1>2, <2>1, <2>2 DEF Heap!Allocated
  <2>4. m \in [Heap!Heap -> Heap!Values] /\ \A a \in Heap!Heap : a < heapCursor => m[a] = heapBytes[a]
    BY <2>2, ClearedBlock
  <2>5. heapBytes' \in [Heap!Heap -> Heap!Values] /\ \A a \in Heap!Heap : a < heapCursor => heapBytes'[a] = heapBytes[a]
    BY <2>1, <2>3, <2>4, CopiedKeeps
  <2> QED
    BY <1>2, <2>3, <2>5 DEF Grows
<1> QED
  BY <1>1, <1>2

LEMMA BlockTypes ==
    ASSUME Heap!HeapBounds, Heap!HeapInv, NEW b \in heapHeld
    PROVE  /\ b.at \in Nat /\ b.size \in Nat /\ b.at + b.size <= heapCursor /\ heapCursor <= HeapBytes
           /\ \A size \in Nat : Heap!CopyLength(b.at, size) \in Nat
           /\ b.size > 0 => \A size \in Nat :
                  Heap!CopyLength(b.at, size) = IF size <= b.size THEN size ELSE b.size
<1>1. /\ b.at \in Nat /\ b.size \in Nat /\ b.at + b.size <= heapCursor /\ heapCursor <= HeapBytes
      /\ b.size > 0 => b.at \in DOMAIN heapSizes /\ heapSizes[b.at] = b.size
  BY DEF Heap!HeapInv, Heap!Known, Heap!Heap, Heap!HeapBounds
<1>2. \A a \in DOMAIN heapSizes : heapSizes[a] \in Nat
  BY DEF Heap!HeapInv
<1>3. \A size \in Nat : Heap!CopyLength(b.at, size) \in Nat
  BY <1>2, Shortest DEF Heap!CopyLength
<1>4. ASSUME b.size > 0, NEW size \in Nat
      PROVE  Heap!CopyLength(b.at, size) = IF size <= b.size THEN size ELSE b.size
  BY <1>1, <1>4, Shortest DEF Heap!CopyLength
<1> QED
  BY <1>1, <1>3, <1>4

LEMMA ReallocateGrows ==
    ASSUME Heap!HeapBounds, Heap!HeapInv, NEW b \in heapHeld, NEW size \in Nat, NEW clear \in BOOLEAN,
           Heap!Reallocate(b, size, clear)
    PROVE  Grows
<1>1. b.at \in Nat /\ Heap!CopyLength(b.at, size) \in Nat
  BY BlockTypes
<1> QED
  BY <1>1, AllocateCopy DEF Heap!Reallocate

LEMMA AskGrows ==
    ASSUME Heap!HeapBounds, Heap!HeapInv, Heap!Ask
    PROVE  Grows /\ UNCHANGED heapSaved
<1>1. PICK size \in 0..HeapBytes :
        \/ \E clear \in BOOLEAN : Heap!MallocImpl(size, clear)
        \/ Heap!HeapMalloc(size)
        \/ \E b \in heapHeld : \/ \E clear \in BOOLEAN : Heap!ReallocImpl(b, size, clear)
                           \/ Heap!ErrRealloc(b, size) \/ Heap!HeapRealloc(b, size)
  BY DEF Heap!Ask
<1>2. size \in Nat /\ Heap!Positive(size) \in Nat /\ TRUE \in BOOLEAN
  BY DEF Heap!Positive
<1>3. CASE \E clear \in BOOLEAN : Heap!MallocImpl(size, clear)
  BY <1>2, <1>3, AllocateOnly DEF Heap!MallocImpl
<1>4. CASE Heap!HeapMalloc(size)
  BY <1>2, <1>4, AllocateOnly DEF Heap!HeapMalloc, Heap!MallocImpl
<1>5. ASSUME NEW b \in heapHeld, \E clear \in BOOLEAN : Heap!ReallocImpl(b, size, clear)
      PROVE  Grows /\ UNCHANGED heapSaved
  BY <1>2, <1>5, ReallocateGrows DEF Heap!ReallocImpl
<1>6. ASSUME NEW b \in heapHeld, Heap!ErrRealloc(b, size)
      PROVE  Grows /\ UNCHANGED heapSaved
  <2>1. CASE Heap!Allocate(size) = Heap!Null
    BY <1>6, <2>1 DEF Heap!ErrRealloc, Grows
  <2>2. CASE Heap!Allocate(size) # Heap!Null
    BY <1>2, <1>6, <2>2, ReallocateGrows DEF Heap!ErrRealloc
  <2> QED
    BY <2>1, <2>2
<1>7. ASSUME NEW b \in heapHeld, Heap!HeapRealloc(b, size)
      PROVE  Grows /\ UNCHANGED heapSaved
  BY <1>2, <1>7, ReallocateGrows DEF Heap!HeapRealloc, Heap!ReallocImpl
<1> QED
  BY <1>1, <1>3, <1>4, <1>5, <1>6, <1>7

LEMMA CopyGrows ==
    ASSUME Heap!HeapBounds, Heap!HeapInv, Heap!AskCopy
    PROVE  Grows /\ UNCHANGED heapSaved
<1>1. PICK b \in heapHeld, w \in {1, 2} : Heap!Ended(b, w) /\ Heap!Duplicate(b, w)
  BY DEF Heap!AskCopy, Heap!Strdup, Heap!Wstrdup, Heap!HeapStrDup
<1>2. b.at \in Nat /\ b.size \in Nat
  BY BlockTypes
<1> DEFINE T == {n \in 0..b.size : (n + 1) * w <= b.size /\ \A k \in 0..w - 1 : heapBytes[b.at + n * w + k] = 0}
<1>3. T \in SUBSET Nat /\ T # {}
  BY <1>1, <1>2 DEF Heap!Ended
<1>4. Heap!TextLength(b, w) \in T
  <2> HIDE DEF T
  <2>1. \E m \in T : \A n \in T : m <= n
    BY <1>3, SmallestOf
  <2>2. Heap!Least(T) \in T
    BY <2>1 DEF Heap!Least
  <2> QED
    BY <2>2 DEF Heap!TextLength, T
<1> DEFINE n == (Heap!TextLength(b, w) + 1) * w
<1>5. n \in Nat
  BY <1>1, <1>2, <1>4
<1>6. /\ Heap!Allocated(n, TRUE, LAMBDA x : Heap!Copied(x, heapCursor, b.at, n)) /\ UNCHANGED heapSaved
  BY <1>1 DEF Heap!Duplicate
<1> HIDE DEF n
<1> QED
  BY <1>2, <1>5, <1>6, AllocateCopy

LEMMA HeapInvInitially ==
    ASSUME Heap!HeapBounds, Heap!HeapInit
    PROVE  Heap!HeapInv
<1>1. heapCursor = 0 /\ DOMAIN heapSizes = {} /\ heapBytes = [a \in Heap!Heap |-> 0] /\ heapHeld = {} /\ heapSaved = Heap!NoSave
  BY DEF Heap!HeapInit
<1>2. 0 % HeapWord = 0 /\ 0 \in 0..HeapBytes
  BY DEF Heap!HeapBounds
<1>3. Heap!Known(heapHeld)
  BY <1>1 DEF Heap!Known
<1>4. heapBytes \in [Heap!Heap -> Heap!Values]
  BY <1>1 DEF Heap!Values
<1> QED
  BY <1>1, <1>2, <1>3, <1>4 DEF Heap!HeapInv

LEMMA GrowsKeeps ==
    ASSUME Heap!HeapBounds, Heap!HeapInv, Grows, UNCHANGED heapSaved
    PROVE  Heap!HeapInv'
<1>1. CASE UNCHANGED <<heapCursor, heapSizes, heapBytes, heapHeld>>
  BY <1>1 DEF Heap!HeapInv, Heap!Known
<1>2. CASE ~UNCHANGED <<heapCursor, heapSizes, heapBytes, heapHeld>>
  <2>1. PICK size \in Nat :
          /\ Heap!Allocate(size) # Heap!Null
          /\ heapCursor' = heapCursor + Heap!Aligned(size)
          /\ heapSizes' = [a \in DOMAIN heapSizes \cup {heapCursor} |-> IF a = heapCursor THEN size ELSE heapSizes[a]]
          /\ heapBytes' \in [Heap!Heap -> Heap!Values]
          /\ heapHeld' = heapHeld \cup {[at |-> heapCursor, size |-> size]}
    BY <1>2 DEF Grows
  <2> QED
    BY <2>1, AllocationKeeps
<1> QED
  BY <1>1, <1>2

LEMMA HeapInvStep ==
    ASSUME Heap!HeapBounds, Heap!HeapInv, Heap!HeapNext
    PROVE  Heap!HeapInv'
<1>1. CASE Heap!Ask
  BY <1>1, AskGrows, GrowsKeeps
<1>2. CASE Heap!AskCopy
  BY <1>2, CopyGrows, GrowsKeeps
<1>3. CASE Heap!Forget
  <2>1. heapHeld' \subseteq heapHeld /\ UNCHANGED <<heapCursor, heapSizes, heapBytes, heapSaved>>
    BY <1>3 DEF Heap!Forget, Heap!Free
  <2>2. \A H, G : Heap!Known(H) /\ G \subseteq H => Heap!Known(G)
    BY DEF Heap!Known
  <2>3. Heap!Known(heapHeld')
    BY <2>1, <2>2 DEF Heap!HeapInv
  <2>4. Heap!Known(heapHeld)'
    BY <2>1, <2>3 DEF Heap!Known
  <2> QED
    BY <2>1, <2>4 DEF Heap!HeapInv, Heap!Known
<1>4. CASE Heap!Use
  <2>b. PICK b \in heapHeld : \E a \in Heap!Cells(b), v \in Heap!Values : Heap!Store(b, a, v)
    BY <1>4 DEF Heap!Use
  <2>1. PICK a \in Heap!Cells(b), v \in Heap!Values : Heap!Store(b, a, v)
    BY <2>b
  <2>2. heapBytes' = [heapBytes EXCEPT ![a] = v] /\ UNCHANGED <<heapCursor, heapSizes, heapHeld, heapSaved>>
    BY <2>1 DEF Heap!Store
  <2>3. heapBytes' \in [Heap!Heap -> Heap!Values]
    BY <2>1, <2>2 DEF Heap!HeapInv
  <2> QED
    BY <2>2, <2>3 DEF Heap!HeapInv, Heap!Known
<1>5. CASE Heap!SaveHeap
  <2>1. heapSaved' = [bytes |-> heapBytes, held |-> heapHeld] /\ UNCHANGED <<heapCursor, heapSizes, heapBytes, heapHeld>>
    BY <1>5 DEF Heap!SaveHeap
  <2> QED
    BY <2>1 DEF Heap!HeapInv, Heap!Known
<1>6. CASE Heap!LoadHeap
  <2>1. heapSaved # Heap!NoSave /\ heapBytes' = heapSaved.bytes /\ heapHeld' = heapSaved.held /\ UNCHANGED <<heapCursor, heapSizes, heapSaved>>
    BY <1>6 DEF Heap!LoadHeap
  <2> QED
    BY <2>1 DEF Heap!HeapInv, Heap!Known
<1> QED
  BY <1>1, <1>2, <1>3, <1>4, <1>5, <1>6 DEF Heap!HeapNext

LEMMA HeapInvStutters ==
    ASSUME Heap!HeapInv, UNCHANGED Heap!heapVars
    PROVE  Heap!HeapInv'
  BY DEF Heap!heapVars, Heap!HeapInv, Heap!Known

(* What a step leaves below the cursor. *)
LEMMA OldBlocksStay ==
    ASSUME Heap!HeapBounds, Heap!HeapInv, NEW b \in heapHeld, [Heap!HeapNext]_Heap!heapVars, heapCursor' > heapCursor
    PROVE  Heap!Content(heapBytes', b) = Heap!Content(heapBytes, b)
<1>1. heapCursor \in Nat
  BY DEF Heap!HeapInv
<1>2. Grows
  <2>1. CASE Heap!Ask
    BY <2>1, AskGrows
  <2>2. CASE Heap!AskCopy
    BY <2>2, CopyGrows
  <2>3. CASE UNCHANGED heapCursor
    BY <2>3, <1>1
  <2> QED
    BY <2>1, <2>2, <2>3 DEF Heap!HeapNext, Heap!heapVars, Heap!Forget, Heap!Free, Heap!Use,
       Heap!Store, Heap!SaveHeap, Heap!LoadHeap
<1>3. \A a \in Heap!Heap : a < heapCursor => heapBytes'[a] = heapBytes[a]
  BY <1>1, <1>2 DEF Grows
<1>4. b.at \in Nat /\ b.size \in Nat /\ b.at + b.size <= heapCursor /\ heapCursor <= HeapBytes
  BY BlockTypes
<1>5. \A i \in 0..b.size - 1 : b.at + i \in Heap!Heap /\ b.at + i < heapCursor
  BY <1>1, <1>4 DEF Heap!Heap, Heap!HeapBounds
<1>6. \A i \in 0..b.size - 1 : heapBytes'[b.at + i] = heapBytes[b.at + i]
  BY <1>3, <1>5
<1> QED
  BY <1>6 DEF Heap!Content

LEMMA AvailIsTold ==
    ASSUME Heap!HeapBounds, Heap!HeapInv, NEW n \in 0..HeapBytes
    PROVE  Heap!CheckAvail(n) <=> Heap!Allocate(n) # Heap!Null
<1>1. /\ heapCursor \in Nat /\ heapCursor <= HeapBytes /\ heapCursor % HeapWord = 0 /\ HeapBytes \in Nat
      /\ HeapBytes % HeapWord = 0 /\ HeapWord \in Nat /\ HeapWord > 0
  BY DEF Heap!HeapInv, Heap!HeapBounds
<1>2. Heap!HeapAvail \in Nat /\ Heap!HeapAvail % HeapWord = 0
  <2>1. PICK j \in Nat : HeapBytes = HeapWord * j
    BY <1>1, Multiple
  <2>2. PICK k \in Nat : heapCursor = HeapWord * k
    BY <1>1, Multiple
  <2>3. Heap!HeapAvail \in Nat /\ Heap!HeapAvail = HeapWord * (j - k)
    BY <1>1, <2>1, <2>2 DEF Heap!HeapAvail
  <2>4. j - k \in Nat
    <3>1. SUFFICES ASSUME j - k < 0
                   PROVE  FALSE
      OBVIOUS
    <3>2. HeapWord * (j - k) < 0
      BY <3>1, <1>1
    <3> QED
      BY <3>2, <2>3
  <2>5. \A i \in Nat : (HeapWord * i) % HeapWord = 0
    BY <1>1
  <2> QED
    BY <2>3, <2>4, <2>5
<1>3. Heap!Aligned(n) \in Nat /\ n <= Heap!Aligned(n) /\ (n <= Heap!HeapAvail => Heap!Aligned(n) <= Heap!HeapAvail)
  BY <1>2, WholeWords
<1>4. heapCursor # Heap!Null
  BY <1>1 DEF Heap!Null
<1> QED
  BY <1>2, <1>3, <1>4 DEF Heap!CheckAvail, Heap!Allocate

LEMMA ReallocCarries ==
    ASSUME Heap!HeapBounds, Heap!HeapInv, NEW n \in 0..HeapBytes, Heap!Allocate(n) # Heap!Null, NEW b \in heapHeld, b.size > 0
    PROVE  Heap!ReallocFaithful(b, n)
<1>1. /\ b.at \in Nat /\ b.size \in Nat /\ b.at + b.size <= heapCursor /\ heapCursor <= HeapBytes
      /\ Heap!CopyLength(b.at, n) = IF n <= b.size THEN n ELSE b.size
      /\ heapCursor \in Nat /\ heapBytes \in [Heap!Heap -> Heap!Values] /\ n \in Nat /\ HeapBytes \in Nat
  BY BlockTypes DEF Heap!HeapInv, Heap!HeapBounds
<1>2. /\ Heap!Aligned(n) \in Nat /\ n <= Heap!Aligned(n) /\ Heap!Aligned(n) <= HeapBytes - heapCursor
  BY <1>1, WholeWords DEF Heap!Allocate, Heap!HeapAvail
<1>3. PICK z : z = Heap!Zeroed(heapBytes, heapCursor, Heap!Aligned(n))
  OBVIOUS
<1>4. PICK c \in Nat : c = Heap!CopyLength(b.at, n)
  BY <1>1
<1>5. PICK m : m = Heap!Copied(z, heapCursor, b.at, c)
  OBVIOUS
<1>6. /\ z \in [Heap!Heap -> Heap!Values]
      /\ \A a \in Heap!Heap : z[a] = IF heapCursor <= a /\ a < heapCursor + Heap!Aligned(n) THEN 0 ELSE heapBytes[a]
  BY <1>1, <1>2, <1>3, ZeroedKeeps
<1>7. /\ \A a \in Heap!Heap : a < heapCursor \/ a >= heapCursor + c => m[a] = z[a]
      /\ \A a \in Heap!Heap : heapCursor <= a /\ a < heapCursor + c /\ b.at + (a - heapCursor) \in Heap!Heap =>
             m[a] = z[b.at + (a - heapCursor)]
  <2> HIDE DEF Heap!Heap
  <2>1. z \in [Heap!Heap -> Heap!Values] /\ heapCursor \in Nat /\ b.at \in Nat
    BY <1>1, <1>6
  <2>2. \A a \in Heap!Heap : a < heapCursor \/ a >= heapCursor + c => Heap!Copied(z, heapCursor, b.at, c)[a] = z[a]
    BY <2>1, CopiedKeeps
  <2>3. \A a \in Heap!Heap : heapCursor <= a /\ a < heapCursor + c /\ b.at + (a - heapCursor) \in Heap!Heap =>
             Heap!Copied(z, heapCursor, b.at, c)[a] = z[b.at + (a - heapCursor)]
    BY <2>1, CopiedKeeps
  <2> QED
    BY <2>2, <2>3, <1>5
<1>8. ASSUME NEW i \in 0..n - 1
      PROVE  m[heapCursor + i] = IF i < b.size THEN heapBytes[b.at + i] ELSE 0
  <2>1. i \in Nat /\ i < n /\ heapCursor + i \in Heap!Heap /\ heapCursor <= heapCursor + i /\ heapCursor + i < heapCursor + Heap!Aligned(n)
    BY <1>1, <1>2, <1>8 DEF Heap!Heap
  <2>2. CASE i < b.size
    <3>1. heapCursor + i < heapCursor + c /\ b.at + ((heapCursor + i) - heapCursor) = b.at + i /\ b.at + i \in Heap!Heap
          /\ b.at + i < heapCursor
      BY <1>1, <1>4, <2>1, <2>2 DEF Heap!Heap
    <3>2. m[heapCursor + i] = z[b.at + i]
      BY <1>7, <2>1, <3>1
    <3>3. z[b.at + i] = heapBytes[b.at + i]
      <4>1. ~(heapCursor <= b.at + i)
        BY <3>1, <1>1, <2>1
      <4> QED
        BY <4>1, <3>1, <1>6
    <3> QED
      BY <2>2, <3>2, <3>3
  <2>3. CASE ~(i < b.size)
    <3>1. heapCursor + i >= heapCursor + c
      BY <1>1, <1>4, <2>1, <2>3
    <3>2. m[heapCursor + i] = z[heapCursor + i] /\ z[heapCursor + i] = 0
      BY <1>6, <1>7, <2>1, <3>1
    <3> QED
      BY <2>3, <3>2
  <2> QED
    BY <2>2, <2>3
<1> QED
  BY <1>3, <1>4, <1>5, <1>8 DEF Heap!ReallocFaithful

LEMMA AllocationsSpare ==
    ASSUME Heap!HeapBounds, Heap!HeapInv, [Heap!HeapNext]_Heap!heapVars
    PROVE  Heap!AllocationSpares
  BY OldBlocksStay, AvailIsTold, ReallocCarries DEF Heap!AllocationSpares

LEMMA BlocksAreApart ==
    ASSUME Heap!HeapInv
    PROVE  Heap!BlocksApart
  BY DEF Heap!HeapInv, Heap!Known, Heap!BlocksApart

LEMMA HeapTyped ==
    ASSUME Heap!HeapBounds, Heap!HeapInv
    PROVE  Heap!HeapTypeOK
<1>1. \A b \in heapHeld : b.at % HeapWord = 0 /\ b.at + b.size <= HeapBytes
  <2> SUFFICES ASSUME NEW b \in heapHeld
               PROVE  b.at % HeapWord = 0 /\ b.at + b.size <= HeapBytes
    OBVIOUS
  <2>1. b.at \in Nat /\ b.size \in Nat /\ b.at + b.size <= heapCursor /\ heapCursor <= HeapBytes
    BY BlockTypes
  <2>2. b.at % HeapWord = 0
    BY DEF Heap!HeapInv, Heap!Known
  <2> QED
    BY <2>1, <2>2 DEF Heap!HeapInv, Heap!HeapBounds
<1> QED
  BY <1>1 DEF Heap!HeapInv, Heap!HeapTypeOK

-----------------------------------------------------------------------------
(* The pad.  Between any two edges of the queue there is a set of buttons that
   are down: what the title was told, moved by the edges before. *)
Pad == INSTANCE HidDevice WITH
    Buttons <- PadButtons, MaxEvents <- MaxEdges,
    down <- v1, events <- v2, view <- v3, registered <- v4, notices <- v5,
    told <- v6, sent <- v7

(* What replays the edges is what Replayed computes. *)
LEMMA ReplayedIs ==
    ASSUME v2 \in Seq(Pad!Edges), NEW pads \in [0 .. Len(v2) -> SUBSET Pad!Table],
           Pad!Replays(pads)
    PROVE  Pad!Replayed = pads
<1> DEFINE Step(f) ==
      [n \in 0 .. Len(v2) |-> IF n = 0 THEN v3 ELSE Pad!Moved(f[n - 1], v2[n])]
<1>1. PICK L \in Nat : L = Len(v2) /\ DOMAIN v2 = 1..L
  OBVIOUS
<1>2. \A n \in 0..L : pads[n] = IF n = 0 THEN v3 ELSE Pad!Moved(pads[n - 1], v2[n])
  BY <1>1 DEF Pad!Replays
<1>3. pads = Step(pads)
  <2>1. pads = [n \in 0..L |-> pads[n]]
    BY <1>1
  <2> QED
    BY <1>1, <1>2, <2>1
<1>4. ASSUME NEW f, f = Step(f)
      PROVE  f = pads
  <2> DEFINE T == {n \in 0..L : f[n] # pads[n]}
  <2>1. \A n \in 0..L : f[n] = IF n = 0 THEN v3 ELSE Pad!Moved(f[n - 1], v2[n])
    BY <1>1, <1>4
  <2>3. T = {}
    <3> SUFFICES ASSUME T # {}
                 PROVE  FALSE
      OBVIOUS
    <3>1. PICK n \in T : \A k \in T : n <= k
      <4>1. T \in SUBSET Nat
        OBVIOUS
      <4> HIDE DEF T
      <4> QED
        BY <4>1, SmallestOf
    <3>2. n \in 0..L /\ f[n] # pads[n]
      BY <3>1
    <3>3. n # 0
      BY <3>2, <2>1, <1>2
    <3>4. n - 1 \in 0..L /\ ~(n <= n - 1)
      BY <3>2, <3>3
    <3>5. f[n - 1] = pads[n - 1]
      BY <3>1, <3>4
    <3> HIDE DEF T
    <3> QED
      BY <3>2, <3>3, <3>5, <2>1, <1>2
  <2>4. \A n \in 0..L : f[n] = pads[n]
    BY <2>3
  <2>5. f = [n \in 0..L |-> f[n]] /\ pads = [n \in 0..L |-> pads[n]]
    BY <1>1, <1>4
  <2> HIDE DEF T
  <2> QED
    BY <2>4, <2>5
<1>5. Pad!Replayed = CHOOSE f : f = Step(f)
  BY DEF Pad!Replayed
<1> HIDE DEF Step
<1> QED
  BY <1>3, <1>4, <1>5

LEMMA PadInvSays ==
    ASSUME Pad!PadInv
    PROVE  Pad!EventsTellThePad
<1>1. PICK pads \in [0 .. Len(v2) -> SUBSET Pad!Table] : Pad!Replays(pads)
  BY DEF Pad!PadInv
<1>2. Pad!Replayed = pads
  BY <1>1, ReplayedIs DEF Pad!PadInv
<1> QED
  BY <1>1, <1>2 DEF Pad!EventsTellThePad, Pad!Replays

LEMMA PadInvInit ==
    ASSUME Pad!HidInit
    PROVE  Pad!PadInv
<1> DEFINE pads == [n \in 0..0 |-> {}]
<1>1. v2 = <<>> /\ Len(v2) = 0 /\ v3 = {} /\ v1 = {} /\ DOMAIN v2 = {}
  BY DEF Pad!HidInit
<1>2. pads \in [0 .. Len(v2) -> SUBSET Pad!Table] /\ pads[0] = {}
  BY <1>1
<1> HIDE DEF pads
<1>3. Pad!Replays(pads)
  BY <1>1, <1>2 DEF Pad!Replays
<1> QED
  BY <1>1, <1>2, <1>3 DEF Pad!PadInv

(* Edges that lead from the buttons as they were to the buttons as they are now. *)
LEMMA PadJoins ==
    ASSUME Pad!PadInv, NEW edges \in Seq(Pad!Edges), v2' = v2 \o edges, v3' = v3,
           NEW more \in [0 .. Len(edges) -> SUBSET Pad!Table],
           more[0] = v1, more[Len(edges)] = v1',
           \A n \in DOMAIN edges :
             /\ more[n] = Pad!Moved(more[n - 1], edges[n])
             /\ edges[n].pressed <=> edges[n].id \notin more[n - 1]
    PROVE  Pad!PadInv'
<1>1. PICK pads \in [0 .. Len(v2) -> SUBSET Pad!Table] : Pad!Replays(pads)
  BY DEF Pad!PadInv
<1>2. PICK L \in Nat : L = Len(v2) /\ DOMAIN v2 = 1..L
  BY DEF Pad!PadInv
<1>3. PICK m \in Nat : m = Len(edges) /\ DOMAIN edges = 1..m
  OBVIOUS
<1>4. /\ v2' \in Seq(Pad!Edges) /\ Len(v2') = L + m /\ DOMAIN v2' = 1..L + m
      /\ \A n \in 1..L : v2'[n] = v2[n]
      /\ \A n \in 1..m : v2'[L + n] = edges[n]
  BY <1>2, <1>3 DEF Pad!PadInv
<1> DEFINE all == [n \in 0..L + m |-> IF n <= L THEN pads[n] ELSE more[n - L]]
<1>5. all \in [0..L + m -> SUBSET Pad!Table]
  <2>1. ASSUME NEW n \in 0..L + m
        PROVE  (IF n <= L THEN pads[n] ELSE more[n - L]) \in SUBSET Pad!Table
    <3>1. CASE n <= L
      <4>1. n \in 0..Len(v2)
        BY <1>2, <3>1
      <4> QED
        BY <3>1, <4>1
    <3>2. CASE ~(n <= L)
      <4>1. n - L \in 0..Len(edges)
        BY <1>3, <3>2
      <4> QED
        BY <3>2, <4>1
    <3> QED
      BY <3>1, <3>2
  <2> QED
    BY <2>1
<1>6. /\ \A n \in 0..L : all[n] = pads[n]
      /\ \A n \in 0..m : all[L + n] = more[n]
  <2>1. \A n \in 0..L : all[n] = pads[n]
    OBVIOUS
  <2>2. pads[L] = more[0]
    BY <1>1, <1>2 DEF Pad!Replays
  <2>3. ASSUME NEW n \in 0..m
        PROVE  all[L + n] = more[n]
    <3>1. CASE n = 0
      BY <2>1, <2>2, <3>1
    <3>2. CASE n # 0
      <4>1. L + n \in 0..L + m /\ ~(L + n <= L) /\ L + n - L = n
        BY <3>2
      <4> QED
        BY <4>1
    <3> QED
      BY <3>1, <3>2
  <2> QED
    BY <2>1, <2>3
<1> HIDE DEF all
<1>7. all[0] = v3' /\ all[L + m] = v1'
  BY <1>1, <1>2, <1>3, <1>6 DEF Pad!Replays
<1>8. ASSUME NEW n \in 1..L + m
      PROVE  /\ all[n] = Pad!Moved(all[n - 1], v2'[n])
             /\ v2'[n].pressed <=> v2'[n].id \notin all[n - 1]
  <2>1. CASE n <= L
    <3>1. n \in 1..L /\ n \in 0..L /\ n - 1 \in 0..L
      BY <2>1
    <3>2. all[n] = pads[n] /\ all[n - 1] = pads[n - 1] /\ v2'[n] = v2[n]
      BY <3>1, <1>4, <1>6
    <3> QED
      BY <3>1, <3>2, <1>1, <1>2 DEF Pad!Replays
  <2>2. CASE ~(n <= L)
    <3>1. PICK k \in 1..m : n = L + k
      <4>1. n - L \in 1..m /\ n = L + (n - L)
        BY <2>2
      <4> QED
        BY <4>1
    <3>2. k \in 0..m /\ k - 1 \in 0..m /\ n - 1 = L + (k - 1)
      BY <3>1
    <3>3. all[n] = more[k] /\ all[n - 1] = more[k - 1] /\ v2'[n] = edges[k]
      BY <3>1, <3>2, <1>4, <1>6
    <3> QED
      BY <3>1, <3>3, <1>3
  <2> QED
    BY <2>1, <2>2
<1>9. Pad!Replays(all)'
  BY <1>4, <1>7, <1>8 DEF Pad!Replays
<1> QED
  BY <1>4, <1>5, <1>9 DEF Pad!PadInv

LEMMA PadFetches ==
    ASSUME Pad!PadInv, Pad!GetNextButtonEvent
    PROVE  Pad!PadInv'
<1>1. CASE v2 = <<>>
  <2>1. UNCHANGED <<v2, v3, v1>>
    BY <1>1 DEF Pad!GetNextButtonEvent
  <2> QED
    BY <2>1 DEF Pad!PadInv, Pad!Replays
<1>2. CASE v2 # <<>>
  <2>1. /\ v2' = Tail(v2) /\ v3' = Pad!Moved(v3, Head(v2)) /\ v1' = v1
    BY <1>2 DEF Pad!GetNextButtonEvent
  <2>2. PICK pads \in [0 .. Len(v2) -> SUBSET Pad!Table] : Pad!Replays(pads)
    BY DEF Pad!PadInv
  <2>3. PICK L \in Nat : L + 1 = Len(v2) /\ DOMAIN v2 = 1..L + 1
    <3>1. PICK N \in Nat : N = Len(v2) /\ DOMAIN v2 = 1..N
      BY DEF Pad!PadInv
    <3>2. N # 0
      BY <1>2, <3>1 DEF Pad!PadInv
    <3>3. N - 1 \in Nat /\ N - 1 + 1 = N
      BY <3>2
    <3> QED
      BY <3>1, <3>3
  <2>4. /\ v2' \in Seq(Pad!Edges) /\ Len(v2') = L /\ DOMAIN v2' = 1..L
        /\ \A n \in 1..L : v2'[n] = v2[n + 1]
    BY <1>2, <2>1, <2>3 DEF Pad!PadInv
  <2> DEFINE rest == [n \in 0..L |-> pads[n + 1]]
  <2>5. rest \in [0..L -> SUBSET Pad!Table] /\ \A n \in 0..L : rest[n] = pads[n + 1]
    <3>1. \A n \in 0..L : n + 1 \in 0..Len(v2)
      BY <2>3
    <3> QED
      BY <3>1
  <2> HIDE DEF rest
  <2>6. rest[0] = v3'
    <3>1. Head(v2) = v2[1] /\ 1 \in DOMAIN v2
      BY <1>2, <2>3 DEF Pad!PadInv
    <3>2. pads[1] = Pad!Moved(pads[1 - 1], v2[1]) /\ pads[0] = v3
      BY <2>2, <3>1 DEF Pad!Replays
    <3> QED
      BY <2>1, <2>5, <3>1, <3>2
  <2>7. rest[L] = v1'
    BY <2>1, <2>2, <2>3, <2>5 DEF Pad!Replays
  <2>8. ASSUME NEW n \in 1..L
        PROVE  /\ rest[n] = Pad!Moved(rest[n - 1], v2'[n])
               /\ v2'[n].pressed <=> v2'[n].id \notin rest[n - 1]
    <3>1. n + 1 \in 1..L + 1 /\ n \in 0..L /\ n - 1 \in 0..L /\ n - 1 + 1 = n /\ n + 1 - 1 = n
      OBVIOUS
    <3>2. rest[n] = pads[n + 1] /\ rest[n - 1] = pads[n] /\ v2'[n] = v2[n + 1]
      BY <3>1, <2>4, <2>5
    <3>3. /\ pads[n + 1] = Pad!Moved(pads[n + 1 - 1], v2[n + 1])
          /\ v2[n + 1].pressed <=> v2[n + 1].id \notin pads[n + 1 - 1]
      BY <3>1, <2>2, <2>3 DEF Pad!Replays
    <3> QED
      BY <3>1, <3>2, <3>3
  <2>9. Pad!Replays(rest)'
    BY <2>4, <2>6, <2>7, <2>8 DEF Pad!Replays
  <2> QED
    BY <2>4, <2>5, <2>9 DEF Pad!PadInv
<1> QED
  BY <1>1, <1>2

LEMMA PadInjects ==
    ASSUME Pad!PadInv, NEW b \in Pad!Table, NEW pressed \in BOOLEAN,
           Pad!InjectHidButtonEvent(b, pressed)
    PROVE  Pad!PadInv'
<1> DEFINE edge == [id |-> b, pressed |-> pressed]
           more == [n \in 0..1 |-> IF n = 0 THEN v1 ELSE v1']
<1>1. /\ pressed # (b \in v1) /\ v2' = v2 \o <<edge>> /\ v3' = v3
      /\ v1' = IF pressed THEN v1 \cup {b} ELSE v1 \ {b}
  BY DEF Pad!InjectHidButtonEvent, Pad!Queued, Pad!Held
<1>2. v1 \in SUBSET Pad!Table
  <2>1. PICK pads \in [0 .. Len(v2) -> SUBSET Pad!Table] : Pad!Replays(pads)
    BY DEF Pad!PadInv
  <2>2. Len(v2) \in 0..Len(v2)
    BY DEF Pad!PadInv
  <2> QED
    BY <2>1, <2>2 DEF Pad!Replays
<1>3. /\ edge \in Pad!Edges /\ edge.id = b /\ edge.pressed = pressed
      /\ <<edge>> \in Seq(Pad!Edges) /\ Len(<<edge>>) = 1 /\ <<edge>>[1] = edge
      /\ DOMAIN <<edge>> = {1}
  BY DEF Pad!Edges
<1>4. more \in [0..1 -> SUBSET Pad!Table] /\ more[0] = v1 /\ more[1] = v1'
  BY <1>1, <1>2
<1>5. v1' = Pad!Moved(v1, edge)
  BY <1>1, <1>3 DEF Pad!Moved
<1>6. edge.pressed <=> edge.id \notin v1
  BY <1>1, <1>3
<1>7. PICK q \in Seq(Pad!Edges) : q = <<edge>> /\ Len(q) = 1 /\ q[1] = edge /\ DOMAIN q = {1}
  BY <1>3
<1>8. PICK d : d = v1'
  OBVIOUS
<1>9. PICK m \in [0..1 -> SUBSET Pad!Table] : m[0] = v1 /\ m[1] = d
  BY <1>4, <1>8
<1> HIDE DEF edge, more
<1>10. \A n \in DOMAIN q : /\ m[n] = Pad!Moved(m[n - 1], q[n])
                           /\ q[n].pressed <=> q[n].id \notin m[n - 1]
  BY <1>5, <1>6, <1>7, <1>8, <1>9
<1>11. /\ v2' = v2 \o q /\ m \in [0..Len(q) -> SUBSET Pad!Table]
       /\ m[0] = v1 /\ m[Len(q)] = v1'
  BY <1>1, <1>7, <1>8, <1>9
<1> QED
  BY <1>1, <1>10, <1>11, PadJoins

\* what an edge made of a button and a set of buttons says
LEMMA EdgeSays ==
    ASSUME NEW b, NEW pad, NEW edge, edge = [id |-> b, pressed |-> b \in pad]
    PROVE  edge.id = b /\ (edge.pressed <=> b \in pad)
<1>1. ASSUME b \in pad
      PROVE  edge.pressed
  BY <1>1, Zenon
<1>2. ASSUME b \notin pad
      PROVE  ~edge.pressed
  BY <1>2, Zenon
<1>3. edge.id = b
  OBVIOUS
<1> QED
  BY <1>1, <1>2, <1>3

LEMMA PadUpdates ==
    ASSUME Pad!HidBounds, Pad!PadInv, NEW pad \in SUBSET Pad!Table, Pad!UpdateState(pad)
    PROVE  Pad!PadInv'
<1> DEFINE changed == {b \in Pad!Table : (b \in pad) # (b \in v1)}
<1>1. PICK order \in Pad!TableOrder(changed) :
        Pad!Queued([n \in DOMAIN order |-> [id |-> order[n], pressed |-> order[n] \in pad]])
  BY DEF Pad!UpdateState
<1>2. v1 \in SUBSET Pad!Table
  <2>1. PICK pads \in [0 .. Len(v2) -> SUBSET Pad!Table] : Pad!Replays(pads)
    BY DEF Pad!PadInv
  <2>2. Len(v2) \in 0..Len(v2)
    BY DEF Pad!PadInv
  <2> QED
    BY <2>1, <2>2 DEF Pad!Replays
<1>3. PICK k \in Nat : order \in [1..k -> changed]
  BY <1>1 DEF Pad!HidBounds, Pad!TableOrder
<1> HIDE DEF changed
<1>4. /\ DOMAIN order = 1..k /\ \A n \in 1..k : order[n] \in changed
      /\ \A b \in changed : \E n \in 1..k : order[n] = b
      /\ \A m, n \in 1..k : m < n => order[m] < order[n]
  BY <1>1, <1>3 DEF Pad!TableOrder
<1>5. /\ \A b \in changed : b \in Pad!Table /\ b \in Nat /\ ((b \in pad) <=> ~(b \in v1))
      /\ \A b \in Pad!Table : b \notin changed => (b \in pad <=> b \in v1)
  BY DEF Pad!HidBounds, changed, Pad!Table
<1>6. \A m, n \in 1..k : order[m] = order[n] => m = n
  BY <1>4, <1>5
<1> DEFINE edges == [n \in 1..k |-> [id |-> order[n], pressed |-> order[n] \in pad]]
           more == [n \in 0..k |->
                      {b \in Pad!Table : IF \E m \in 1..n : order[m] = b
                                     THEN b \in pad ELSE b \in v1}]
<1>7. /\ \A n \in 1..k : /\ edges[n].id = order[n]
                         /\ edges[n].pressed <=> order[n] \in pad
      /\ edges \in Seq(Pad!Edges) /\ Len(edges) = k /\ DOMAIN edges = 1..k
  <2>1. \A n \in 1..k : [id |-> order[n], pressed |-> order[n] \in pad] \in Pad!Edges
    BY <1>4, <1>5 DEF Pad!Edges
  <2>2. \A n \in 1..k : edges[n] = [id |-> order[n], pressed |-> order[n] \in pad]
    OBVIOUS
  <2>3. edges \in [1..k -> Pad!Edges]
    BY <2>1
  <2> HIDE DEF edges
  <2>4. ASSUME NEW n \in 1..k
        PROVE  edges[n].id = order[n] /\ (edges[n].pressed <=> order[n] \in pad)
    <3>1. edges[n] = [id |-> order[n], pressed |-> order[n] \in pad]
      BY <2>2
    <3> QED
      BY <3>1, EdgeSays
  <2>5. edges \in Seq(Pad!Edges) /\ Len(edges) = k /\ DOMAIN edges = 1..k
    BY <2>3
  <2> QED
    BY <2>4, <2>5
<1>8. v2' = v2 \o edges /\ v3' = v3 /\ v1' = pad
  BY <1>1, <1>4 DEF Pad!Queued, Pad!UpdateState
<1> HIDE DEF edges
<1>9. \A n \in 0..k, b \in Pad!Table :
        b \in more[n] <=> IF \E m \in 1..n : order[m] = b THEN b \in pad ELSE b \in v1
  OBVIOUS
<1>10. more \in [0..k -> SUBSET Pad!Table]
  OBVIOUS
<1> HIDE DEF more
<1>11. \A n \in 0..k : more[n] \subseteq Pad!Table
  BY <1>10
<1>12. more[0] = v1
  <2>1. \A b \in Pad!Table : b \in more[0] <=> b \in v1
    BY <1>9
  <2> QED
    BY <2>1, <1>2, <1>11
<1>13. more[k] = pad
  <2>1. ASSUME NEW b \in Pad!Table
        PROVE  b \in more[k] <=> b \in pad
    <3>1. b \in more[k] <=> IF \E m \in 1..k : order[m] = b THEN b \in pad ELSE b \in v1
      BY <1>9
    <3>2. CASE b \in changed
      BY <3>1, <3>2, <1>4
    <3>3. CASE b \notin changed
      BY <3>1, <3>3, <1>4, <1>5
    <3> QED
      BY <3>2, <3>3
  <2> QED
    BY <2>1, <1>11
<1>14. ASSUME NEW n \in 1..k
       PROVE  /\ more[n] = Pad!Moved(more[n - 1], edges[n])
              /\ edges[n].pressed <=> edges[n].id \notin more[n - 1]
  <2>1. n \in 0..k /\ n - 1 \in 0..k
    OBVIOUS
  <2>2. order[n] \in changed /\ order[n] \in Pad!Table /\ ((order[n] \in pad) <=> ~(order[n] \in v1))
    BY <1>4, <1>5
  <2>3. ~\E m \in 1..n - 1 : order[m] = order[n]
    <3>1. \A m \in 1..n - 1 : m \in 1..k /\ m # n
      OBVIOUS
    <3> QED
      BY <3>1, <1>6
  <2>4. order[n] \in more[n - 1] <=> order[n] \in v1
    BY <2>1, <2>2, <2>3, <1>9
  <2>5. order[n] \in more[n] <=> order[n] \in pad
    BY <2>1, <2>2, <1>9
  <2>6. ASSUME NEW b \in Pad!Table, b # order[n]
        PROVE  b \in more[n] <=> b \in more[n - 1]
    <3>1. (\E m \in 1..n : order[m] = b) <=> (\E m \in 1..n - 1 : order[m] = b)
      <4>1. \A m \in 1..n : m = n \/ m \in 1..n - 1
        OBVIOUS
      <4>2. \A m \in 1..n - 1 : m \in 1..n
        OBVIOUS
      <4> QED
        BY <2>6, <4>1, <4>2
    <3> QED
      BY <3>1, <2>1, <1>9
  <2>7. edges[n].id = order[n] /\ (edges[n].pressed <=> order[n] \in pad)
    BY <1>7
  <2>8. more[n] = Pad!Moved(more[n - 1], edges[n])
    <3>1. CASE order[n] \in pad
      <4>1. Pad!Moved(more[n - 1], edges[n]) = more[n - 1] \cup {order[n]}
        BY <2>7, <3>1 DEF Pad!Moved
      <4> QED
        BY <4>1, <3>1, <2>1, <2>2, <2>5, <2>6, <1>11
    <3>2. CASE order[n] \notin pad
      <4>1. Pad!Moved(more[n - 1], edges[n]) = more[n - 1] \ {order[n]}
        BY <2>7, <3>2 DEF Pad!Moved
      <4> QED
        BY <4>1, <3>2, <2>1, <2>2, <2>5, <2>6, <1>11
    <3> QED
      BY <3>1, <3>2
  <2> QED
    BY <2>2, <2>4, <2>7, <2>8
<1>15. PICK q \in Seq(Pad!Edges) : q = edges
  BY <1>7
<1>16. PICK w \in [0..k -> SUBSET Pad!Table] : w = more
  BY <1>10
<1>17. \A n \in DOMAIN q : /\ w[n] = Pad!Moved(w[n - 1], q[n])
                           /\ q[n].pressed <=> q[n].id \notin w[n - 1]
  BY <1>7, <1>14, <1>15, <1>16
<1> QED
  BY <1>7, <1>8, <1>12, <1>13, <1>15, <1>16, <1>17, PadJoins

LEMMA PadInvStep ==
    ASSUME Pad!HidBounds, Pad!PadInv, [Pad!HidNext]_Pad!hidVars
    PROVE  Pad!PadInv'
<1>1. CASE UNCHANGED <<v2, v3, v1>>
  BY <1>1 DEF Pad!PadInv, Pad!Replays
<1>2. CASE UNCHANGED Pad!hidVars
  BY <1>1, <1>2 DEF Pad!hidVars
<1>3. CASE Pad!HidNext
  <2>1. ASSUME NEW pad \in SUBSET Pad!Table, Pad!UpdateState(pad)
        PROVE  Pad!PadInv'
    BY <2>1, PadUpdates
  <2>2. ASSUME NEW b \in Pad!Table, NEW pressed \in BOOLEAN, Pad!InjectHidButtonEvent(b, pressed)
        PROVE  Pad!PadInv'
    BY <2>2, PadInjects
  <2>3. CASE Pad!GetNextButtonEvent
    BY <2>3, PadFetches
  <2>4. \/ UNCHANGED <<v2, v3, v1>>
        \/ \E pad \in SUBSET Pad!Table : Pad!UpdateState(pad)
        \/ \E b \in Pad!Table, pressed \in BOOLEAN : Pad!InjectHidButtonEvent(b, pressed)
        \/ Pad!GetNextButtonEvent
    BY <1>3 DEF Pad!HidNext, Pad!RegisterForButtonEvent, Pad!GetButtonInfo, Pad!GetNumberOfButtons,
       Pad!GetNextConnectEvent, Pad!CreateDevice, Pad!GetAxesInfo, Pad!GetConnectedDevices, Pad!GetPosition, Pad!Answers
  <2> QED
    BY <1>1, <2>1, <2>2, <2>3, <2>4
<1> QED
  BY <1>2, <1>3
=============================================================================
