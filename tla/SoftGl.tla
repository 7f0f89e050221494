------------------------------- MODULE SoftGl -------------------------------
(***************************************************************************)
(* SoftGlBackend (core/brew/soft_gl_backend.cpp): the tests a fragment     *)
(* goes through before it is written, the matrix stacks, and how vertices  *)
(* become triangles.  One pixel is followed; depths and alphas are small   *)
(* integers and a colour is the name of the fragment that left it.         *)
(***************************************************************************)
EXTENDS Integers, Vectors

CONSTANTS
    Far,            \* the depth a clear writes; depths are 0..Far
    MaxFragments,   \* bound: fragments since the depth was cleared
    MaxStack,       \* bound: depth of a matrix stack
    MaxVertices     \* bound: vertices of a draw

VARIABLES
    pixel,      \* color_ and depth_ of the pixel
    state,      \* alpha_test_, depth_test_, depth_func_, depth_mask_
    stacks,     \* modelview_ and projection_, and matrix_mode_
    seen,       \* the fragments that passed the alpha test since the depth was cleared
    plain       \* they were all drawn with LESS, the mask on, the test enabled, and the
                \* colour alone was not cleared after them

softVars == <<pixel, state, stacks, seen, plain>>

Compare(func, a, b) ==
    CASE func = "NEVER" -> FALSE [] func = "LESS" -> a < b [] func = "EQUAL" -> a = b
      [] func = "LEQUAL" -> a <= b [] func = "GREATER" -> a > b [] func = "NOTEQUAL" -> a # b
      [] func = "GEQUAL" -> a >= b [] OTHER -> TRUE

SoftInit ==
    /\ pixel = [color |-> 0, depth |-> Far]
    /\ state = [alphaTest |-> FALSE, depthTest |-> FALSE, depthFunc |-> "LESS",
                depthMask |-> TRUE]
    /\ stacks = [mode |-> "modelview", modelview |-> <<0>>, projection |-> <<0>>]
    /\ seen = <<>> /\ plain = TRUE

(***************************************************************************)
(* State.                                                                  *)
(***************************************************************************)
SetState ==
    /\ \E on \in BOOLEAN, f \in {"alphaTest", "depthTest", "depthMask"} :
           state' = [state EXCEPT ![f] = on]
    /\ UNCHANGED <<pixel, stacks, seen, plain>>

DepthFunc ==
    /\ \E f \in {"LESS", "ALWAYS"} : state' = [state EXCEPT !.depthFunc = f]
    /\ UNCHANGED <<pixel, stacks, seen, plain>>

(* The buffers of the mask; the depth mask does not hold a clear back. *)
Clear ==
    /\ \E mask \in SUBSET {"color", "depth"} :
           /\ pixel' = [color |-> IF "color" \in mask THEN 0 ELSE pixel.color,
                        depth |-> IF "depth" \in mask THEN Far ELSE pixel.depth]
           /\ seen' = IF "depth" \in mask THEN <<>> ELSE seen
           /\ plain' = \/ "depth" \in mask
                       \/ plain /\ ("color" \in mask => seen = <<>>)
    /\ UNCHANGED <<state, stacks>>

(***************************************************************************)
(* A fragment of depth z whose alpha passes or fails (RasterizePrepared).  *)
(* The depth is written last, with the colour.                             *)
(***************************************************************************)
(* A bug: the depth test writes the depth. *)
DepthLeft_Early(z, opaque) ==
    IF state.depthTest /\ state.depthMask /\ Compare(state.depthFunc, z, pixel.depth)
    THEN z ELSE pixel.depth

Passes(z, opaque) ==
    /\ state.depthTest => Compare(state.depthFunc, z, pixel.depth)
    /\ state.alphaTest => opaque

DepthLeft(z, opaque) ==
    IF Passes(z, opaque) /\ state.depthTest /\ state.depthMask THEN z ELSE pixel.depth

Fragment ==
    \E z \in 0..Far - 1, opaque \in BOOLEAN :
        LET id == Len(seen) + 1 IN
        /\ Len(seen) < MaxFragments
        /\ pixel' = [color |-> IF Passes(z, opaque) THEN id ELSE pixel.color,
                     depth |-> DepthLeft(z, opaque)]
        /\ seen' = IF state.alphaTest /\ ~opaque THEN seen ELSE Append(seen, z)
        /\ plain' = (plain /\ state.depthTest /\ state.depthMask /\ state.depthFunc = "LESS")
        /\ UNCHANGED <<state, stacks>>

(***************************************************************************)
(* Matrix stacks.  A matrix is named by the number of products in it.      *)
(***************************************************************************)
Current == IF stacks.mode = "projection" THEN "projection" ELSE "modelview"

MatrixMode ==
    /\ \E m \in {"modelview", "projection", "texture"} : stacks' = [stacks EXCEPT !.mode = m]
    /\ UNCHANGED <<pixel, state, seen, plain>>

(* A bug: the last matrix is popped too. *)
Popped_Last(s) == IF s # <<>> THEN SubSeq(s, 1, Len(s) - 1) ELSE s

Popped(s) == IF Len(s) > 1 THEN SubSeq(s, 1, Len(s) - 1) ELSE s

MatrixCall ==
    LET s == stacks[Current] IN
    /\ \/ Len(s) < MaxStack /\ stacks' = [stacks EXCEPT ![Current] = Append(s, s[Len(s)])]
       \/ stacks' = [stacks EXCEPT ![Current] = Popped(s)]
       \/ stacks' = [stacks EXCEPT ![Current][Len(s)] = 0]
       \/ s[Len(s)] < 1 /\ stacks' = [stacks EXCEPT ![Current][Len(s)] = @ + 1]
    /\ UNCHANGED <<pixel, state, seen, plain>>

SoftNext ==
    SetState \/ DepthFunc \/ Clear \/ Fragment \/ MatrixMode \/ MatrixCall

SoftSpec == SoftInit /\ [][SoftNext]_softVars

SoftTypeOK ==
    /\ pixel.color \in 0..MaxFragments /\ pixel.depth \in 0..Far
    /\ \A m \in {"modelview", "projection"} : Len(stacks[m]) \in 1..MaxStack
    /\ Len(seen) <= MaxFragments

(* The pixel shows the nearest of the fragments that passed the alpha test, the
   first of those at that depth, and its depth is the pixel's: a fragment the
   alpha test discards leaves no depth behind to hide a later one
   (RasterizePrepared). *)
NearestShows ==
    plain /\ seen # <<>> =>
        LET z == CHOOSE d \in Elems(seen) : \A e \in Elems(seen) : d <= e IN
        /\ pixel.depth = z
        /\ pixel.color = CHOOSE k \in DOMAIN seen :
                             seen[k] = z /\ \A j \in 1..k - 1 : seen[j] # z

(***************************************************************************)
(* Triangles.                                                              *)
(***************************************************************************)
(* DrawArrays: the triangles of n vertices, in the order they are drawn. *)
Triangles(mode, n) ==
    CASE mode = "TRIANGLES" -> [t \in 1..n \div 3 |-> <<3 * t - 2, 3 * t - 1, 3 * t>>]
      [] mode = "TRIANGLE_STRIP" /\ n > 2 ->
            [t \in 1..n - 2 |-> IF t % 2 = 0 THEN <<t + 1, t, t + 2>> ELSE <<t, t + 1, t + 2>>]
      [] mode = "TRIANGLE_FAN" /\ n > 2 -> [t \in 1..n - 2 |-> <<1, t + 1, t + 2>>]
      [] OTHER -> <<>>

(* ClipAndDraw: a vertex is <<k>>, the cut of an edge <<inside, outside>>. *)
Clipped(inside) ==
    LET after(k) == (k % 3) + 1
        out == CHOOSE k \in 1..3 : k \notin inside
        a == after(out)
        b == after(a)
        i == CHOOSE k \in 1..3 : k \in inside
    IN CASE inside = {} -> <<>>
         [] inside = 1..3 -> <<<<<<1>>, <<2>>, <<3>>>>>>
         [] inside = {i} ->
                <<<<<<i>>, <<i, after(i)>>, <<i, after(after(i))>>>>>>
         [] OTHER -> <<<<<<a>>, <<b>>, <<b, out>>>>, <<<<a>>, <<b, out>>, <<a, out>>>>>>

(* WrapIndex. *)
Wrapped(mode, index, size) ==
    IF index \in 0..size - 1 THEN index
    ELSE IF mode = "clamp" THEN (IF index < 0 THEN 0 ELSE size - 1)
    ELSE index % size

Turn(t) == {t, <<t[2], t[3], t[1]>>, <<t[3], t[1], t[2]>>}

(* The corners of the part of a triangle that lies inside, in its order: each
   vertex that is inside, then the cut of its edge to the next where there is
   one. *)
Corners(inside, k, l) ==
    (IF k \in inside THEN <<<<k>>>> ELSE <<>>)
    \o (IF k \in inside /\ l \notin inside THEN <<<<k, l>>>> ELSE <<>>)
    \o (IF k \notin inside /\ l \in inside THEN <<<<l, k>>>> ELSE <<>>)

Outline(inside) == Corners(inside, 1, 2) \o Corners(inside, 2, 3) \o Corners(inside, 3, 1)

Rotations(s) ==
    {[k \in DOMAIN s |-> s[((k + r - 1) % Len(s)) + 1]] : r \in 0..Len(s) - 1}

DrawnAlike(inside) ==
    LET corners == Outline(inside)
    IN IF corners = <<>> THEN Clipped(inside) = <<>>
       ELSE \E s \in Rotations(corners) :
                Clipped(inside) = [t \in 1..Len(s) - 2 |-> <<s[1], s[t + 1], s[t + 2]>>]

(* The triangles of a strip all turn the way of the first, clipping
   keeps the outline and its direction, and a texel index is always one of the
   texture (DrawArrays, ClipAndDraw, WrapIndex). *)
TrianglesTurnAlike ==
    /\ \A n \in 0..MaxVertices :
        /\ \A t \in DOMAIN Triangles("TRIANGLE_STRIP", n) :
               LET three == Triangles("TRIANGLE_STRIP", n)[t]
                   in == IF t % 2 = 0 THEN <<t, t + 2, t + 1>> ELSE <<t, t + 1, t + 2>>
               IN in \in Turn(three)
        /\ \A m \in {"TRIANGLE_STRIP", "TRIANGLE_FAN", "TRIANGLES"} :
               UNION {Elems(Triangles(m, n)[t]) : t \in DOMAIN Triangles(m, n)} \subseteq 1..n
    /\ \A inside \in SUBSET (1..3) : DrawnAlike(inside)
    /\ \A mode \in {"clamp", "repeat"}, size \in 1..3, index \in -4..6 :
           Wrapped(mode, index, size) \in 0..size - 1

-----------------------------------------------------------------------------
(* Why both hold, whatever the bounds (PlatformParts): the pixel is always
   the first of the nearest, or that of the clear. *)
SoftBounds == Far \in Nat /\ MaxVertices \in Nat

SoftTyped ==
    /\ pixel \in [color : Nat, depth : 0..Far]
    /\ state \in [alphaTest : BOOLEAN, depthTest : BOOLEAN, depthFunc : {"LESS", "ALWAYS"},
                  depthMask : BOOLEAN]
    /\ seen \in Seq(Nat)

PixelIsFirst ==
    IF seen = <<>> THEN pixel.depth = Far
    ELSE /\ pixel.color \in DOMAIN seen /\ seen[pixel.color] = pixel.depth
         /\ \A k \in DOMAIN seen : pixel.depth <= seen[k]
         /\ \A k \in 1..pixel.color - 1 : seen[k] # pixel.depth

SoftInv == SoftTyped /\ (plain => PixelIsFirst)
=============================================================================
