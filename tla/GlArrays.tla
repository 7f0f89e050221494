------------------------------ MODULE GlArrays ------------------------------
(***************************************************************************)
(* The guest memory that GlHle reads for a draw or an upload               *)
(* (core/brew/gl_hle.cpp): client arrays, indices, pixels, names.  Sizes   *)
(* are the program's, addresses end at Top instead of 2^32, and a value    *)
(* read is the address it was read from.                                   *)
(***************************************************************************)
EXTENDS Integers, Vectors

CONSTANTS
    Top,            \* the end of the address space
    MaxVertices,    \* kMaxDrawVertices
    MaxUpload,      \* kMaxTextureUploadBytes
    Pointers,       \* the addresses the guest passes
    Strides,        \* the strides it passes
    Indices,        \* the vertices it names
    MaxCalls        \* bound: calls

TypeSize == [ubyte |-> 1, short |-> 2, float |-> 4]

Units == 0..1

TexCoord(unit) == IF unit = 0 THEN "texcoord0" ELSE "texcoord1"

Arrays == {"vertex", "color", "normal", "texcoord0", "texcoord1"}

VARIABLES
    arrays,     \* vertex_array_, color_array_, texcoord_arrays_, normal_array_
    unit,       \* client_active_unit_, and the unit the backend was told
    alignment,  \* unpack_alignment_
    touched,    \* the addresses the last call read or wrote
    calls       \* the calls so far

arraysVars == <<arrays, unit, alignment, touched, calls>>

Unset == [enabled |-> FALSE, size |-> 0, type |-> "float", stride |-> 0, pointer |-> 0]

ArraysInit ==
    /\ \E on \in BOOLEAN : arrays = [a \in Arrays |-> [Unset EXCEPT !.enabled = on]]
    /\ unit = [client |-> 0, backend |-> 0]
    /\ alignment = 4
    /\ touched = {} /\ calls = 0

Touches(range) == calls < MaxCalls /\ calls' = calls + 1 /\ touched' = range

Called == Touches({})

(***************************************************************************)
(* Client state.  A pointer call with a wrong argument resets its array.   *)
(***************************************************************************)
ValidSizes(a) == CASE a = "color" -> {4} [] a = "normal" -> {3} [] OTHER -> 2..4

Pointed(a, size, type, stride, pointer) ==
    IF size \in ValidSizes(a) /\ stride >= 0
    THEN [arrays[a] EXCEPT !.size = size, !.type = type, !.stride = stride, !.pointer = pointer]
    ELSE Unset

(* Texture coordinates belong to the unit the guest selected. *)
Target(kind) == IF kind = "texcoord" THEN TexCoord(unit.client) ELSE kind

PointerCall ==
    \E kind \in {"vertex", "color", "normal", "texcoord"}, size \in {1, 4},
       type \in {"ubyte", "float"}, stride \in Strides, pointer \in Pointers :
        LET a == Target(kind) IN
        /\ Called
        /\ arrays' = [arrays EXCEPT ![a] = Pointed(a, IF kind = "normal" THEN 3 ELSE size,
                                                   type, stride, pointer)]
        /\ UNCHANGED <<unit, alignment>>

ClientState ==
    \E kind \in {"vertex", "color", "normal", "texcoord"}, on \in BOOLEAN :
        /\ Called
        /\ arrays' = [arrays EXCEPT ![Target(kind)].enabled = on]
        /\ UNCHANGED <<unit, alignment>>

(* A unit beyond the last leaves the unit of the pointers alone; the backend
   is told of it all the same. *)
ClientActiveTexture ==
    \E u \in 0..2 :
        /\ Called
        /\ unit' = [client |-> IF u \in Units THEN u ELSE unit.client, backend |-> u]
        /\ UNCHANGED <<arrays, alignment>>

PixelStorei ==
    \E n \in {1, 2, 3, 8} :
        /\ Called
        /\ alignment' = IF n \in {1, 2, 4, 8} THEN n ELSE alignment
        /\ UNCHANGED <<arrays, unit>>

(***************************************************************************)
(* ExtractArrays: an array is given whole or not at all.                   *)
(***************************************************************************)
Packed(s) == s.size * TypeSize[s.type]

Stride(s) == IF s.stride # 0 THEN s.stride ELSE Packed(s)

Drawable(a, s) ==
    /\ s.enabled /\ s.pointer # 0 /\ s.size \in ValidSizes(a)
    /\ Stride(s) >= Packed(s)

(* A bug: the address of the vertex is tested, not that of its end. *)
InReach_StartOnly(s, index) == s.pointer + index * Stride(s) <= Top

InReach(s, index) == s.pointer + index * Stride(s) + Packed(s) <= Top

(* The components of the vertices, each the address it is read from. *)
Extracted(a, indices) ==
    LET s == arrays[a] IN
    IF Drawable(a, s) /\ \A k \in DOMAIN indices : InReach(s, indices[k])
    THEN [k \in 1..Len(indices) * s.size |->
            s.pointer + indices[(k - 1) \div s.size + 1] * Stride(s)
                + ((k - 1) % s.size) * TypeSize[s.type]]
    ELSE <<>>

BytesOf(a, values) == UNION {v..(v + TypeSize[arrays[a].type] - 1) : v \in Elems(values)}

Submitted(indices, read) ==
    /\ Touches(read \cup UNION {BytesOf(a, Extracted(a, indices)) : a \in Arrays})
    /\ UNCHANGED <<arrays, unit, alignment>>

DrawArrays ==
    \E first \in Indices \cup {-1}, count \in 0..MaxVertices + 1 :
        /\ first >= 0 /\ count \in 1..MaxVertices
        /\ Submitted([k \in 1..count |-> first + k - 1], {})

DrawElements ==
    \E count \in 1..MaxVertices : \E indices \in [1..count -> Indices], bytes \in {1, 2},
       pointer \in Pointers :
        /\ pointer # 0
        /\ pointer + count * bytes <= Top
        /\ Submitted(indices, pointer..(pointer + count * bytes - 1))

(***************************************************************************)
(* Textures.                                                               *)
(***************************************************************************)
Transfers(range) == Touches(range) /\ UNCHANGED <<arrays, unit, alignment>>

(* CopyGuestPixels: the rows of the image, each padded in guest memory. *)
PaddedRow(bytes) == ((bytes + alignment - 1) \div alignment) * alignment

ImageBytes(pointer, row, height) ==
    {pointer + PaddedRow(row) * y + x : y \in 0..height - 1, x \in 0..row - 1}

TexImage2D ==
    \E width, height \in 1..3, size \in 1..2, pointer \in Pointers :
        LET row == width * size IN
        /\ pointer # 0
        /\ row * height <= MaxUpload /\ pointer + PaddedRow(row) * height <= Top
        /\ Transfers(ImageBytes(pointer, row, height))

(* glGenTextures writes the names, glDeleteTextures reads them. *)
TextureNames ==
    \E n \in 1..2, pointer \in Pointers :
        /\ pointer # 0 /\ pointer + n * 4 <= Top
        /\ Transfers(pointer..(pointer + n * 4 - 1))

(* glCompressedTexImage2D: an OBM1 image is told by the mark of the header
   that precedes the data, and an ATITC one by its format. *)
CompressedTexImage2D ==
    \E pointer \in Pointers, size \in {1, 4, MaxUpload + 1}, obm1, atitc \in BOOLEAN :
        /\ size <= MaxUpload /\ pointer # 0 /\ pointer + size <= Top
        /\ IF obm1 /\ pointer >= 8 THEN Transfers((pointer - 8)..(pointer + size - 1))
           ELSE atitc /\ Transfers(pointer..(pointer + size - 1))

ArraysNext ==
    \/ PointerCall \/ ClientState \/ ClientActiveTexture \/ PixelStorei
    \/ DrawArrays \/ DrawElements \/ TexImage2D \/ TextureNames \/ CompressedTexImage2D

ArraysSpec == ArraysInit /\ [][ArraysNext]_arraysVars

ArraysTypeOK ==
    /\ unit.client \in Units /\ alignment \in {1, 2, 4, 8} /\ calls \in 0..MaxCalls
    /\ \A a \in Arrays : arrays[a].stride >= 0 /\ arrays[a].size \in {0} \cup ValidSizes(a)

(* No call reaches beyond the end of the address space, whatever pointers,
   strides and indices the guest passes (ExtractArrays, CopyGuestPixels and
   the tests of the texture calls). *)
TouchesInside == touched \subseteq 0..Top - 1

ArraysBounds ==
    /\ Top \in Nat /\ MaxVertices \in Nat /\ MaxUpload \in Nat
    /\ Pointers \subseteq Nat /\ Strides \subseteq Int /\ Indices \subseteq Nat

Array == [enabled : BOOLEAN, size : 0..4, type : {"ubyte", "short", "float"}, stride : Nat,
          pointer : Nat]

ArraysInv ==
    /\ arrays \in [Arrays -> Array]
    /\ unit \in [client : Units, backend : 0..2] /\ alignment \in {1, 2, 4, 8}
    /\ TouchesInside
=============================================================================
