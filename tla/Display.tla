------------------------------ MODULE Display ------------------------------
(***************************************************************************)
(* The display and its bitmaps: IDisplay (src/core/brew/idisplay.cpp), the *)
(* DIBs it makes (src/core/brew/bitmap_hle.cpp), the bitmap of the device  *)
(* and the compatible bitmaps carved from two rings (src/tools/            *)
(* game_probe.cpp:2135).                                                   *)
(*                                                                         *)
(* A pixel of the screen holds what was drawn last on it; a bitmap is the  *)
(* place of its object and of its pixels.  A glyph is one pixel wide.      *)
(***************************************************************************)
EXTENDS Integers, Sequences, FiniteSets

CONSTANTS
  Width, Height,     \* of the screen
  Rects,             \* the rectangles the title passes: <<x, y, dx, dy>>
  Sources,           \* the sizes of the bitmaps it draws from: <<w, h>>
  DibWords,          \* the words of the arena of the DIBs
  RingObjects,       \* the objects, and the pages of pixels, of the two rings
  RingPages,
  PagePixels,
  MaxBitmaps,        \* how many bitmaps of each kind the title makes
  MaxCalls

VARIABLES
  clip, screen, presented,
  destination, refs, held,   \* the references counted and those the title has
  dibs, nextDib,             \* the DIBs and the next free word of their arena
  compat,                    \* the compatible bitmaps and the two cursors
  last,                      \* the pixels of the last drawing, and their bounds
  calls

displayVars == <<clip, screen, presented, destination, refs, held, dibs, nextDib,
                 compat, last, calls>>

Pixels == (0 .. Width - 1) \X (0 .. Height - 1)
Box(x, y, w, h) == (x .. x + w - 1) \X (y .. y + h - 1)
Whole == <<0, 0, Width, Height>>
Idle == [writes |-> {}, writable |-> {}, reads |-> {}, readable |-> {}]
Device == <<"device", 0>>
Bitmaps == {Device} \cup {<<"dib", n>> : n \in 1 .. MaxBitmaps}
Lesser(a, b) == IF a < b THEN a ELSE b
Greater(a, b) == IF a < b THEN b ELSE a

DisplayInit ==
  /\ clip = Whole
  /\ screen = [p \in Pixels |-> "blank"]
  /\ presented = screen
  /\ destination = Device
  /\ refs = [b \in Bitmaps |-> 1]
  /\ held = [b \in Bitmaps |-> IF b = Device THEN 0 ELSE 1]
  /\ dibs = <<>>
  /\ nextDib = 0
  /\ compat = [begun |-> FALSE, made |-> <<>>, width |-> 1, height |-> 1, object |-> 0, page |-> 0]
  /\ last = Idle
  /\ calls = 0

KeepScreen == UNCHANGED <<clip, screen, presented, last>>
KeepBitmaps == UNCHANGED <<destination, refs, held, dibs, nextDib, compat>>

SetClipRect(r) ==
  /\ clip' = r
  /\ UNCHANGED <<screen, presented, last>>
  /\ KeepBitmaps

Draw(what, writes, writable, reads, readable) ==
  /\ screen' = [p \in Pixels |-> IF p \in writes THEN what ELSE screen[p]]
  /\ last' = [writes |-> writes, writable |-> Pixels \cap writable,
              reads |-> reads, readable |-> readable]
  /\ UNCHANGED <<clip, presented>>
  /\ KeepBitmaps

\* neither the clip nor the destination is asked
DrawRect(r) == Draw("rect", Box(r[1], r[2], r[3], r[4]) \cap Pixels, Pixels, {}, {})
DrawText(x, y, n) == Draw("text", Box(x, y, n, 1) \cap Pixels, Pixels, {}, {})

(* The rectangle drawn: the asked one cut to the source, the clip and the  *)
(* screen; a clip of no size counts as the screen's.                       *)
Cut_NoClipStart(at, copy, clipAt, clipSize, size) ==
  Greater(at, 0) .. Lesser(at + copy, Lesser(clipAt + clipSize, size)) - 1
Cut(at, copy, clipAt, clipSize, size) ==
  Greater(at, Greater(clipAt, 0)) ..
  Lesser(at + copy, Lesser(clipAt + (IF clipSize > 0 THEN clipSize ELSE size), size)) - 1

ClipBox == Box(clip[1], clip[2], IF clip[3] > 0 THEN clip[3] ELSE Width,
               IF clip[4] > 0 THEN clip[4] ELSE Height)

(* IDisplay::BitBlt.  Only a whole bitmap onto the whole screen is scaled. *)
BitBlt(dest, source, x, y) ==
  LET scaled == /\ dest = Whole /\ x = 0 /\ y = 0
                /\ source # <<Width, Height>>
      copyW  == IF scaled THEN dest[3] ELSE Lesser(dest[3], source[1] - x)
      copyH  == IF scaled THEN dest[4] ELSE Lesser(dest[4], source[2] - y)
      from(p) == IF scaled
                 THEN <<(p[1] * source[1]) \div dest[3], (p[2] * source[2]) \div dest[4]>>
                 ELSE <<x + p[1] - dest[1], y + p[2] - dest[2]>>
      area   == Box(0, 0, source[1], source[2])
      drawn  == {p \in Cut(dest[1], copyW, clip[1], clip[3], Width) \X
                       Cut(dest[2], copyH, clip[2], clip[4], Height) : from(p) \in area}
  IN  /\ dest[3] > 0 /\ dest[4] > 0
      /\ Draw("blit", drawn, ClipBox,
              {from(p) : p \in drawn}, area)

Update ==
  /\ presented' = screen
  /\ UNCHANGED <<clip, screen, last>>
  /\ KeepBitmaps

SetDestination(b) ==
  /\ destination' = b
  /\ UNCHANGED <<refs, held, dibs, nextDib, compat>>
  /\ KeepScreen

(* GetDestination and GetDeviceBitmap hand out a reference of the caller's *)
(* own: the object's slot 0 counts it.                                     *)
Acquired_ByCallerOnly(b) == refs
Acquired(b) == [refs EXCEPT ![b] = @ + 1]
HandOut(b) ==
  /\ held[b] < 2
  /\ refs' = Acquired(b)
  /\ held' = [held EXCEPT ![b] = @ + 1]
  /\ UNCHANGED <<destination, dibs, nextDib, compat>>
  /\ KeepScreen
GetDestination == HandOut(destination)
GetDeviceBitmap == HandOut(Device)
\* QueryInterface for a class the bitmap answers; the device's own goes to the IDIB
QueryInterface(b) == b # Device /\ HandOut(b)
AddRef(b) == HandOut(b)
Release(b) ==
  /\ held[b] > 0
  /\ refs' = [refs EXCEPT ![b] = IF b = Device \/ @ > 0 THEN @ - 1 ELSE @]
  /\ held' = [held EXCEPT ![b] = @ - 1]
  /\ UNCHANGED <<destination, dibs, nextDib, compat>>
  /\ KeepScreen

(* AllocateDib: table, object and pixels one after another in the arena.   *)
TableWords == 16
TableReserved_SixSlots == 6
TableReserved == 16
ObjectWords == 9
Pitch(w) == (w * 16 + 31) \div 32
CreateDIBitmap(w, h) ==
  LET object == nextDib + TableReserved
      buffer == object + ObjectWords
  IN  /\ Len(dibs) < MaxBitmaps
      /\ IF buffer + Pitch(w) * h > DibWords
         THEN UNCHANGED <<dibs, nextDib>>
         ELSE /\ dibs' = Append(dibs, [table |-> nextDib, object |-> object,
                                       buffer |-> buffer, words |-> Pitch(w) * h])
              /\ nextDib' = buffer + Pitch(w) * h
      /\ UNCHANGED <<destination, refs, held, compat>>
      /\ KeepScreen

(* CreateCompatibleBitmap.  The first one is the shared object, with pixels *)
(* before the ring; the others come from two rings that wrap apart.          *)
Pages(w, h) == (w * h + PagePixels - 1) \div PagePixels
PageFrom_Unchecked(pages) == compat.page
PageFrom(pages) == IF compat.page + pages > RingPages THEN 0 ELSE compat.page
CreateCompatibleBitmap(w, h) ==
  LET width  == IF w # 0 THEN Lesser(w, Width) ELSE compat.width
      height == IF h # 0 THEN Lesser(h, Height) ELSE compat.height
      pages  == Pages(width, height)
      object == IF compat.object > RingObjects - 1 THEN 0 ELSE compat.object
      new    == [object |-> object, page |-> PageFrom(pages), pages |-> pages,
                 w |-> width, h |-> height]
      sized  == [compat EXCEPT !.begun = TRUE, !.width = width, !.height = height]
  IN  /\ Len(compat.made) < MaxBitmaps
      /\ compat' = IF ~compat.begun THEN sized
                   ELSE [sized EXCEPT !.made = Append(@, new), !.object = object + 1,
                                      !.page = new.page + pages]
      /\ UNCHANGED <<destination, refs, held, dibs, nextDib>>
      /\ KeepScreen

(* DrawPixel and FillRect of a compatible bitmap, by its own geometry.     *)
Filled_LeftOpen(r, w, h) ==
  (r[1] .. Lesser(w, r[1] + r[3]) - 1) \X (Greater(0, r[2]) .. Lesser(h, r[2] + r[4]) - 1)
Filled(r, w, h) ==
  (Greater(0, r[1]) .. Lesser(w, r[1] + r[3]) - 1) \X
  (Greater(0, r[2]) .. Lesser(h, r[2] + r[4]) - 1)
FillRect(n, r) ==
  LET bitmap == compat.made[n]
      base   == bitmap.page * PagePixels
  IN  /\ last' = [Idle EXCEPT
                    !.writes = {base + p[2] * bitmap.w + p[1] :
                                p \in Filled(r, bitmap.w, bitmap.h)},
                    !.writable = base .. base + bitmap.w * bitmap.h - 1]
      /\ UNCHANGED <<clip, screen, presented>>
      /\ KeepBitmaps

DisplayNext ==
  /\ calls < MaxCalls
  /\ calls' = calls + 1
  /\ \/ \E r \in Rects : \/ SetClipRect(r) \/ DrawRect(r)
                         \/ \E s \in Sources, x, y \in 0 .. 1 : BitBlt(r, s, x, y)
                         \/ \E n \in DOMAIN compat.made : FillRect(n, r)
     \/ \E x \in (0 - 1) .. Width : DrawText(x, 0, 2)
     \/ Update
     \/ \E b \in {Device} \cup {<<"dib", n>> : n \in DOMAIN dibs} :
          SetDestination(b) \/ AddRef(b) \/ Release(b) \/ QueryInterface(b)
     \/ GetDestination \/ GetDeviceBitmap
     \/ \E s \in Sources : CreateDIBitmap(s[1], s[2])
     \/ \E s \in Sources \cup {<<0, 0>>} : CreateCompatibleBitmap(s[1], s[2])
DisplaySpec == DisplayInit /\ [][DisplayNext]_displayVars

DisplayTypeOK ==
  /\ clip \in Rects \cup {Whole}
  /\ DOMAIN screen = Pixels /\ DOMAIN presented = Pixels
  /\ nextDib \in 0 .. DibWords
  /\ compat.object \in 0 .. RingObjects /\ compat.page \in 0 .. RingPages

(* Every drawing reads inside its source and writes inside its target, and *)
(* a blit never leaves the clip.                                           *)
DrawsInside == last.writes \subseteq last.writable /\ last.reads \subseteq last.readable

(* The count of a bitmap is the references handed out and not released:    *)
(* the bitmap of the screen used to go to -81 (src/core/brew/              *)
(* idisplay.cpp:328).                                                      *)
RefsMatchHeld ==
  /\ refs[Device] = 1 + held[Device]
  /\ \A n \in DOMAIN dibs : refs[<<"dib", n>>] = held[<<"dib", n>>]

(* The words of a DIB are its own, and two compatible bitmaps share pixels *)
(* only when the ring went round between them.                             *)
DibArea(d) == d.table .. d.buffer + d.words - 1
DibsApart ==
  /\ \A d, e \in DOMAIN dibs : d # e => DibArea(dibs[d]) \cap DibArea(dibs[e]) = {}
  /\ \A d \in DOMAIN dibs : /\ dibs[d].object >= dibs[d].table + TableWords
                            /\ dibs[d].buffer + dibs[d].words <= DibWords

PagesMade(made) ==
  LET sum[n \in 0 .. Len(made)] == IF n = 0 THEN 0 ELSE sum[n - 1] + made[n].pages IN sum
Slack == RingPages - Pages(Width, Height)
RingApart(made) ==
  /\ \A m \in DOMAIN made : made[m].page + made[m].pages <= RingPages
  /\ \A m, n \in DOMAIN made :
       /\ m < n
       /\ PagesMade(made)[n] - PagesMade(made)[m - 1] <= Slack
       => \/ made[m].page + made[m].pages <= made[n].page
          \/ made[n].page + made[n].pages <= made[m].page

BitmapsApart == DibsApart /\ RingApart(compat.made)

DisplayBounds == MaxBitmaps \in Nat /\ Sources \subseteq Nat \X Nat

(* Of the DIBs not made yet, too, one reference is counted and held.       *)
DisplayInv ==
  /\ refs \in [Bitmaps -> Int] /\ held \in [Bitmaps -> Nat]
  /\ destination \in Bitmaps
  /\ nextDib \in Int
  /\ dibs \in Seq([table : Int, object : Int, buffer : Int, words : Int])
  /\ Len(dibs) <= MaxBitmaps
  /\ \A b \in Bitmaps : refs[b] = held[b] + (IF b = Device THEN 1 ELSE 0)

(* The screen fits in the ring, and what the title passes are numbers.     *)
BitmapBounds ==
  /\ Width \in Nat \ {0} /\ Height \in Nat \ {0} /\ PagePixels \in Nat \ {0}
  /\ RingPages \in Nat /\ Pages(Width, Height) <= RingPages /\ RingObjects \in Nat
  /\ DibWords \in Nat /\ Sources \subseteq Nat \X Nat /\ Rects \subseteq Int \X Int \X Int \X Int

Dib == [table : Nat, object : Nat, buffer : Nat, words : Nat]
DibsLaid ==
  /\ nextDib \in Nat /\ dibs \in Seq(Dib)
  /\ \A d \in DOMAIN dibs :
       /\ dibs[d].object = dibs[d].table + TableWords
       /\ dibs[d].buffer = dibs[d].object + ObjectWords
       /\ dibs[d].buffer + dibs[d].words <= nextDib
       /\ dibs[d].buffer + dibs[d].words <= DibWords
  /\ \A d, e \in DOMAIN dibs : d < e => dibs[d].buffer + dibs[d].words <= dibs[e].table

(* Until the ring has gone round behind a bitmap, the next page is as far  *)
(* behind it as pages were made since, its own included; or the cursor has *)
(* wrapped once, and is still before it.                                   *)
Bitmap == [object : Nat, page : Nat, pages : 0 .. Pages(Width, Height),
           w : 0 .. Width, h : 0 .. Height]
Since(made, m) == PagesMade(made)[Len(made)] - PagesMade(made)[m - 1]
RingFollows(made, page) ==
  \A m \in DOMAIN made : Since(made, m) <= Slack =>
    \/ page = made[m].page + Since(made, m)
    \/ page <= Since(made, m) /\ made[m].page + Since(made, m) - page > Slack

BitmapsInv ==
  /\ clip \in Int \X Int \X Int \X Int
  /\ compat \in [begun : BOOLEAN, width : 0 .. Width, height : 0 .. Height, object : Nat,
                 page : 0 .. RingPages, made : Seq(Bitmap)]
  /\ DibsLaid
  /\ RingApart(compat.made) /\ RingFollows(compat.made, compat.page)
  /\ DrawsInside
=============================================================================
