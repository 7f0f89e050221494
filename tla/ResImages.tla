------------------------------ MODULE ResImages ------------------------------
(***************************************************************************)
(* The images ISHELL_LoadResObject answers (src/tools/game_probe.cpp:1722):*)
(* an object for every resource that decodes, up to the end of their       *)
(* range, and one fallback object for the others; the frames of a GIF are  *)
(* composed when it is loaded.                                             *)
(*                                                                         *)
(* A frame is the pixels of its rectangle, those that are opaque and its   *)
(* disposal; a pixel of a canvas holds the number of the frame that drew   *)
(* it, 0 while it is clear.                                                *)
(***************************************************************************)
EXTENDS Integers, Sequences, FiniteSets

CONSTANTS
  Canvas,            \* the pixels of the logical screen
  Frames,            \* <<rectangle, opaque, disposal>>
  MaxFrames,
  Room,              \* the end of the range, in objects from the fallback's
  MaxCalls

VARIABLES
  images,            \* the image of every object
  nextObject,        \* next_image_object, in objects from the fallback's
  info,              \* the one AEEImageInfo: animated, and of which image
  shown,             \* the object and the frame drawn last
  answer,            \* what LoadResObject answered last
  calls

imageVars == <<images, nextObject, info, shown, answer, calls>>

Fallback == 0
Legacy == [image |-> Fallback, animated |-> TRUE]
FirstObject_AtFallback == Fallback
FirstObject == Fallback + 1

ImagesInit ==
  /\ images = <<>>
  /\ nextObject = FirstObject
  /\ info = Legacy
  /\ shown = <<>>
  /\ answer = Fallback
  /\ calls = 0

Clear == [p \in Canvas |-> 0]
Rectangle(frame) == frame[1]
Opaque(frame) == frame[2]
Disposal(frame) == frame[3]

(* The walk over the frames: the canvas shown, and what it becomes when    *)
(* the frame is disposed of: cleared (2), or as it was before (3).         *)
Restored_AfterDrawing(before, drawn) == drawn
Restored(before, drawn) == before
FrameDrawn(frame, n, before) ==
  LET drawn == [p \in Canvas |-> IF p \in Opaque(frame) THEN n ELSE before[p]]
  IN  [shown |-> drawn,
       left  |-> CASE Disposal(frame) = 2 ->
                      [p \in Canvas |-> IF p \in Rectangle(frame) THEN 0 ELSE drawn[p]]
                   [] Disposal(frame) = 3 -> Restored(before, drawn)
                   [] OTHER -> drawn]
Walk(gif) ==
  LET walk[n \in 0 .. Len(gif)] ==
        IF n = 0 THEN [shown |-> Clear, left |-> Clear]
        ELSE FrameDrawn(gif[n], n, walk[n - 1].left)
  IN  walk
Composed(gif) == [n \in DOMAIN gif |-> Walk(gif)[n].shown]

Bounded == calls < MaxCalls /\ calls' = calls + 1

\* absent, too short, of no known format or not decodable: the fallback object
LoadFails ==
  /\ Bounded
  /\ answer' = Fallback
  /\ UNCHANGED <<images, nextObject, info, shown>>

(* The object is taken before the guard of the range, which refuses what   *)
(* it has already counted.                                                 *)
LoadResObject(gif) ==
  /\ Bounded
  /\ nextObject' = nextObject + 1
  /\ IF nextObject' > Room
     THEN answer' = Fallback /\ UNCHANGED images
     ELSE /\ images' = [o \in DOMAIN images \cup {nextObject} |->
                          IF o = nextObject
                          THEN [gif |-> gif, frames |-> Composed(gif), current |-> 1]
                          ELSE images[o]]
          /\ answer' = nextObject
  /\ UNCHANGED <<info, shown>>

\* draw_res_image: nothing for an object without an image; a frame past the end is the last
Drawn(o, n) ==
  shown' = IF o \in DOMAIN images
           THEN <<o, IF n > Len(images[o].frames) THEN Len(images[o].frames) ELSE n>>
           ELSE shown

After(o) == (images[o].current % Len(images[o].frames)) + 1
Draw(o) ==
  /\ Bounded
  /\ IF o \in DOMAIN images
     THEN images' = [images EXCEPT ![o].current = After(o)] /\ Drawn(o, After(o))
     ELSE UNCHANGED <<images, shown>>
  /\ UNCHANGED <<nextObject, info, answer>>
DrawFrame(o, n) ==
  /\ Bounded
  /\ Drawn(o, n)
  /\ UNCHANGED <<images, nextObject, info, answer>>
Start(o) ==
  /\ Bounded
  /\ IF o \in DOMAIN images
     THEN images' = [images EXCEPT ![o].current = 1] /\ Drawn(o, 1)
     ELSE UNCHANGED <<images, shown>>
  /\ UNCHANGED <<nextObject, info, answer>>

\* GetInfo, and the info Notify passes to its callback at once
InfoOf(o) == IF o \in DOMAIN images
             THEN [image |-> o, animated |-> Len(images[o].frames) > 1]
             ELSE Legacy
Notify(o) ==
  /\ Bounded
  /\ info' = IF o \in DOMAIN images THEN InfoOf(o) ELSE info
  /\ UNCHANGED <<images, nextObject, shown, answer>>

Handles == {Fallback} \cup DOMAIN images
Gifs == UNION {[1 .. n -> Frames] : n \in 1 .. MaxFrames}
ImagesNext ==
  \/ LoadFails
  \/ \E gif \in Gifs : LoadResObject(gif)
  \/ \E o \in Handles : \/ Draw(o) \/ Start(o) \/ Notify(o)
                        \/ \E n \in 1 .. MaxFrames : DrawFrame(o, n)
ImagesSpec == ImagesInit /\ [][ImagesNext]_imageVars

ImagesTypeOK ==
  /\ \A o \in DOMAIN images : images[o].current \in DOMAIN images[o].frames
  /\ nextObject \in Nat /\ answer \in Handles

(* The fallback never is an image: both once began at one address, and a   *)
(* resource that did not exist was drawn as the opening animation (the     *)
(* story is told at src/tools/game_probe.cpp:1909).  No object lies past   *)
(* the range either.                                                       *)
FallbackIsNoImage == \A o \in DOMAIN images : o # Fallback /\ o < Room

(* A frame shows, at every pixel, the newest frame that drew it opaquely   *)
(* and was neither cleared nor undone since.                               *)
\* what frame m drew at p is there when frame n has been disposed of
Remains(gif, m, n, p) ==
  /\ p \in Opaque(gif[m])
  /\ \A k \in m .. n :
       \/ k = m /\ ~(Disposal(gif[k]) \in {2, 3})
       \/ k > m /\ ~(Disposal(gif[k]) = 2 /\ p \in Rectangle(gif[k]))
                /\ ~(p \in Opaque(gif[k]) /\ Disposal(gif[k]) # 3)
\* and when frame n is drawn over it
Lasts(gif, m, n, p) == Remains(gif, m, n - 1, p) /\ ~(p \in Opaque(gif[n]) /\ n > m)
FramesAsTheFormatSays ==
  \A o \in DOMAIN images : \A n \in DOMAIN images[o].gif, p \in Canvas :
    LET gif == images[o].gif IN
    images[o].frames[n][p] =
      IF \E m \in 1 .. n : Lasts(gif, m, n, p)
      THEN CHOOSE m \in 1 .. n : Lasts(gif, m, n, p) ELSE 0

ImagesBounds == Room \in Nat

(* Every image was given a number of its own between the fallback's and    *)
(* the next.                                                               *)
ImagesInv ==
  /\ nextObject \in Nat /\ nextObject > Fallback
  /\ \A o \in DOMAIN images : o \in FirstObject .. nextObject - 1 /\ o < Room

(* The opaque pixels of a frame are in its rectangle.                      *)
FramesBounds == \A frame \in Frames : Opaque(frame) \subseteq Rectangle(frame)

(* The frames of every image are those of its GIF.                         *)
FramesInv ==
  \A o \in DOMAIN images :
    images[o].gif \in Seq(Frames) /\ images[o].frames = Composed(images[o].gif)
=============================================================================
