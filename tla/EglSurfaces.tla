---------------------------- MODULE EglSurfaces ----------------------------
(***************************************************************************)
(* The EGL half of GlHle (core/brew/gl_hle.cpp): surfaces, the current one *)
(* and the copy of what was drawn into the memory the guest reads.  The    *)
(* backend below it is the SDL one: a frame, and one offscreen target that *)
(* is made anew when a pbuffer of another size becomes current.  The       *)
(* drawings made on a target are counted; 0 is an empty image.             *)
(***************************************************************************)
EXTENDS Integers, Sequences

CONSTANTS
    MaxWidth, MaxHeight,    \* 640 and 480
    PageCells,              \* the allocation unit
    RegionStart, RegionEnd, \* the region of the colour buffers
    MaxActivity             \* bound: calls that count as activity

VARIABLES
    surfaces,   \* egl_surfaces_: handle -> size and colour buffer
    next,       \* next_pbuffer_pixels_ and next_egl_surface_
    current,    \* current_draw_surface_ and context_current_
    backend,    \* offscreen targets work, where drawing goes, what is shown
    activity,   \* the sum of the counters, and its value at the last copy
    memory,     \* what each colour buffer holds
    settled     \* the last copy was made for the surface still current, and
                \* nothing was cleared since

eglVars == <<surfaces, next, current, backend, activity, memory, settled>>

WindowHandle == 1

ContextHandle == 1

EglInit ==
    /\ surfaces = [h \in {} |-> 0]
    /\ next = [pixels |-> RegionStart, handle |-> 2]
    /\ current = [draw |-> 0, context |-> FALSE]
    /\ backend \in [fbo : BOOLEAN, target : {"frame"}, bound : {FALSE}, size : {<<0, 0>>},
                    frame : {0}, pbuffer : {0}]
    /\ activity = [sum |-> 0, last |-> -1]
    /\ memory = [h \in {} |-> 0]
    /\ settled = TRUE

(***************************************************************************)
(* What the configuration and the surfaces answer.                         *)
(***************************************************************************)
ConfigAttrib ==
    [BUFFER_SIZE |-> 16, RED_SIZE |-> 5, GREEN_SIZE |-> 6, BLUE_SIZE |-> 5, ALPHA_SIZE |-> 0,
     DEPTH_SIZE |-> 16, STENCIL_SIZE |-> 8, CONFIG_ID |-> 1, MAX_PBUFFER_WIDTH |-> MaxWidth,
     MAX_PBUFFER_HEIGHT |-> MaxHeight, MAX_PBUFFER_PIXELS |-> MaxWidth * MaxHeight,
     SURFACE_TYPE |-> 7, RENDERABLE_TYPE |-> 1, LEVEL |-> 0, SAMPLES |-> 0]

QuerySurface(h, attribute) ==
    CASE h \notin DOMAIN surfaces -> "false"
      [] attribute = "WIDTH" -> surfaces[h].width
      [] attribute = "HEIGHT" -> surfaces[h].height
      [] attribute \in DOMAIN ConfigAttrib -> ConfigAttrib[attribute]
      [] OTHER -> "false"


(***************************************************************************)
(* Surfaces.                                                               *)
(***************************************************************************)
\* m[k] = v of a map
Put(m, k, v) == [x \in DOMAIN m \cup {k} |-> IF x = k THEN v ELSE m[x]]

CreateWindowSurface ==
    /\ surfaces' = Put(surfaces, WindowHandle,
                       [width |-> MaxWidth, height |-> MaxHeight, buffer |-> 0])
    /\ UNCHANGED <<next, current, backend, activity, memory, settled>>

(* The last value of a name wins, up to the terminator. *)
Attribute(list, name) ==
    LET at == {k \in DOMAIN list : /\ list[k][1] = name
                                   /\ \A j \in 1..k : list[j][1] # "NONE"}
    IN IF at = {} THEN 0 ELSE list[CHOOSE k \in at : \A j \in at : j <= k][2]

AttributeLists ==
    {<<<<"WIDTH", w>>, <<"HEIGHT", h>>, <<"NONE", 0>>>> : w, h \in 0..MaxWidth + 1}
    \cup {<<<<"HEIGHT", 1>>, <<"NONE", 0>>, <<"WIDTH", 1>>>>,
          <<<<"WIDTH", 2>>, <<"HEIGHT", 1>>, <<"WIDTH", 1>>, <<"NONE", 0>>>>}

(* A bug: the next buffer begins where the next page of this one would. *)
PageAfter_Down(n) == (n \div PageCells) * PageCells

PageAfter(n) == ((n + PageCells - 1) \div PageCells) * PageCells

CreatePbufferSurface ==
    \E list \in AttributeLists :
        LET width == Attribute(list, "WIDTH")
            height == Attribute(list, "HEIGHT")
            bytes == width * height * 2
        IN /\ width \in 1..MaxWidth /\ height \in 1..MaxHeight
           /\ next.pixels + bytes <= RegionEnd
           /\ surfaces' = Put(surfaces, next.handle, [width |-> width, height |-> height,
                                                      buffer |-> next.pixels])
           /\ memory' = Put(memory, next.handle, 0)
           /\ next' = [pixels |-> PageAfter(next.pixels + bytes), handle |-> next.handle + 1]
           /\ UNCHANGED <<current, backend, activity, settled>>

(* The memory is not used again, and the backend keeps drawing where it did. *)
DestroySurface ==
    \E h \in DOMAIN surfaces :
        /\ surfaces' = [s \in DOMAIN surfaces \ {h} |-> surfaces[s]]
        /\ current' = [current EXCEPT !.draw = IF @ = h THEN 0 ELSE @]
        /\ UNCHANGED <<next, backend, activity, memory, settled>>

(***************************************************************************)
(* The current surface and the drawing.                                    *)
(***************************************************************************)
BindOffscreenTarget(b, size) ==
    IF ~b.fbo THEN b
    ELSE [b EXCEPT !.target = "pbuffer", !.bound = TRUE, !.size = size,
                   !.pbuffer = IF size = b.size THEN @ ELSE 0]

UnbindOffscreenTarget(b) ==
    IF b.bound THEN [b EXCEPT !.target = "frame", !.bound = FALSE] ELSE b

MakeCurrent ==
    \E draw, read \in DOMAIN surfaces, ctx \in {0, ContextHandle} :
        IF ctx = 0
        THEN /\ current' = [draw |-> 0, context |-> FALSE]
             /\ UNCHANGED <<surfaces, next, backend, activity, memory, settled>>
        ELSE LET s == surfaces[draw] IN
             /\ current' = [draw |-> draw, context |-> TRUE]
             /\ backend' = IF s.buffer # 0 THEN BindOffscreenTarget(backend, <<s.width, s.height>>)
                           ELSE UnbindOffscreenTarget(backend)
             /\ settled' = FALSE
             /\ UNCHANGED <<surfaces, next, activity, memory>>

(* eglTerminate and eglDestroyContext. *)
DestroyContext ==
    /\ current' = [current EXCEPT !.context = FALSE]
    /\ UNCHANGED <<surfaces, next, backend, activity, memory, settled>>

(* A bug: drawing by indices is not counted. *)
Counted_NoElements(call) == call \in {"arrays", "upload", "swap"}

(* What the counters of DrawStats see: there is one for glClear that no line adds to. *)
Counted(call) == call \in {"arrays", "elements", "upload", "swap"}

Active(call) == [activity EXCEPT !.sum = IF Counted(call) THEN @ + 1 ELSE @]

Drawn(b) ==
    IF b.target = "frame" THEN [b EXCEPT !.frame = @ + 1] ELSE [b EXCEPT !.pbuffer = @ + 1]

Draw ==
    \E call \in {"arrays", "elements", "clear"} :
        /\ activity.sum < MaxActivity
        /\ backend.frame + backend.pbuffer < MaxActivity
        /\ activity' = Active(call)
        /\ backend' = Drawn(backend)
        /\ settled' = (settled /\ call # "clear")
        /\ UNCHANGED <<surfaces, next, current, memory>>

Upload ==
    /\ activity.sum < MaxActivity
    /\ activity' = Active("upload")
    /\ UNCHANGED <<surfaces, next, current, backend, memory, settled>>

(* The window shows the frame, which stays the target. *)
SwapBuffers ==
    /\ activity.sum < MaxActivity
    /\ activity' = Active("swap")
    /\ backend' = IF backend.fbo THEN [backend EXCEPT !.target = "frame"] ELSE backend
    /\ UNCHANGED <<surfaces, next, current, memory, settled>>

(***************************************************************************)
(* eglGetColorBufferQUALCOMM: SyncSurfaceColorBuffer reads the target back *)
(* unless nothing was drawn since the last time.                           *)
(***************************************************************************)
GetColorBuffer ==
    /\ current.draw \in DOMAIN surfaces
    /\ surfaces[current.draw].buffer # 0
    /\ IF activity.sum = activity.last
       THEN UNCHANGED <<activity, backend, memory, settled>>
       ELSE /\ settled' = TRUE
            /\ activity' = [activity EXCEPT !.last = activity.sum]
            /\ backend' = IF backend.fbo
                          THEN [backend EXCEPT !.target = IF @ = "pbuffer" \/ backend.bound
                                                          THEN "pbuffer" ELSE "frame"]
                          ELSE backend
            /\ memory' = IF backend.fbo
                         THEN [memory EXCEPT ![current.draw] =
                                   IF backend.bound THEN backend.pbuffer ELSE backend.frame]
                         ELSE memory
    /\ UNCHANGED <<surfaces, next, current>>

EglNext ==
    \/ CreateWindowSurface \/ CreatePbufferSurface \/ DestroySurface \/ MakeCurrent
    \/ DestroyContext \/ Draw \/ Upload \/ SwapBuffers \/ GetColorBuffer

EglSpec == EglInit /\ [][EglNext]_eglVars

EglTypeOK ==
    /\ DOMAIN surfaces \subseteq 1..next.handle - 1
    /\ current.draw \in {0} \cup DOMAIN surfaces
    /\ backend.target \in {"frame", "pbuffer"}
    /\ activity.last \in -1..activity.sum

(* The buffers of two pbuffers share no byte and lie in the region, and a
   pbuffer is one the configuration allows (EglCreatePbufferSurface,
   EglConfigAttrib). *)
PbuffersApart ==
    LET bytes(h) == QuerySurface(h, "WIDTH") * QuerySurface(h, "HEIGHT") * 2
        pbuffers == {h \in DOMAIN surfaces : surfaces[h].buffer # 0}
    IN \A h \in pbuffers :
        /\ bytes(h) <= 2 * ConfigAttrib["MAX_PBUFFER_PIXELS"]
        /\ surfaces[h].buffer + bytes(h) <= RegionEnd
        /\ \A g \in pbuffers \ {h} :
               \/ surfaces[h].buffer + bytes(h) <= surfaces[g].buffer
               \/ surfaces[g].buffer + bytes(g) <= surfaces[h].buffer

(* The memory the next request would answer with, the copy skipped. *)
WouldSkip ==
    /\ current.draw \in DOMAIN surfaces /\ surfaces[current.draw].buffer # 0
    /\ backend.bound /\ activity.sum = activity.last

(* A copy is skipped only when it would change nothing, as long as the last
   copy was for the surface made current last and nothing was cleared since
   (SyncSurfaceColorBuffer compares the counters of the calls that draw).  A clear
   alone is not seen, and its copy is skipped, though the comment there names
   clear among what counts. *)
ReadbackFollowsDrawing ==
    WouldSkip /\ settled => memory[current.draw] = backend.pbuffer

-----------------------------------------------------------------------------
(* Why both hold, for surfaces and regions of any size (PlatformParts). *)
EglBounds ==
    /\ MaxWidth \in Nat /\ MaxHeight \in Nat /\ PageCells \in Nat \ {0}
    /\ RegionStart \in Nat /\ RegionEnd \in Nat

Surface == [width : 0..MaxWidth, height : 0..MaxHeight, buffer : Nat]
SurfaceEnd(s) == s.buffer + s.width * s.height * 2
SurfacesTyped ==
    /\ surfaces \in [DOMAIN surfaces -> Surface]
    /\ DOMAIN surfaces \subseteq 1..next.handle - 1
    /\ next.pixels \in Nat /\ next.handle \in Nat /\ next.handle > 1

(* A buffer ends below the next one, so no later one reaches into it. *)
SurfacesApart ==
    /\ \A h \in DOMAIN surfaces : surfaces[h].buffer # 0 =>
           /\ SurfaceEnd(surfaces[h]) <= next.pixels
           /\ SurfaceEnd(surfaces[h]) <= RegionEnd
    /\ \A g, h \in DOMAIN surfaces :
           g # h /\ surfaces[g].buffer # 0 /\ surfaces[h].buffer # 0 =>
               \/ SurfaceEnd(surfaces[h]) <= surfaces[g].buffer
               \/ SurfaceEnd(surfaces[g]) <= surfaces[h].buffer

(* The target is bound only where there is one; the memory of every pbuffer
   is there to be written to. *)
BackendTyped ==
    /\ backend \in [fbo : BOOLEAN, target : {"frame", "pbuffer"}, bound : BOOLEAN,
                    size : (0..MaxWidth) \X (0..MaxHeight), frame : Nat, pbuffer : Nat]
    /\ backend.bound => backend.fbo
    /\ activity \in [sum : Nat, last : Int] /\ activity.last <= activity.sum
    /\ current \in [draw : {0} \cup DOMAIN surfaces, context : BOOLEAN]
    /\ memory \in [DOMAIN memory -> Nat]
    /\ \A h \in DOMAIN surfaces : surfaces[h].buffer # 0 => h \in DOMAIN memory

EglInv ==
    /\ SurfacesTyped
    /\ SurfacesApart
    /\ BackendTyped
    /\ ReadbackFollowsDrawing
=============================================================================
