---------------------------- MODULE GlPresenter ----------------------------
(***************************************************************************)
(* Sdl2UnifiedBackend (frontends/standalone/sdl2_unified_backend.cpp): one *)
(* GL context serves the guest's own GL calls and the emulator's drawing   *)
(* of the 2D screen, of its overlay and of the window.  The state of the   *)
(* context is a record that each call of the backend rewrites.             *)
(***************************************************************************)
EXTENDS Integers

CONSTANTS
    GuestTextures,  \* the names the guest binds, none of "none", "video", "pbuffer"
    Sizes           \* the sizes of its pbuffers, 1 and up

Units == 0..1

VARIABLES
    driver,     \* which entry points the driver has
    gl,         \* the context, as the driver keeps it
    guest,      \* guest_active_texture_, guest_client_active_texture_,
                \* pbuffer_bound_, pbuffer_fbo_ (made or not), pbuffer_w_
                \* and pbuffer_h_ as one size
    overlay     \* overlay_visible_

presenterVars == <<driver, gl, guest, overlay>>

PresenterInit ==
    /\ driver \in [fbo : BOOLEAN, units : BOOLEAN]
    /\ gl = [target |-> IF driver.fbo THEN "frame" ELSE "window", active |-> 0, client |-> 0,
             texture |-> [u \in Units |-> "none"], viewport |-> "guest", clear |-> "guest",
             shows |-> [t \in {"window", "frame", "pbuffer"} |-> "nothing"]]
    /\ guest = [active |-> 0, client |-> 0, bound |-> FALSE, made |-> FALSE,
                size |-> 0]
    /\ overlay \in BOOLEAN

SelectHostUnitZero(c) ==
    IF driver.units THEN [c EXCEPT !.active = 0, !.client = 0] ELSE c

RestoreGuestTextureUnits(c) ==
    IF driver.units THEN [c EXCEPT !.active = IF guest.active # 0 THEN guest.active ELSE @,
                                   !.client = IF guest.client # 0 THEN guest.client ELSE @]
    ELSE c

Drawn(c, what) == [c EXCEPT !.shows[c.target] = what]

DrawOverlay(c) == IF overlay THEN Drawn(SelectHostUnitZero(c), "overlay") ELSE c

(* The frame is drawn into the window, cleared to black and letterboxed; the
   attributes pushed for it do not cover the viewport and the clear colour. *)
PresentFrame(c) ==
    LET d == SelectHostUnitZero(DrawOverlay(c)) IN
    IF driver.fbo
    THEN RestoreGuestTextureUnits(
             [d EXCEPT !.target = "frame", !.viewport = "letterbox", !.clear = "black",
                       !.shows["window"] = d.shows["frame"]])
    ELSE d

(***************************************************************************)
(* The guest's calls.                                                      *)
(***************************************************************************)
BindTexture ==
    \E t \in GuestTextures \cup {"none"} :
        /\ gl' = [gl EXCEPT !.texture[gl.active] = t]
        /\ UNCHANGED <<driver, guest, overlay>>

ActiveTexture ==
    \E u \in Units :
        /\ guest' = [guest EXCEPT !.active = u]
        /\ gl' = IF driver.units THEN [gl EXCEPT !.active = u] ELSE gl
        /\ UNCHANGED <<driver, overlay>>

ClientActiveTexture ==
    \E u \in Units :
        /\ guest' = [guest EXCEPT !.client = u]
        /\ gl' = IF driver.units THEN [gl EXCEPT !.client = u] ELSE gl
        /\ UNCHANGED <<driver, overlay>>

SetState ==
    /\ gl' \in {[gl EXCEPT !.viewport = "guest"], [gl EXCEPT !.clear = "guest"]}
    /\ UNCHANGED <<driver, guest, overlay>>

DrawArrays ==
    /\ gl' = RestoreGuestTextureUnits(Drawn(SelectHostUnitZero(gl), "guest"))
    /\ UNCHANGED <<driver, guest, overlay>>

(* A target of another size is made anew, through the active unit; one that the
   driver finds incomplete is given up, and what was bound stays marked so. *)
BindOffscreenTarget ==
    \E s \in Sizes, complete \in BOOLEAN :
        LET anew == ~guest.made \/ guest.size # s
            c == IF anew THEN [gl EXCEPT !.texture[gl.active] = "pbuffer",
                                         !.shows["pbuffer"] = "nothing"]
                 ELSE gl
        IN  /\ driver.fbo
            /\ IF anew /\ ~complete
               THEN /\ guest' = [guest EXCEPT !.made = FALSE]
                    /\ gl' = [c EXCEPT !.target = "frame"]
               ELSE /\ guest' = [guest EXCEPT !.bound = TRUE, !.made = TRUE, !.size = s]
                    /\ gl' = [c EXCEPT !.target = "pbuffer", !.viewport = "pbuffer"]
            /\ UNCHANGED <<driver, overlay>>

UnbindOffscreenTarget ==
    /\ guest.bound
    /\ guest' = [guest EXCEPT !.bound = FALSE]
    /\ gl' = [gl EXCEPT !.target = "frame", !.viewport = "frame"]
    /\ UNCHANGED <<driver, overlay>>

SwapBuffers ==
    /\ gl' = PresentFrame(gl)
    /\ UNCHANGED <<driver, guest, overlay>>

ReadPixelsRgba ==
    /\ driver.fbo
    /\ gl' = [gl EXCEPT !.target = IF guest.bound /\ guest.made THEN "pbuffer"
                                ELSE "frame"]
    /\ UNCHANGED <<driver, guest, overlay>>

(***************************************************************************)
(* The emulator's calls.                                                   *)
(***************************************************************************)
(* A bug: the quad is drawn wherever the guest draws. *)
QuadTarget_InPlace(c) == c

QuadTarget(c) == IF driver.fbo THEN [c EXCEPT !.target = "frame"] ELSE c

PushVideoFrame ==
    /\ gl' = LET quad == Drawn([SelectHostUnitZero(QuadTarget(gl)) EXCEPT
                                    !.texture[IF driver.units THEN 0 ELSE gl.active] = "video"],
                               "screen")
                 done == RestoreGuestTextureUnits(PresentFrame(quad))
             IN IF guest.bound /\ guest.made
                THEN [done EXCEPT !.target = "pbuffer", !.viewport = "pbuffer"]
                ELSE done
    /\ UNCHANGED <<driver, guest, overlay>>

(* The mirror's copy of the frame. *)
CaptureFrameRgba ==
    /\ driver.fbo
    /\ gl' = [gl EXCEPT !.target = "frame"]
    /\ UNCHANGED <<driver, guest, overlay>>

CaptureScreenshot ==
    /\ gl' = [gl EXCEPT !.target = "window"]
    /\ UNCHANGED <<driver, guest, overlay>>

ToggleOverlay ==
    /\ overlay' = ~overlay
    /\ UNCHANGED <<driver, gl, guest>>

PresenterNext ==
    \/ BindTexture \/ ActiveTexture \/ ClientActiveTexture \/ SetState \/ DrawArrays
    \/ BindOffscreenTarget \/ UnbindOffscreenTarget \/ SwapBuffers \/ ReadPixelsRgba
    \/ PushVideoFrame \/ CaptureFrameRgba \/ CaptureScreenshot \/ ToggleOverlay

PresenterSpec == PresenterInit /\ [][PresenterNext]_presenterVars

PresenterTypeOK ==
    /\ gl.target \in {"window", "frame", "pbuffer"}
    /\ gl.active \in Units /\ gl.client \in Units
    /\ guest.size \in Sizes \cup {0} /\ (guest.bound => driver.fbo /\ guest.size # 0)

(* The quad of the 2D screen never lands in the guest's pbuffer, whatever was
   bound when it is drawn; and with framebuffer objects and texture units the
   guest finds its unit selected after every call (PushVideoFrame,
   RestoreGuestTextureUnits). *)
ScreenStaysOut ==
    /\ gl.shows["pbuffer"] # "screen"
    /\ driver.fbo /\ driver.units => gl.active = guest.active /\ gl.client = guest.client

Targets == {"window", "frame", "pbuffer"}
Contexts ==
    [target : Targets, active : Units, client : Units,
     texture : [Units -> GuestTextures \cup {"none", "video", "pbuffer"}],
     viewport : {"guest", "letterbox", "frame", "pbuffer"}, clear : {"guest", "black"},
     shows : [Targets -> {"nothing", "guest", "overlay", "screen"}]]

(* Without framebuffer objects everything is drawn in the window. *)
PresenterInv ==
    /\ driver \in [fbo : BOOLEAN, units : BOOLEAN] /\ overlay \in BOOLEAN
    /\ guest \in [active : Units, client : Units, bound : BOOLEAN, made : BOOLEAN,
                 size : Sizes \cup {0}]
    /\ gl \in Contexts
    /\ ~driver.fbo => gl.target = "window" /\ ~guest.bound
    /\ ScreenStaysOut
=============================================================================
