---------------------------- MODULE GlDispatch ----------------------------
(***************************************************************************)
(* The four interface tables of GlHle (core/brew/gl_hle.cpp): which        *)
(* handler a slot calls and which arguments the handler finds.  IGL and    *)
(* IEGL pass the first declared argument in R0; IGLES11 and the surface    *)
(* interface pass the object there.  An argument is named by its position. *)
(***************************************************************************)
EXTENDS Integers, Sequences, SequencesExt

VARIABLES
    built,      \* the objects built so far
    call,       \* the call in progress: table and slot, or what was asked
    handler,    \* the handler it reached
    received,   \* the arguments as the handler reads them
    result,     \* R0 on return
    written     \* the out-parameters it wrote

dispatchVars == <<built, call, handler, received, result, written>>

(***************************************************************************)
(* The tables, slots from 0.                                               *)
(***************************************************************************)
GlNames == <<"AddRef", "Release", "QueryInterface", "ActiveTexture", "AlphaFuncx", "BindTexture",
    "BlendFunc", "Clear", "ClearColorx", "ClearDepthx", "ClearStencil", "ClientActiveTexture",
    "Color4x", "ColorMask", "ColorPointer", "CompressedTexImage2D", "CompressedTexSubImage2D",
    "CopyTexImage2D", "CopyTexSubImage2D", "CullFace", "DeleteTextures", "DepthFunc", "DepthMask",
    "DepthRangex", "Disable", "DisableClientState", "DrawArrays", "DrawElements", "Enable",
    "EnableClientState", "Finish", "Flush", "Fogx", "Fogxv", "FrontFace", "Frustumx",
    "GenTextures", "GetError", "GetIntegerv", "GetString", "Hint", "LightModelx", "LightModelxv",
    "Lightx", "Lightxv", "LineWidthx", "LoadIdentity", "LoadMatrixx", "LogicOp", "Materialx",
    "Materialxv", "MatrixMode", "MultMatrixx", "MultiTexCoord4x", "Normal3x", "NormalPointer",
    "Orthox", "PixelStorei", "PointSizex", "PolygonOffsetx", "PopMatrix", "PushMatrix",
    "ReadPixels", "Rotatex", "SampleCoveragex", "Scalex", "Scissor", "ShadeModel", "StencilFunc",
    "StencilMask", "StencilOp", "TexCoordPointer", "TexEnvx", "TexEnvxv", "TexImage2D",
    "TexParameterx", "TexSubImage2D", "Translatex", "VertexPointer", "Viewport">>

GlStubs == {"AddRef", "Release", "QueryInterface", "ClearStencil", "ColorMask",
    "CompressedTexSubImage2D", "CopyTexImage2D", "CopyTexSubImage2D", "DepthRangex", "Flush",
    "Fogx", "Fogxv", "LineWidthx", "LogicOp", "MultiTexCoord4x", "Normal3x", "PointSizex",
    "PolygonOffsetx", "ReadPixels", "SampleCoveragex", "Scissor", "StencilMask"}

EglNames == <<"AddRef", "Release", "EglQueryInterface", "EglGetError", "EglGetDisplay",
    "EglInitialize", "EglTerminate", "EglQueryString", "EglGetProcAddress", "GetConfigs",
    "EglChooseConfig", "EglGetConfigAttrib", "EglCreateWindowSurface", "CreatePixmapSurface",
    "EglCreatePbufferSurface", "EglDestroySurface", "EglQuerySurface", "EglCreateContext",
    "EglDestroyContext", "EglMakeCurrent", "GetCurrentContext", "GetCurrentSurface",
    "GetCurrentDisplay", "QueryContext", "WaitGL", "WaitNative", "EglSwapBuffers", "CopyBuffers">>

EglStubs == {"AddRef", "Release", "GetConfigs", "CreatePixmapSurface", "GetCurrentContext",
    "GetCurrentSurface", "GetCurrentDisplay", "QueryContext", "WaitGL", "WaitNative",
    "CopyBuffers"}

(* IGLES11: the float entries, then the fixed ones. *)
FloatSlots == <<
    <<4, "ClearColorf">>, <<6, "Color4f">>, <<10, "Frustumf">>, <<16, "LoadMatrixf">>,
    <<19, "MultMatrixf">>, <<22, "Orthof">>, <<25, "Rotatef">>, <<26, "Scalef">>,
    <<28, "TexEnvfv">>, <<30, "Translatef">>>>

(* A bug: the entry before the last is taken for the last. *)
FixedSlots_ViewportLast == <<<<107, "VertexPointer">>, <<109, "Viewport">>>>

FixedSlots == <<
    <<31, "ActiveTexture">>, <<32, "AlphaFuncx">>, <<33, "BindTexture">>, <<34, "BlendFunc">>,
    <<35, "Clear">>, <<36, "ClearColorx">>, <<37, "ClearDepthx">>, <<39, "ClientActiveTexture">>,
    <<40, "Color4x">>, <<42, "ColorPointer">>, <<43, "CompressedTexImage2D">>,
    <<48, "DeleteTextures">>, <<49, "DepthFunc">>, <<50, "DepthMask">>, <<52, "Disable">>,
    <<53, "DisableClientState">>, <<54, "DrawArrays">>, <<55, "DrawElements">>, <<56, "Enable">>,
    <<57, "EnableClientState">>, <<64, "GenTextures">>, <<65, "GetError">>, <<66, "GetIntegerv">>,
    <<67, "GetString">>, <<74, "LoadIdentity">>, <<75, "LoadMatrixx">>, <<79, "MatrixMode">>,
    <<80, "MultMatrixx">>, <<83, "NormalPointer">>, <<84, "Orthox">>, <<85, "PixelStorei">>,
    <<88, "PopMatrix">>, <<89, "PushMatrix">>, <<91, "Rotatex">>, <<94, "Scalex">>,
    <<96, "ShadeModel">>, <<100, "TexCoordPointer">>, <<101, "TexEnvx">>, <<102, "TexEnvxv">>,
    <<103, "TexImage2D">>, <<104, "TexParameterx">>, <<105, "TexSubImage2D">>,
    <<106, "Translatex">>, <<107, "VertexPointer">>, <<108, "Viewport">>>>

Slotted(pairs, slot) ==
    LET k == SelectInSeq(pairs, LAMBDA p : p[1] = slot) IN IF k = 0 THEN "stub" ELSE pairs[k][2]

Slots == [gl |-> 0..79, egl |-> 0..27, gles11 |-> 0..149, manip |-> 0..23]

Handler(table, slot) ==
    CASE table = "gl" ->
            IF GlNames[slot + 1] \in GlStubs THEN "stub" ELSE GlNames[slot + 1]
      [] table = "egl" ->
            IF EglNames[slot + 1] \in EglStubs THEN "stub" ELSE EglNames[slot + 1]
      [] table = "gles11" ->
            IF slot = 2 THEN "ThisInterface" ELSE Slotted(FloatSlots \o FixedSlots, slot)
      [] table = "manip" ->
            CASE slot < 3 -> "stub" [] slot = 4 -> "SetSurfaceScale"
              [] slot = 6 -> "GetSurfaceScaleCaps" [] OTHER -> "unsupported"

(***************************************************************************)
(* Arguments.  The guest puts the object and the declared arguments in R0  *)
(* to R3 and on the stack; Gles11ArmCoreAdapter shows a handler the        *)
(* registers as if the object had not been there.                          *)
(***************************************************************************)
MaxArguments == 9

(* The calling convention: position p holds argument p, or p - 1 after the object. *)
Passed(table, position) == IF table \in {"gl", "egl"} THEN position ELSE position - 1

Register(table, r) == Passed(table, r + 1)

StackWord(table, k) == Passed(table, 5 + k)

(* A bug: the adapter leaves the stack pointer where it is. *)
AdaptedStack_Unmoved(k) == StackWord("gles11", k)

AdaptedStack(k) == StackWord("gles11", k + 1)

AdaptedRegister(r) == IF r < 3 THEN Register("gles11", r + 1) ELSE StackWord("gles11", 0)

(* The n-th argument as a handler reads it: a register, then ReadStackArg. *)
Argument(table, n) ==
    CASE table = "gles11" /\ n <= 4 -> AdaptedRegister(n - 1)
      [] table = "gles11" -> AdaptedStack(n - 5)
      [] n <= 4 -> Register(table, n - 1)
      [] OTHER -> StackWord(table, n - 5)

(***************************************************************************)
(* The calls.                                                              *)
(***************************************************************************)
Objects == {"gl", "egl", "manip", "gles11"}

DispatchInit ==
    /\ built = {} /\ call = <<"none", 0>> /\ handler = "none"
    /\ received = <<>> /\ result = "none" /\ written = {}

Build ==
    \E o \in Objects \ built :
        /\ built' = built \cup {o}
        /\ UNCHANGED <<call, handler, received, result, written>>

(* What a handler leaves in R0; "same" is what the register held. *)
Returned(table, h) ==
    CASE h \in {"stub", "SetSurfaceScale", "GetSurfaceScaleCaps", "ThisInterface"} -> "success"
      [] h = "unsupported" -> "EUNSUPPORTED"
      [] h \in {"GetError", "GetString"} /\ table = "gl" -> "value"
      [] table = "egl" -> "value"
      [] table = "gles11" -> "success"
      [] OTHER -> "same"

(* The arguments through which the handler writes, of those it declares. *)
Written(table, h) ==
    CASE h = "SetSurfaceScale" -> {StackWord("manip", 1)}
      [] h = "GetSurfaceScaleCaps" -> {Register("manip", 3), StackWord("manip", 0)}
      [] table = "gles11" /\ h = "GetError" -> {Register("gles11", 1)}
      [] table = "gles11" /\ h \in {"GetString", "ThisInterface"} -> {Register("gles11", 2)}
      [] h = "GetIntegerv" -> {Argument(table, 2)}
      [] h = "EglInitialize" -> {Register("egl", 1), Register("egl", 2)}
      [] h = "EglChooseConfig" -> {Register("egl", 2), StackWord("egl", 0)}
      [] h \in {"EglGetConfigAttrib", "EglQuerySurface"} -> {Register("egl", 3)}
      [] OTHER -> {}

Invoke ==
    \E table \in built : \E slot \in Slots[table] :
        LET h == Handler(table, slot) IN
        /\ h # "EglQueryInterface"
        /\ call' = <<table, slot>> /\ handler' = h
        /\ received' = [n \in 1..MaxArguments |-> Argument(table, n)]
        /\ result' = Returned(table, h) /\ written' = Written(table, h)
        /\ UNCHANGED built

(* EglQueryInterface finds the object it is called on in R0. *)
QueryInterface(iid) ==
    CASE iid \in {"GLES10", "GLES11"} ->
            IF "gles11" \in built THEN "gles11" ELSE IF "gl" \in built THEN "gl" ELSE "none"
      [] iid \in {"EGL10", "EGL11"} -> "egl"
      [] iid \in {"SurfaceManip", "SurfaceManipV1", "Imageon", "ImageonV1"} ->
            IF "manip" \in built THEN "manip" ELSE "none"
      [] OTHER -> "none"

Ask ==
    \E iid \in {"GLES10", "EGL11", "SurfaceManip", "Imageon", "Other"} :
        /\ "egl" \in built
        /\ call' = <<"egl", 2>> /\ handler' = QueryInterface(iid) /\ received' = <<>>
        /\ result' = IF QueryInterface(iid) = "none" THEN "ECLASSNOTSUPPORT" ELSE "success"
        /\ written' = {3}
        /\ UNCHANGED built

DispatchNext == Build \/ Invoke \/ Ask

DispatchSpec == DispatchInit /\ [][DispatchNext]_dispatchVars

DispatchTypeOK ==
    /\ built \subseteq Objects
    /\ Len(received) \in {0, MaxArguments}
    /\ call = <<"egl", 2>> /\ handler # "none" => handler \in built

(* The place of an IGL entry in IGLES11: after the float entries, with one more
   before Scalex. *)
FixedSlot(slot) == IF slot <= 64 THEN slot + 28 ELSE slot + 29

(* A fixed-point call means the same through IGL and through IGLES11: where
   both answer it is the same handler, and the handler finds the arguments in
   the order they are declared (BuildGl, BuildGles11, Gles11ArmCoreAdapter). *)
TablesAgree ==
    /\ call[1] = "gles11" => \A slot \in 3..79 :
           FixedSlot(slot) = call[2] => handler \in {"stub", Handler("gl", slot)}
    /\ call[1] = "gles11" /\ call[2] > 30 /\ handler # "stub" =>
           \E slot \in 3..79 : FixedSlot(slot) = call[2]
    /\ call[1] \in {"gl", "gles11"} => \A n \in DOMAIN received : received[n] = n
=============================================================================
