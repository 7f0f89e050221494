--------------------------- MODULE ExtensionModule ---------------------------
(***************************************************************************)
(* The modules that provide classes to a title                             *)
(* (src/core/brew/extension_module.cpp): each is loaded once, at a base of *)
(* its own, when the first of its classes is asked for; its AEEMod_Load    *)
(* and its IModule::CreateInstance are guest code, which may ask for       *)
(* another class before it returns.                                        *)
(***************************************************************************)
EXTENDS Integers, Sequences, FiniteSets

CONSTANTS
  Catalog,           \* a set of <<class, module>>: what the .mif files declare
  Unloadable,        \* the modules that cannot be read, or do not fit the stride
  MaxDepth, MaxCalls

VARIABLES
  providers,         \* the module of every class
  loaded, failed,    \* loaded_: base and module pointer; load_failed_
  nextBase,          \* next_base_, in strides
  code,              \* whose image lies at every base
  ppMod, ppObj,      \* the two words of scratch every call shares
  frames,            \* the calls into extension code, the innermost last
  answer, calls

extensionVars == <<providers, loaded, failed, nextBase, code, ppMod, ppObj, frames,
                   answer, calls>>

Null == <<>>
Modules == {entry[2] : entry \in Catalog}
NoAnswer == [class |-> Null, object |-> Null, disturbed |-> FALSE]

ExtensionInit ==
  /\ providers = <<>> /\ loaded = <<>> /\ failed = {}
  /\ nextBase = 0
  /\ code = <<>>
  /\ ppMod = Null /\ ppObj = Null
  /\ frames = <<>>
  /\ answer = NoAnswer
  /\ calls = 0

With(f, x, v) == [y \in DOMAIN f \cup {x} |-> IF y = x THEN v ELSE f[y]]
Inner == frames[Len(frames)]
Outer == SubSeq(frames, 1, Len(frames) - 1)

\* AddEntries: the first module found for a class keeps it
AddEntries(class, module) ==
  /\ frames = <<>>
  /\ providers' = IF class \in DOMAIN providers THEN providers
                  ELSE With(providers, class, module)
  /\ UNCHANGED <<loaded, failed, nextBase, code, ppMod, ppObj, frames,
                 answer, calls>>

Answered(outer, class, object, disturbed) ==
  /\ frames' = outer
  /\ answer' = [class |-> class, object |-> object, disturbed |-> disturbed]

\* the call an extension has under way learns that another came in between
Disturbed == IF frames = <<>> THEN frames
             ELSE Append(Outer, [Inner EXCEPT !.disturbed = TRUE])
Entered(kind, class, module, base) ==
  [kind |-> kind, class |-> class, module |-> module, base |-> base, disturbed |-> FALSE]

Begun_Unreset == ppObj
Begun == Null          \* the word is cleared before the call
Loadable(module) == module \notin failed \cup Unloadable

(* CreateInstance, by the game or by an extension: no provider, or one     *)
(* that failed before or cannot be loaded, answers 0; a loaded one is      *)
(* asked at once; the others enter AEEMod_Load first.                      *)
CreateInstance(class) ==
  /\ calls < MaxCalls /\ Len(frames) < MaxDepth
  /\ calls' = calls + 1
  /\ IF class \notin DOMAIN providers
     THEN /\ Answered(Disturbed, class, Null, FALSE)
          /\ UNCHANGED <<failed, code, ppMod, ppObj>>
     ELSE LET module == providers[class]
          IN  IF module \in DOMAIN loaded
              THEN /\ frames' = Append(Disturbed,
                        Entered("create", class, module, loaded[module].base))
                   /\ ppObj' = Begun
                   /\ UNCHANGED <<failed, code, ppMod, answer>>
              ELSE IF ~Loadable(module)
              THEN /\ Answered(Disturbed, class, Null, FALSE)
                   /\ failed' = failed \cup {module}
                   /\ UNCHANGED <<code, ppMod, ppObj>>
              ELSE /\ frames' = Append(Disturbed, Entered("load", class, module, nextBase))
                   /\ code' = With(code, nextBase, module)
                   /\ ppMod' = Null
                   /\ UNCHANGED <<failed, ppObj, answer>>
  /\ UNCHANGED <<providers, loaded, nextBase>>

\* the extension's code stores its module, or the object it made
ExtensionStores ==
  /\ frames # <<>>
  /\ IF Inner.kind = "load"
     THEN ppMod' = <<Inner.module>> /\ UNCHANGED ppObj
     ELSE ppObj' = <<Inner.module, Inner.class>> /\ UNCHANGED ppMod
  /\ UNCHANGED <<providers, loaded, failed, nextBase, code, frames, answer, calls>>

(* AEEMod_Load returns: without a module pointer the module is never tried *)
(* again; with one the base is taken and the class is asked for.           *)
BaseAfter_Kept == nextBase
BaseAfter == nextBase + 1
LoadReturns ==
  /\ frames # <<>> /\ Inner.kind = "load"
  /\ IF ppMod = Null
     THEN /\ failed' = failed \cup {Inner.module}
          /\ Answered(Outer, Inner.class, Null, Inner.disturbed)
          /\ UNCHANGED <<loaded, nextBase, ppObj>>
     ELSE /\ loaded' = IF Inner.module \in DOMAIN loaded THEN loaded
                       ELSE With(loaded, Inner.module,
                                 [base |-> Inner.base, module |-> ppMod,
                                  disturbed |-> Inner.disturbed])
          /\ nextBase' = BaseAfter
          /\ frames' = Append(Outer, [Inner EXCEPT !.kind = "create"])
          /\ ppObj' = Begun
          /\ UNCHANGED <<failed, answer>>
  /\ UNCHANGED <<providers, code, ppMod, calls>>

(* IModule::CreateInstance returns; a status other than 0 is a refusal.    *)
CreateReturns(success) ==
  /\ frames # <<>> /\ Inner.kind = "create"
  /\ Answered(Outer, Inner.class, IF success THEN ppObj ELSE Null, Inner.disturbed)
  /\ UNCHANGED <<providers, loaded, failed, nextBase, code, ppMod, ppObj, calls>>

\* the extension's code throws: CreateInstance answers 0, AEEMod_Load also fails the module
Throws ==
  /\ frames # <<>>
  /\ failed' = IF Inner.kind = "load" THEN failed \cup {Inner.module} ELSE failed
  /\ Answered(Outer, Inner.class, Null, Inner.disturbed)
  /\ UNCHANGED <<providers, loaded, nextBase, code, ppMod, ppObj, calls>>

ExtensionNext ==
  \/ \E entry \in Catalog : AddEntries(entry[1], entry[2])
  \/ \E entry \in Catalog : CreateInstance(entry[1])
  \/ ExtensionStores \/ LoadReturns \/ Throws
  \/ \E success \in BOOLEAN : CreateReturns(success)
ExtensionSpec == ExtensionInit /\ [][ExtensionNext]_extensionVars

ExtensionTypeOK ==
  /\ DOMAIN loaded \subseteq Modules /\ failed \subseteq Modules
  /\ nextBase \in Nat /\ calls \in 0 .. MaxCalls

(* A module in whose AEEMod_Load nothing else was asked for is loaded      *)
(* once, and its image stays whole at its base.  A class asked for from    *)
(* within AEEMod_Load puts its module at the same base, because            *)
(* next_base_ moves only when the load returns                             *)
(* (src/core/brew/extension_module.cpp:245).                               *)
ModulesApart ==
  \A m \in DOMAIN loaded : ~loaded[m].disturbed =>
    code[loaded[m].base] = m /\ loaded[m].module = <<m>>

(* An object answered is of the class asked for and of its module, never   *)
(* what the scratch word held before (the call that nothing disturbed).    *)
AnswersOwnObject ==
  answer.object # Null /\ ~answer.disturbed =>
    answer.object = <<providers[answer.class], answer.class>>

Asked == {entry[1] : entry \in Catalog}

Frame == [kind : {"load", "create"}, class : Asked, module : Modules, base : Nat,
          disturbed : BOOLEAN]

(* Of the calls under way, all but the innermost were disturbed; each is   *)
(* for its class's module, and what the shared word holds while an         *)
(* undisturbed one asks for an object is nothing or that object.           *)
CallsKnown ==
  /\ frames \in Seq(Frame)
  /\ \A k \in DOMAIN frames :
       /\ frames[k].class \in DOMAIN providers
       /\ frames[k].module = providers[frames[k].class]
       /\ k < Len(frames) => frames[k].disturbed
       /\ k = Len(frames) /\ frames[k].kind = "create" /\ ~frames[k].disturbed =>
            ppObj \in {Null, <<frames[k].module, frames[k].class>>}

ExtensionInv ==
  /\ \A class \in DOMAIN providers : class \in Asked /\ providers[class] \in Modules
  /\ nextBase \in Nat /\ \A module \in DOMAIN loaded : loaded[module].base \in Nat
  /\ CallsKnown
  /\ answer.object # Null /\ ~answer.disturbed =>
       /\ answer.class \in DOMAIN providers
       /\ answer.object = <<providers[answer.class], answer.class>>

(* A module that nothing came in between lies below the next base, where   *)
(* the innermost load writes.                                              *)
ModulesInv ==
  /\ nextBase \in Nat /\ frames \in Seq(Frame)
  /\ \A k \in DOMAIN frames : k < Len(frames) => frames[k].disturbed
  /\ \A k \in DOMAIN frames : frames[k].kind = "load" /\ ~frames[k].disturbed =>
       /\ k = Len(frames) /\ frames[k].base = nextBase
       /\ nextBase \in DOMAIN code /\ code[nextBase] = frames[k].module
       /\ ppMod \in {Null, <<frames[k].module>>}
  /\ \A m \in DOMAIN loaded : ~loaded[m].disturbed =>
       /\ loaded[m].base \in Nat /\ loaded[m].base < nextBase /\ loaded[m].base \in DOMAIN code
       /\ code[loaded[m].base] = m /\ loaded[m].module = <<m>>
=============================================================================
