----------------------------- MODULE ModRuntime -----------------------------
(***************************************************************************)
(* What ModRuntime (src/core/brew/mod_runtime.cpp) shows a module.         *)
(* Install builds the table of helpers the static base points at: the      *)
(* handlers are registered with the HleRuntime, the table's words are      *)
(* written, every slot the SDK declares that is still a zero word gets a   *)
(* trap of its own, and the table is published in the word before the      *)
(* module.  GetAppInstance then returns a block of its context: first a    *)
(* fixed one and, once CreateInstance answered, the applet, whose fields   *)
(* the guest writes too.                                                   *)
(***************************************************************************)
EXTENDS Integers, Sequences, FiniteSets

CONSTANT Fields     \* some of "shell", "display", "third" to "sixth"

VARIABLES
    functions,  \* HleRuntime::functions_; the first is the return sentinel
    table,      \* the trap in each slot's word, 0 when there is none
    phase,
    context,    \* context_address_
    pending,    \* fields whose pending flag is set
    field,      \* the fields in memory, of either block
    created     \* the guest wrote its applet to *ppObj

tableVars == <<functions, table, phase>>
contextVars == <<context, pending, field, created>>
runtimeVars == <<tableVars, contextVars>>

-----------------------------------------------------------------------------
(* The table of helpers. *)

(* kAeeHelperSlots: the SDK's declarations, four bytes each. *)
Slots ==
    <<"memmove", "memset", "strcpy", "strcat", "strcmp", "strlen", "strchr", "strrchr",
      "sprintf", "wstrcpy", "wstrcat", "wstrcmp", "wstrlen", "wstrchr", "wstrrchr", "wsprintf",
      "strtowstr", "wstrtostr", "wstrtofloat", "floattowstr", "utf8towstr", "wstrtoutf8",
      "wstrlower", "wstrupper", "chartype", "SetupNativeImage", "malloc", "free", "wstrdup",
      "realloc", "wwritelongex", "wstrsize", "wstrncopyn", "OEMStrLen", "OEMStrSize",
      "GetAEEVersion", "atoi", "f_op", "f_cmp", "dbgprintf", "wstrcompress",
      "aee_LocalTimeOffset", "aee_GetRand", "aee_GetTimeMS", "aee_GetUpTimeMS",
      "aee_GetSeconds", "aee_GetJulianDate", "sysfree", "GetAppInstance", "strtoul", "strncpy",
      "strncmp", "stricmp", "strnicmp", "strstr", "memcmp", "memchr", "strexpand", "stristr",
      "memstr", "wstrncmp", "strdup", "strbegins", "strends", "strchrend", "strchrsend",
      "memrchr", "memchrend", "memrchrbegin", "strlower", "strupper", "wstricmp", "wstrnicmp",
      "inet_aton", "inet_ntoa", "swapl", "swaps", "GetFSFree", "GetRAMFree", "vsprintf",
      "vsnprintf", "snprintf", "aee_JulianToSeconds", "strlcpy", "strlcat", "wstrlcpy",
      "wstrlcat", "setstaticptr", "f_assignstr", "f_assignint", "wwritelong", "dbgheapmark",
      "lockmem", "unlockmem", "dumpheap", "strtod", "f_calc", "sleep", "getlasterror",
      "wgs84_to_degrees", "dbgevent", "aee_IsBadPtr", "aee_basename", "aee_makepath",
      "aee_splitpath", "aee_stribegins", "aee_GetUTCSeconds", "f_toint", "f_get", "qsort",
      "trunc", "utrunc", "err_realloc", "err_strdup", "inet_pton", "inet_ntop", "GetALSContext">>

Declared == {Slots[k] : k \in DOMAIN Slots}

Place(n) == CHOOSE k \in DOMAIN Slots : Slots[k] = n

(* The slots Install writes no handler to. *)
Unwritten ==
    {"wsprintf", "wstrtofloat", "floattowstr", "chartype", "wwritelongex", "wstrcompress",
     "strchrsend", "memchrend", "memrchrbegin", "wstrnicmp", "inet_aton", "inet_ntoa",
     "aee_JulianToSeconds", "setstaticptr", "wgs84_to_degrees", "aee_makepath", "aee_splitpath",
     "inet_pton", "inet_ntop", "GetALSContext"}

(* The handler behind a slot's word: its own, or one of another name. *)
Handler(n) ==
    CASE n \in {"free", "sysfree"} -> "free"
      [] n \in {"aee_GetTimeMS", "aee_GetUpTimeMS"} -> "aee_GetUpTimeMS"
      [] n \in {"aee_GetSeconds", "aee_GetUTCSeconds"} -> "aee_GetSeconds"
      [] n \in {"f_toint", "trunc"} -> "f_toint"
      [] n \in {"lockmem", "unlockmem"} -> "lockmem"
      [] n \in {"dumpheap", "dbgevent"} -> "noop_success"
      [] n = "sprintf" -> "FormatSingleInt"
      [] n = "vsprintf" -> "sprintf"
      [] OTHER -> n

Handlers == {Handler(n) : n \in Declared \ Unwritten}

TableInit ==
    /\ functions = <<"sentinel">>
    /\ table = [n \in Declared |-> 0]
    /\ phase = "register"

(* A trap's number is its place among the functions. *)
TrapOf(h) == (CHOOSE k \in DOMAIN functions : functions[k] = h) - 1

RegisterHandlers ==
    /\ phase = "register" /\ phase' = "write"
    /\ functions' = functions \o SelectSeq(Slots, LAMBDA n : n \in Handlers)
                                \o <<"FormatSingleInt", "noop_success">>
    /\ UNCHANGED table

WriteTable ==
    /\ phase = "write" /\ phase' \in {"autostub", "fill"}
    /\ table' = [n \in Declared |-> IF n \in Unwritten THEN 0 ELSE TrapOf(Handler(n))]
    /\ UNCHANGED functions

(* ZEEB_AUTOSTUB: one stub for every word that is still zero. *)
AutoStub ==
    /\ phase = "autostub" /\ phase' = "fill"
    /\ functions' = Append(functions, "autostub")
    /\ table' = [n \in Declared |-> IF table[n] = 0 THEN Len(functions) ELSE table[n]]

Gaps == {n \in Declared : table[n] = 0}

(* The loop over the declarations: the first that is still a zero word gets a
   trap that names it. *)
FillGap ==
    /\ phase = "fill" /\ Gaps # {}
    /\ \E n \in Gaps :
          /\ \A m \in Gaps : Place(n) <= Place(m)
          /\ functions' = Append(functions, n)
          /\ table' = [table EXCEPT ![n] = Len(functions)]
    /\ UNCHANGED phase

Publish ==
    /\ phase = "fill" /\ Gaps = {} /\ phase' = "published"
    /\ UNCHANGED <<functions, table>>

TableNext ==
    /\ (RegisterHandlers \/ WriteTable \/ AutoStub \/ FillGap \/ Publish)
    /\ UNCHANGED contextVars

-----------------------------------------------------------------------------
(* The context. *)

Primed == Fields \cap {"shell", "display"}

Blocks == {"boot", "applet"}

Objects == {"null", "os", "guest"}      \* whose object a field holds

ContextTypeOK ==
    /\ context \in Blocks /\ pending \subseteq Fields
    /\ field \in [Blocks -> [Fields -> Objects]] /\ created \in BOOLEAN

ContextInit ==
    /\ context = "boot" /\ pending = {}
    /\ field = [b \in Blocks |-> [f \in Fields |-> "null"]]
    /\ created = FALSE

(* SetShellInstance to SetSixthContextObject: the host wires its objects
   before the module runs. *)
SetObject(f) ==
    /\ context = "boot" /\ ~created
    /\ pending' = pending \cup {f}
    /\ UNCHANGED <<context, field, created>>

SetContextAddress_AllPrimed ==
    /\ context = "boot" /\ created
    /\ context' = "applet" /\ pending' = Fields
    /\ UNCHANGED <<field, created>>

SetContextAddress ==
    /\ context = "boot" /\ created
    /\ context' = "applet"
    /\ pending' = Primed
    /\ UNCHANGED <<field, created>>

GetAppContext ==
    /\ field' = [field EXCEPT ![context] =
                     [f \in Fields |-> IF f \in pending THEN "os" ELSE field[context][f]]]
    /\ pending' = {}
    /\ UNCHANGED <<context, created>>

(* *ppObj once it holds an applet, else the context. *)
AppInstance == IF created THEN "applet" ELSE context

(* AEEApplet_New, in CreateInstance. *)
CreateApplet ==
    /\ ~created /\ created' = TRUE
    /\ UNCHANGED <<context, pending, field>>

GuestWrites(b, f) ==
    /\ field' = [field EXCEPT ![b][f] = "guest"]
    /\ UNCHANGED <<context, pending, created>>

ContextNext ==
    /\ phase = "published"
    /\ \/ \E f \in Fields : SetObject(f)
       \/ SetContextAddress
       \/ GetAppContext
       \/ CreateApplet
       \/ \E f \in Fields : GuestWrites(AppInstance, f)
    /\ UNCHANGED tableVars

RuntimeInit == TableInit /\ ContextInit
RuntimeNext == TableNext \/ ContextNext
RuntimeSpec == RuntimeInit /\ [][RuntimeNext]_runtimeVars

-----------------------------------------------------------------------------
(* Properties. *)

(* When the guest can read the table, a call through any slot the SDK declares
   lands on a trap that exists and is not the return sentinel; what it reaches is
   that slot's operation, or a stub (ModRuntime::Install, HleRuntime::Dispatch). *)
EverySlotAnswers ==
    phase = "published" => \A n \in Declared :
        /\ table[n] \in 1..Len(functions) - 1
        /\ functions[table[n] + 1] \in IF n \in Unwritten THEN {n, "autostub"} ELSE {Handler(n)}

(* Once the applet is the context, the host writes only its shell and its
   display there: the other fields are the guest's, whose engines
   keep flags in them (ModRuntime::SetContextAddress, GetAppContextImpl). *)
AppletSpared ==
    field' # field => \A f \in Fields : field'["applet"][f] # "os" \/ f \in Primed

AppletFieldsKept == [][AppletSpared]_runtimeVars

-----------------------------------------------------------------------------
(* What the proof needs to know: once the applet is the context, only what the host
   refreshes is pending there, so nothing else in it is ever the host's. *)
RuntimeInv ==
    /\ ContextTypeOK
    /\ context = "applet" => pending \subseteq Primed
    /\ \A f \in Fields \ Primed : field["applet"][f] # "os"
=============================================================================
