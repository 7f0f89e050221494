---------------------------- MODULE DynarmicCore ----------------------------
(***************************************************************************)
(* DynarmicArmCore (core/cpu/dynarmic_arm_core.cpp): the JIT runs blocks   *)
(* of translated instructions, which it keeps; a store to a page code has  *)
(* been fetched from asks it to drop the blocks it touches; the call-out   *)
(* range stops a block; Run counts instructions the way the interpreter    *)
(* does.  The translator itself (dynarmic) is external: a block is up to   *)
(* MaxBlock instructions on end, a step is a translation of its own, the   *)
(* budget is looked at between blocks, blocks may follow one another       *)
(* though a drop waits, and what waits is dropped as jit_->Run or          *)
(* jit_->Step returns.                                                     *)
(***************************************************************************)
EXTENDS Integers, Sequences

CONSTANTS
    Cells,      \* code addresses, one instruction each
    PageCells,  \* instructions of a page
    MaxBlock,   \* instructions of a block
    Budgets     \* what Run is given

VARIABLES
    code,       \* what memory holds: a version of each instruction
    blocks,     \* translations: <<first cell, for a step>> -> the versions translated
    pages,      \* code_pages
    told,       \* of the last store to a cell, what the JIT was told: "yes", "later"
                \* (the drop waits), "never" (the host stored and notified nobody)
    pc,         \* the address Cells is the call-out range
    phase,      \* "idle", "loop", "jit" (in jit_->Run, between blocks), "block", "step"
    left,       \* the versions of the running block that are still to run
    budget,     \* max_instructions
    executed,   \* what Run counts
    ticks,      \* ticks_left
    real        \* instructions that have run since Run began

dynarmicVars == <<code, blocks, pages, told, pc, phase, left, budget, executed, ticks, real>>
countVars == <<budget, executed, ticks, real>>

Trap == Cells
CellSet == 0..Cells - 1

Page(c) == c \div PageCells

DynarmicInit ==
    /\ code = [c \in CellSet |-> 0]
    /\ blocks = [b \in {} |-> <<>>] /\ pages = {} /\ told = [c \in CellSet |-> "yes"]
    /\ pc = 0 /\ phase = "idle" /\ left = <<>>
    /\ budget = 0 /\ executed = 0 /\ ticks = 0 /\ real = 0

CellsOf(b) == b[1]..b[1] + Len(blocks[b]) - 1

Without(cells) == [b \in {d \in DOMAIN blocks : CellsOf(d) \cap cells = {}} |-> blocks[b]]

-----------------------------------------------------------------------------
(* The host, between runs and in the handlers of call-outs. *)

(* Memory written by a handler, or replaced by a save state, past the JIT. *)
HostWrite ==
    /\ phase = "idle"
    /\ \E c \in CellSet :
          /\ code' = [code EXCEPT ![c] = 1 - @]
          /\ told' = [told EXCEPT ![c] = "never"]
    /\ UNCHANGED <<blocks, pages, pc, phase, left, countVars>>

(* What the extension loader and the patches call; a size of 0 is everything. *)
NotifyCodeChanged ==
    /\ phase = "idle"
    /\ \E cells \in {CellSet} \cup {{c} : c \in CellSet} :
          /\ blocks' = Without(cells)
          /\ told' = [c \in CellSet |-> IF c \in cells THEN "yes" ELSE told[c]]
    /\ UNCHANGED <<code, pages, pc, phase, left, countVars>>

Reset ==
    /\ phase = "idle"
    /\ blocks' = [b \in {} |-> <<>>] /\ pages' = {} /\ told' = [c \in CellSet |-> "yes"] /\ pc' = 0
    /\ UNCHANGED <<code, phase, left, countVars>>

-----------------------------------------------------------------------------
(* Guest code. *)

Fetched_FirstOnly(from, n) == {Page(from)}

(* MemoryReadCode notes the page of every instruction fetched. *)
Fetched(from, n) == {Page(from + k) : k \in 0..n - 1}

(* Into a translation that is kept, or into one made now, up to the call-out range. *)
Enters(step, n) ==
    LET key == <<pc, step>>
        versions == IF key \in DOMAIN blocks THEN blocks[key] ELSE [k \in 1..n |-> code[pc + k - 1]]
    IN  /\ pc + n <= Trap /\ n = Len(versions)
        /\ left' = versions
        /\ blocks' = [b \in DOMAIN blocks \cup {key} |-> IF b = key THEN versions ELSE blocks[b]]
        /\ pages' = IF key \in DOMAIN blocks THEN pages ELSE pages \cup Fetched(pc, n)

(* MemoryWrite8: the page decides whether the JIT is told; it is running, so that the
   blocks, the running one among them, stay until it returns. *)
StoreTo(c) ==
    /\ code' = [code EXCEPT ![c] = 1 - @]
    /\ told' = [told EXCEPT ![c] = IF Page(c) \in pages THEN "later" ELSE "yes"]

(* An instruction of the running block; the last one may branch.  AddTicks stops at 0. *)
Instruction ==
    /\ phase \in {"block", "step"} /\ left # <<>>
    /\ UNCHANGED <<code, told>> \/ \E c \in CellSet : StoreTo(c)
    /\ left' = Tail(left)
    /\ IF left' = <<>> THEN pc' \in 0..Trap ELSE pc' = pc + 1
    /\ real' = real + 1
    /\ ticks' = IF ticks = 0 THEN 0 ELSE ticks - 1
    /\ phase' = IF phase = "block" /\ left' = <<>> THEN "jit" ELSE phase
    /\ UNCHANGED <<blocks, pages, budget, executed>>

(* The JIT has returned, and what waited is dropped. *)
Pending == {c \in CellSet : told[c] = "later"}

Drops ==
    /\ blocks' = Without(Pending)
    /\ told' = [c \in CellSet |-> IF told[c] = "later" THEN "yes" ELSE told[c]]

(* Run, or a Step outside it, is over: returned, or threw. *)
Returns == phase' = "idle" /\ left' = <<>> /\ budget' = 0 /\ executed' = 0 /\ real' = 0 /\ ticks' = 0

(* Step: a call-out is served and nothing else, or one instruction runs. *)
Step ==
    /\ phase = "idle"
    /\ \/ pc = Trap /\ pc' \in CellSet /\ UNCHANGED <<blocks, pages, phase, left, ticks>>
       \/ pc # Trap /\ Enters(TRUE, 1) /\ phase' = "step" /\ ticks' = 1 /\ UNCHANGED pc
    /\ UNCHANGED <<code, told, budget, executed, real>>

(* Its end: outside Run (budget is 0), in Run, where a call-out that comes next ends Run
   unserved, or by the exception of an instruction the JIT does not know. *)
StepReturns ==
    /\ phase = "step"
    /\ \/ left = <<>> /\ (budget = 0 \/ pc = Trap) /\ Returns
       \/ /\ left = <<>> /\ budget # 0 /\ pc # Trap
          /\ executed' = executed + 1 /\ phase' = "loop"
          /\ UNCHANGED <<left, budget, ticks, real>>
       \/ left # <<>> /\ Returns
    /\ Drops
    /\ UNCHANGED <<code, pages, pc>>

Run ==
    /\ phase = "idle"
    /\ \E n \in Budgets : budget' = n
    /\ phase' = "loop"
    /\ UNCHANGED <<code, blocks, pages, told, pc, left, executed, ticks, real>>

(* The head of Run's loop: out of budget, a call-out served (its handler goes back
   to the guest), or into the JIT. *)
RunLoop ==
    /\ phase = "loop"
    /\ \/ executed >= budget /\ Returns /\ UNCHANGED pc
       \/ executed < budget /\ pc = Trap /\ Returns /\ pc' \in CellSet
       \/ /\ executed < budget /\ pc # Trap
          /\ phase' = "jit" /\ ticks' = budget - executed
          /\ UNCHANGED <<left, budget, executed, real, pc>>
    /\ UNCHANGED <<code, blocks, pages, told>>

JitBlock ==
    /\ phase = "jit" /\ ticks > 0 /\ pc # Trap
    /\ \E n \in 1..MaxBlock : Enters(FALSE, n)
    /\ phase' = "block"
    /\ UNCHANGED <<code, told, pc, countVars>>

(* The fetch that faulted was counted. *)
Ran_WithFetch(counted) == counted

Ran(counted) == IF counted > 0 THEN counted - 1 ELSE counted

(* jit_->Run returns, and Run goes on: its ticks are gone; the fetch of the call-out
   faulted, which it counted and stepped over, and Run takes both back; or it leaves
   early because a drop waits. *)
JitReturns ==
    /\ phase = "jit"
    /\ \/ /\ ticks > 0 /\ pc = Trap
          /\ executed' = executed + Ran((budget - executed) - (ticks - 1))
       \/ /\ ticks = 0 \/ (pc # Trap /\ Pending # {})
          /\ executed' = executed + ((budget - executed) - ticks)
    /\ phase' = "loop"
    /\ Drops
    /\ UNCHANGED <<code, pages, pc, left, budget, ticks, real>>

(* It has run nothing: Run steps once, so as not to go round forever. *)
FallsBack ==
    /\ phase = "jit" /\ ticks = budget - executed /\ pc # Trap
    /\ Enters(TRUE, 1)
    /\ phase' = "step" /\ ticks' = 1
    /\ UNCHANGED <<code, told, pc, budget, executed, real>>

(* An instruction the JIT does not know: ExceptionRaised halts it and Run throws. *)
JitThrows ==
    /\ phase = "jit" /\ ticks > 0 /\ pc # Trap
    /\ Returns /\ Drops
    /\ UNCHANGED <<code, pages, pc>>

DynarmicNext == HostWrite \/ NotifyCodeChanged \/ Reset \/ Step \/ Instruction \/ StepReturns
                \/ Run \/ RunLoop \/ JitBlock \/ JitReturns \/ FallsBack \/ JitThrows

DynarmicSpec == DynarmicInit /\ [][DynarmicNext]_dynarmicVars

DynarmicTypeOK ==
    /\ code \in [CellSet -> {0, 1}] /\ told \in [CellSet -> {"yes", "later", "never"}]
    /\ pc \in 0..Trap /\ phase \in {"idle", "loop", "jit", "block", "step"}
    /\ \A b \in DOMAIN blocks : b[1] + Len(blocks[b]) <= Trap
    /\ pc + Len(left) <= Trap

(* The instruction that runs next is the one memory holds, unless the host wrote it and
   notified nobody, or the guest has stored to it since jit_->Run was entered (the
   drop waits); and nothing waits once the JIT has returned.  So a store by the
   guest is seen by the next entry at the latest, by blocks over a page's end, of the
   single step and entered while the drop waits alike (Callbacks::MemoryWrite8,
   MemoryReadCode, InvalidateCacheRange). *)
GuestCodeIsCurrent ==
    /\ left # <<>> /\ told[pc] = "yes" => Head(left) = code[pc]
    /\ phase \in {"idle", "loop"} => Pending = {}

(* Run counts the instructions that ran and never more than it was given, and not
   the fetch that stopped at a call-out; only a last block may run over the
   budget (DynarmicArmCore::Run, AddTicks). *)
CountsLikeInterpreter ==
    phase = "loop" => /\ executed <= budget /\ executed <= real
                      /\ executed < real => executed = budget /\ real < executed + MaxBlock

-----------------------------------------------------------------------------
(* Both, for memory, pages, blocks and budgets of any size. *)

(* A kept block is what memory holds, but where the JIT has not been told, or
   has put the drop off; and the page of each of its instructions is noted, so that
   a store to one finds it.  What is left of the running block is so too. *)
BlocksTyped ==
    /\ blocks \in [DOMAIN blocks -> Seq({0, 1})] /\ DOMAIN blocks \subseteq CellSet \X BOOLEAN
    /\ \A b \in DOMAIN blocks :
           Len(blocks[b]) \in 1..MaxBlock /\ b[1] + Len(blocks[b]) <= Trap
Current(from, versions) ==
    \A k \in 1..Len(versions) : /\ told[from + k - 1] = "yes" => versions[k] = code[from + k - 1]
                                /\ Page(from + k - 1) \in pages
BlocksCurrent == \A b \in DOMAIN blocks : Current(b[1], blocks[b])
RunningCurrent ==
    /\ left \in Seq({0, 1}) /\ pc + Len(left) <= Trap /\ Current(pc, left)
    /\ phase \notin {"block", "step"} => left = <<>>
    /\ phase = "block" => left # <<>> /\ Len(left) <= MaxBlock
    /\ phase = "step" => Len(left) <= 1

(* What Run counts: before the JIT runs it is what has run; while it runs, its
   ticks make up the difference, until a last block overruns them. *)
TicksMakeUp ==
    \/ executed <= real /\ real <= budget /\ ticks = budget - real
    \/ real > budget /\ ticks = 0
Counted ==
    /\ {budget, executed, real, ticks} \subseteq Nat
    /\ phase = "idle" => executed = 0 /\ real = 0 /\ budget = 0
    /\ phase = "loop" => CountsLikeInterpreter
    /\ phase \in {"jit", "block"} =>
           executed < budget /\ TicksMakeUp /\ real + Len(left) < budget + MaxBlock
    /\ phase = "step" /\ budget # 0 => executed < budget /\ real + Len(left) = executed + 1
    /\ phase = "step" /\ budget = 0 => executed = 0

DynarmicInv ==
    /\ code \in [CellSet -> {0, 1}] /\ told \in [CellSet -> {"yes", "later", "never"}]
    /\ pc \in 0..Trap /\ phase \in {"idle", "loop", "jit", "block", "step"}
    /\ BlocksTyped
    /\ BlocksCurrent
    /\ RunningCurrent
    /\ phase \in {"idle", "loop"} => Pending = {}
    /\ Counted

DynarmicBounds ==
    Cells \in Nat \ {0} /\ MaxBlock \in Nat \ {0} /\ Budgets \subseteq Nat
=============================================================================
