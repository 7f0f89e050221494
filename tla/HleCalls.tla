------------------------------ MODULE HleCalls ------------------------------
(***************************************************************************)
(* Calls between the guest and the host: HleRuntime (hle_runtime.cpp) and  *)
(* the call trace (call_stack_tracer.cpp).  The guest calls a trap of the  *)
(* call-out range; the trap's handler may call back into the guest, whose  *)
(* code may call traps again, or throw.  A guest function is a body that   *)
(* calls traps and functions and returns; its frame is on the guest's      *)
(* stack.                                                                  *)
(***************************************************************************)
EXTENDS Integers, Sequences

CONSTANTS
    Slots,      \* traps registered by the HLE; slot 0 is the return sentinel
    Functions,  \* guest functions
    MaxDepth,   \* calls in progress at once, of each side
    MaxTrace    \* frames of the trace, which a throw leaves behind

VARIABLES
    pc, lr, r4,     \* the registers: r4 stands for what a callee may change
    stack,          \* the guest's stack: return addresses, and what r4 was
    host,           \* the host's stack: calls into the guest, handlers
    shadow,         \* shadow_stack_
    exact           \* no call has left the trace without its return, or the other way round

callsVars == <<pc, lr, r4, stack, host, shadow, exact>>

(* Addresses: a trap, the entry and the body of a function. *)
TrapAt(i) == [is |-> "trap", n |-> i]
Entry(f) == [is |-> "entry", n |-> f]
Body(f) == [is |-> "body", n |-> f]

Sentinel == TrapAt(0)

(* A trap past the registered ones is a slot nobody implements. *)
Traps == 0..Slots + 1

Implemented(i) == i \in 1..Slots

CallsInit ==
    /\ pc = Body("host") /\ lr = Body("host") /\ r4 = 0
    /\ stack = <<>> /\ host = <<>> /\ shadow = <<>> /\ exact = TRUE

Top(s) == s[Len(s)]
Popped(s) == SubSeq(s, 1, Len(s) - 1)

InGuest == host # <<>> /\ Top(host).kind # "handler"

Running(f) == InGuest /\ pc = Body(f)

(* OnCall and OnReturn. *)
OnCall(target) == Len(shadow) < MaxTrace /\ shadow' = Append(shadow, target)
OnReturn == shadow' = IF shadow = <<>> THEN <<>> ELSE Popped(shadow)

-----------------------------------------------------------------------------
(* CallArmFunction: from the main loop, whose registers nobody wants back, or
   from a handler, which takes them back. *)
CallFromMain ==
    /\ host = <<>>
    /\ \E f \in Functions : pc' = Entry(f)
    /\ lr' = Sentinel
    /\ host' = <<[kind |-> "call"]>>
    /\ UNCHANGED <<r4, stack, shadow, exact>>

Saved_WithoutLr == [pc |-> pc, lr |-> Sentinel, r4 |-> r4]

(* CallArmFunctionPreservingContext. *)
Saved == [pc |-> pc, lr |-> lr, r4 |-> r4]

CallFromHandler ==
    /\ host # <<>> /\ Top(host).kind = "handler" /\ Len(host) < MaxDepth
    /\ \E f \in Functions : pc' = Entry(f)
    /\ lr' = Sentinel
    /\ host' = Append(host, [kind |-> "preserve", saved |-> Saved])
    /\ UNCHANGED <<r4, stack, shadow, exact>>

(* The loop of CallArmFunction ends at the sentinel. *)
CallReturns ==
    /\ InGuest /\ pc = Sentinel
    /\ host' = Popped(host)
    /\ IF Top(host).kind = "call" THEN UNCHANGED <<pc, lr, r4>>
       ELSE pc' = Top(host).saved.pc /\ lr' = Top(host).saved.lr /\ r4' = Top(host).saved.r4
    /\ UNCHANGED <<stack, shadow, exact>>

(* The guest: a function saves its return address and r4, changes r4, calls, and
   returns to its caller. *)
Enter ==
    /\ InGuest /\ pc.is = "entry" /\ Len(stack) < MaxDepth + 1
    /\ stack' = Append(stack, [ret |-> lr, r4 |-> r4])
    /\ pc' = Body(pc.n) /\ r4' = 1 - r4
    /\ UNCHANGED <<lr, host, shadow, exact>>

GuestCall ==
    \E f, g \in Functions :
        /\ Running(f) /\ Len(stack) < MaxDepth
        /\ lr' = Body(f) /\ pc' = Entry(g)
        /\ OnCall(Entry(g))
        /\ UNCHANGED <<r4, stack, host, exact>>

GuestTrap ==
    \E f \in Functions, i \in Traps \ {0} :
        /\ Running(f)
        /\ lr' = Body(f) /\ pc' = TrapAt(i)
        /\ UNCHANGED <<r4, stack, host, shadow, exact>>

(* A function the host called returns too, though no one told the trace of its
   call. *)
GuestReturn ==
    \E f \in Functions :
        /\ Running(f)
        /\ pc' = Top(stack).ret /\ r4' = Top(stack).r4
        /\ stack' = Popped(stack)
        /\ OnReturn
        /\ exact' = (exact /\ (Top(stack).ret # Sentinel \/ shadow = <<>>))
        /\ UNCHANGED <<lr, host>>

(* Dispatch. *)
Dispatch ==
    /\ InGuest /\ pc.is = "trap" /\ pc # Sentinel
    /\ IF Implemented(pc.n)
       THEN /\ Len(host) < MaxDepth
            /\ host' = Append(host, [kind |-> "handler", slot |-> pc.n, back |-> lr, r4 |-> r4,
                                     depth |-> Len(shadow), frames |-> Len(stack)])
            /\ OnCall(pc)
            /\ UNCHANGED pc
       ELSE pc' = lr /\ UNCHANGED <<host, shadow>>
    /\ UNCHANGED <<lr, r4, stack, exact>>

(* The handler is done: the trace, and BX LR. *)
HandlerReturns ==
    /\ host # <<>> /\ Top(host).kind = "handler"
    /\ pc' = lr /\ host' = Popped(host)
    /\ OnReturn
    /\ UNCHANGED <<lr, r4, stack, exact>>

(* An instruction throws: the exception leaves the calls it is in, up to a
   handler that catches it (an extension's load) or the main loop.  A preserving
   call puts the registers back on the way; a handler that does not catch is left
   without OnReturn. *)
Unwound(k) ==
    /\ host' = SubSeq(host, 1, k)
    /\ exact' = FALSE
    /\ IF k = 0 THEN UNCHANGED <<pc, lr, r4, stack>>
       ELSE /\ pc' = host[k + 1].saved.pc /\ lr' = host[k + 1].saved.lr /\ r4' = host[k + 1].saved.r4
            /\ stack' = SubSeq(stack, 1, host[k].frames)

Throw ==
    /\ \E f \in Functions : Running(f)
    /\ \E k \in {0} \cup {j \in 1..Len(host) - 1 : host[j].kind = "handler"} : Unwound(k)
    /\ UNCHANGED shadow

CallsNext == CallFromMain \/ CallFromHandler \/ CallReturns \/ Enter \/ GuestCall \/ GuestTrap \/ GuestReturn
             \/ Dispatch \/ HandlerReturns \/ Throw

CallsSpec == CallsInit /\ [][CallsNext]_callsVars

CallsTypeOK ==
    /\ Len(host) <= MaxDepth /\ Len(stack) <= MaxDepth + 1
    /\ pc.is \in {"trap", "entry", "body"} /\ lr.is \in {"trap", "body"} /\ r4 \in {0, 1}

-----------------------------------------------------------------------------
(* A handler goes back to the instruction after the call it serves, with the
   registers the guest had, whatever it called in the guest meanwhile and whether
   that threw (HleRuntime::Dispatch, CallArmFunctionPreservingContext). *)
GoesBack ==
    HandlerReturns => pc' = Top(host).back /\ r4' = Top(host).r4 /\ Len(stack) = Top(host).frames

ReturnsToCaller == [][GoesBack]_callsVars

(* The shadow stack names the handlers that are running, each above the calls made
   before it, as long as nothing threw and no function that the host called has
   returned (CallStackTracer::OnCall, OnReturn). *)
TraceIsExact ==
    exact => \A k \in 1..Len(host) :
        host[k].kind = "handler" => /\ Len(shadow) > host[k].depth
                                    /\ shadow[host[k].depth + 1] = TrapAt(host[k].slot)

-----------------------------------------------------------------------------
(* What the proofs need to know of the two stacks. *)

CallsBounds == Slots \in Nat /\ MaxDepth \in Nat \ {0}

Bodies == {Body(f) : f \in Functions}

HostFrames ==
    [kind : {"call"}]
    \cup [kind : {"preserve"}, saved : [pc : {TrapAt(i) : i \in Traps}, lr : Bodies, r4 : {0, 1}]]
    \cup [kind : {"handler"}, slot : 1..Slots, back : Bodies, r4 : {0, 1}, depth : Nat, frames : Nat]

StackFrames == [ret : Bodies \cup {Sentinel}, r4 : {0, 1}]

TraceFrames == {TrapAt(i) : i \in Traps} \cup {Entry(f) : f \in Functions}

(* Calls into the guest and handlers alternate, and a call from a handler keeps
   what its handler goes back to. *)
HostSound ==
    /\ host \in Seq(HostFrames)
    /\ \A k \in DOMAIN host :
           /\ host[k].kind = "call" <=> k = 1
           /\ k > 1 => (host[k].kind = "handler" <=> host[k - 1].kind # "handler")
           /\ host[k].kind = "preserve" => /\ host[k].saved.lr = host[k - 1].back
                                           /\ host[k].saved.r4 = host[k - 1].r4

(* The guest's frames of the k-th call lie above Base and up to Roof; the first
   returns to the host, the others do not.  Of a call of the main loop, Base is
   what a throw left behind. *)
Base(b, k) == IF k = 1 THEN b ELSE host[k - 1].frames

Roof(k) == IF k < Len(host) THEN host[k + 1].frames ELSE Len(stack)

StackSound(b) ==
    /\ stack \in Seq(StackFrames)
    /\ \A k \in DOMAIN host : host[k].kind = "handler" =>
           /\ b <= host[k].frames /\ host[k].frames <= Len(stack)
           /\ \A m \in DOMAIN host : m > k /\ host[m].kind = "handler" =>
                  host[k].frames <= host[m].frames
    /\ \A k \in DOMAIN host : host[k].kind # "handler" =>
           /\ IF k < Len(host) THEN Base(b, k) < Roof(k) ELSE Base(b, k) <= Roof(k)
           /\ \A j \in Base(b, k) + 1..Roof(k) : stack[j].ret = Sentinel <=> j = Base(b, k) + 1

(* Where the registers point, while a handler runs and while the guest does. *)
AtHandler ==
    host # <<>> /\ Top(host).kind = "handler" =>
        lr = Top(host).back /\ r4 = Top(host).r4 /\ Len(stack) = Top(host).frames
        /\ pc \in {TrapAt(i) : i \in Traps}

AtGuest(b) ==
    InGuest =>
        \/ pc \in {Entry(f) : f \in Functions} /\ lr = Sentinel /\ Len(stack) = Base(b, Len(host))
        \/ pc \in {Entry(f) : f \in Functions} /\ lr \in Bodies /\ Len(stack) > Base(b, Len(host))
        \/ pc \in Bodies /\ Len(stack) > Base(b, Len(host))
        \/ pc \in {TrapAt(i) : i \in Traps \ {0}} /\ lr \in Bodies /\ Len(stack) > Base(b, Len(host))
        \/ pc = Sentinel /\ Len(stack) = Base(b, Len(host))

(* The frames of the trace below the k-th call. *)
Under(k) == IF k = 1 THEN 0 ELSE host[k - 1].depth + 1

(* While the trace is exact it has a frame for every call but those of the host. *)
TraceSound(b) ==
    /\ host = <<>> => shadow = <<>>
    /\ \A k \in DOMAIN host : host[k].kind = "handler" =>
           /\ host[k].depth = Under(k - 1) + host[k].frames - Base(b, k - 1) - 1
           /\ Len(shadow) > host[k].depth /\ shadow[host[k].depth + 1] = TrapAt(host[k].slot)
           /\ k = Len(host) => Len(shadow) = host[k].depth + 1
           /\ \A m \in DOMAIN host : m > k /\ host[m].kind = "handler" =>
                  host[k].depth < host[m].depth
    /\ InGuest => Len(shadow) = Under(Len(host))
                    + (IF pc = Sentinel \/ (pc.is = "entry" /\ lr = Sentinel) THEN 0
                       ELSE Len(stack) - Base(b, Len(host)) - (IF pc.is = "entry" THEN 0 ELSE 1))

CallsTyped ==
    /\ exact \in BOOLEAN /\ r4 \in {0, 1}
    /\ shadow \in Seq(TraceFrames)
    /\ Len(host) <= MaxDepth /\ Len(stack) <= MaxDepth + 1
    /\ pc \in {Body("host")} \cup Bodies \cup {Entry(f) : f \in Functions} \cup {TrapAt(i) : i \in Traps}
    /\ lr \in {Body("host"), Sentinel} \cup Bodies

CallsInv ==
    /\ CallsTyped /\ HostSound /\ AtHandler
    /\ \E b \in 0..Len(stack) : StackSound(b) /\ AtGuest(b) /\ (exact => TraceSound(b))
=============================================================================
