----------------------------- MODULE EventLoop -----------------------------
(***************************************************************************)
(* The main loop of tools/game_probe.cpp over one ARM CPU context: the     *)
(* boot drain, then per iteration control commands, host keys, HID         *)
(* signals, the pause gate, media notifications, timer preemption, the     *)
(* resumption of a callback that slept, thread slices, due timers and      *)
(* widget drawing.                                                         *)
(*                                                                         *)
(* Guest code is arbitrary: while the loop is inside a guest call (run)    *)
(* the guest makes up to MaxCalls HLE calls of its choice, then returns,   *)
(* leaves the module, throws, or yields.  A call yields right after the    *)
(* HLE call that asked for it (CallArmFunctionChecked tests should_yield   *)
(* after every step), unless the loop passed no should_yield.              *)
(*                                                                         *)
(* The guest is assumed to Suspend and Exit only the thread it runs on and *)
(* not to release the last reference to it; see README.                    *)
(***************************************************************************)
EXTENDS ShellTimers, ThreadHle, FiniteSets

CONSTANTS
    Signals,        \* ISignal objects the guest registered
    Host,           \* the activity of a guest function called outside the scheduler
    Idle,           \* cpu: no unfinished guest activity
    NoContext,      \* saved: nothing is saved
    MaxCalls,       \* bound: HLE calls in one guest call
    MaxQueue,       \* bound: pending HID signals
    MaxDrainTicks,  \* kMaxDrainTicks of the boot drain
    Injections,     \* once-only notifications the session has: the simulated
                    \* download-complete, the dismissal of the Z-Pad screen
    Preempt,        \* ZEEB_TIMER_PREEMPT
    GuestSets,      \* the guest calls ISignal::Set itself
    HostKeys,       \* the user types keys that reach HandleEvent
    Breakpoints     \* the debugger is armed

Activities == TimerIds \cup Threads \cup Signals \cup {Host}

ASSUME LoopAssumption ==
    /\ MaxCalls \in Nat /\ MaxQueue \in Nat /\ MaxDrainTicks \in Nat
    /\ {Preempt, GuestSets, HostKeys, Breakpoints} \subseteq BOOLEAN
    /\ Idle \notin Activities
    /\ NoContext \notin Activities \cup {Idle}

VARIABLES
    phase,      \* where the loop is
    run,        \* the guest call in progress: [kind, who]
    calls,      \* HLE calls it made
    cpu,        \* the unfinished activity whose registers the CPU holds
    saved,      \* the activity whose registers the loop keeps aside
    cont,       \* boot_continuation_active, then callback_continuation_active
    yieldReq,   \* yield_requested_ of ModRuntime
    due,        \* expired timers of this burst not yet called
    slices,     \* threads of this pass not yet run
    sigs,       \* hid_signals
    sigQueue,   \* pending_hid_signals
    drainTick,  \* t of the boot drain
    hit,        \* DebugHooks::Hit
    paused,     \* dbg_paused
    injected,   \* once-only notifications already made
    running,    \* running
    crashed     \* history: threads whose slice threw

shellVars == <<timers, aee>>
ctxVars   == <<cpu, saved, cont, yieldReq>>
workVars  == <<due, slices, sigs, sigQueue>>
flagVars  == <<drainTick, hit, paused, injected, running, crashed>>
loopVars  == <<phase, run, calls, ctxVars, workVars, flagVars>>
vars == <<shellVars, threadVars, loopVars>>

(* Calls that poll ConsumeYieldRequest (the should_yield argument). *)
YieldKinds == {"drained", "signal", "preempt", "resumed", "thread", "timer"}

NoRun == [kind |-> "none", who |-> Idle]

(* Before the loop: the applet's start, then the drain. *)
BootPhases == {"boot", "start", "startThreads", "handlers", "drain", "drainThreads", "drainTimers"}

Phases == BootPhases \cup
          {"control", "keys", "signals", "gate", "media", "preempt", "preempting", "resume",
           "inject", "take", "threads", "tick", "timers", "widgets", "finish", "stopped"}

LoopTypeOK ==
    /\ TimersTypeOK /\ ThreadsTypeOK
    /\ phase \in Phases
    /\ run \in [kind : YieldKinds \cup {"host"}, who : Activities] \cup {NoRun}
    /\ calls \in 0..MaxCalls
    /\ cpu \in Activities \cup {Idle}
    /\ saved \in Activities \cup {Idle, NoContext}
    /\ {cont, yieldReq, hit, paused, running} \subseteq BOOLEAN
    /\ injected \subseteq Injections
    /\ due \in Seq(TimerIds)
    /\ slices \in Seq(Threads)
    /\ sigs \subseteq Signals
    /\ sigQueue \in Seq(Signals)
    /\ drainTick \in 0..MaxDrainTicks
    /\ crashed \subseteq Threads

(* The applet's EVT_APP_START handler runs; AEEMod_Load and CreateInstance,
   which ran before it, registered the signals. *)
LoopInit ==
    /\ TimersInit /\ ThreadsInit
    /\ phase = "boot"
    /\ run = [kind |-> "host", who |-> Host] /\ calls = 0
    /\ cpu = Host /\ saved = NoContext /\ cont = FALSE /\ yieldReq = FALSE
    /\ due = <<>> /\ slices = <<>> /\ sigs = Signals /\ sigQueue = <<>>
    /\ drainTick = 0
    /\ hit = FALSE /\ paused = FALSE /\ injected = {} /\ running = TRUE
    /\ crashed = {}

-----------------------------------------------------------------------------
(* Guest execution. *)

InGuest == run # NoRun

(* should_yield is about to answer true. *)
Yielding == yieldReq /\ run.kind \in YieldKinds

(* The thread this call runs, if any. *)
OnThread(t) == run = [kind |-> "thread", who |-> t]

(* Guest code is executing and may call the HLE.  A thread resumed before it
   was started has a zero context, and an exited one is on its way out. *)
GuestActive ==
    /\ InGuest /\ ~Yielding /\ calls < MaxCalls
    /\ run.kind = "thread" => run.who \in started \ finished
    /\ calls' = calls + 1

TimerCalls ==
    \/ \E d \in Delays, cb \in Callbacks, user \in Users : SetTimer(d, cb, user)
    \/ \E d \in Delays, s \in Structs : SetTimer(d, s, s)
    \/ \E cb \in Callbacks \cup {NullPtr}, user \in Users : CancelTimer(cb, user)
    \/ \E s \in Structs : CancelTimer(s, s) \/ ResumeCallback(s)
    \/ \E s \in Structs, id \in (Callbacks \cup {NullPtr}) \X Users : WriteStruct(s, id)

ThreadCalls ==
    \E t \in Threads :
        \/ CreateThreadObject(t)
        \/ AddRef(t)
        \/ Release(t) /\ (OnThread(t) => refs[t] > 1)
        \/ Start(t)
        \/ GetResumeCBK(t)
        \/ ResumeByCallback(t)
        \/ OnThread(t) /\ FinishThread(t)

GuestTimerCall ==
    /\ GuestActive /\ TimerCalls
    /\ UNCHANGED <<threadVars, phase, run, ctxVars, workVars, flagVars>>

GuestThreadCall ==
    /\ GuestActive /\ ThreadCalls
    /\ UNCHANGED <<shellVars, phase, run, ctxVars, workVars, flagVars>>

(* AEEHelper sleep. *)
GuestSleep ==
    /\ GuestActive
    /\ yieldReq' = TRUE
    /\ UNCHANGED <<shellVars, threadVars, phase, run, cpu, saved, cont, workVars, flagVars>>

(* IThread::Suspend: the context is saved, then yield_fn_ asks for a yield. *)
GuestSuspend ==
    /\ GuestActive
    /\ \E t \in Threads : OnThread(t) /\ Suspend(t)
    /\ yieldReq' = TRUE
    /\ UNCHANGED <<shellVars, phase, run, cpu, saved, cont, workVars, flagVars>>

(* ISignal::Set and ISignalCtl::Detach. *)
GuestSignalCall ==
    /\ GuestActive
    /\ \E s \in sigs :
          \/ /\ GuestSets /\ Len(sigQueue) < MaxQueue
             /\ sigQueue' = Append(sigQueue, s)
             /\ UNCHANGED sigs
          \/ /\ sigs' = sigs \ {s}
             /\ UNCHANGED sigQueue
    /\ UNCHANGED <<shellVars, threadVars, phase, run, ctxVars, due, slices, flagVars>>

(* The guest touches a breakpoint or a watched address. *)
GuestHit ==
    /\ phase \notin BootPhases
    /\ InGuest /\ Breakpoints /\ ~hit
    /\ hit' = TRUE
    /\ UNCHANGED <<shellVars, threadVars, phase, run, calls, ctxVars, workVars,
                   drainTick, paused, injected, running, crashed>>

Guest ==
    GuestTimerCall \/ GuestThreadCall \/ GuestSleep \/ GuestSuspend \/ GuestSignalCall
    \/ GuestHit

-----------------------------------------------------------------------------
(* Entering and leaving guest code. *)

(* The registers are overwritten with those of a call to `who'. *)
Enter(kind, who) ==
    /\ run' = [kind |-> kind, who |-> who]
    /\ calls' = 0
    /\ cpu' = who

Outcomes == {"return", "yield", "wander", "throw"}

(* CallArmFunctionChecked ends: it reports a yield exactly when should_yield
   answered true, and consumes the request. *)
Leave(kind, o) ==
    /\ run.kind = kind
    /\ o = "yield" <=> Yielding
    /\ run' = NoRun /\ calls' = 0
    /\ yieldReq' = (IF o = "yield" THEN FALSE ELSE yieldReq)

(* What the CPU is left with when nobody restores it: the sleeping callback,
   or nothing anyone will run again. *)
Left(o) == IF o = "yield" THEN cpu ELSE Idle

Goto(p) == phase' = p

(* A phase with nothing to do. *)
Skip(p, q) ==
    /\ phase = p /\ ~InGuest
    /\ Goto(q)
    /\ UNCHANGED <<shellVars, threadVars, run, calls, ctxVars, workVars, flagVars>>

(* Guest functions called with no should_yield: a sleep inside them leaves its
   request behind.  After a key or a once-only notification there may be another. *)
AfterHost == [boot |-> "start", handlers |-> "drain", keys |-> "keys", media |-> "preempt",
              inject |-> "inject", widgets |-> "finish"]

HostCall(p) ==
    /\ phase = p /\ ~InGuest
    /\ Enter("host", Host)
    /\ UNCHANGED <<shellVars, threadVars, phase, saved, cont, yieldReq, workVars>>

HostDone ==
    /\ Leave("host", "return")
    /\ cpu' = Idle
    /\ Goto(AfterHost[phase])
    /\ UNCHANGED <<shellVars, threadVars, saved, cont, workVars, flagVars>>

-----------------------------------------------------------------------------
(* Thread slices: run_pending_threads_fn, called after EVT_APP_START, in the
   boot drain and in the loop; q is the phase that follows p. *)

TakeThreads(p, q) ==
    /\ phase = p /\ ~InGuest
    /\ slices' = pending
    /\ TakePendingThreads
    /\ Goto(q)
    /\ UNCHANGED <<shellVars, run, calls, ctxVars, due, sigs, sigQueue, flagVars>>

InPass == phase \in {"startThreads", "drainThreads", "threads"} /\ ~InGuest

Runnable_Unsuspended(t) == Exists(t) /\ t \notin finished \cup suspended
Runnable(t) == Exists(t) /\ t \notin finished

(* The main context is set aside and the thread's is loaded. *)
BeginSlice ==
    /\ InPass /\ slices # <<>>
    /\ Runnable(Head(slices))
    /\ slices' = Tail(slices)
    /\ saved' = cpu
    /\ Enter("thread", Head(slices))
    /\ yieldReq' = FALSE
    /\ WakeThread(Head(slices))
    /\ UNCHANGED <<shellVars, phase, cont, due, sigs, sigQueue, flagVars>>

(* A queue entry of a thread released or finished in the meantime. *)
SkipSlice ==
    /\ InPass /\ slices # <<>>
    /\ ~Runnable(Head(slices))
    /\ slices' = Tail(slices)
    /\ UNCHANGED <<shellVars, threadVars, phase, run, calls, ctxVars, due, sigs, sigQueue,
                   flagVars>>

(* The end of a slice: a thread that slept is queued again, one that called
   Suspend waits for a Resume, one that returned (or ran out of the module) is
   finished, one that threw keeps its state.  The main context is restored.
   An unstarted thread runs at address 0, where a `bx lr' is mapped, and Exit
   sends its caller to the trap. *)
AfterSlice_ForgetsSuspend(t, o) ==
    IF t \in finished \/ o = "throw" THEN UNCHANGED threadVars
    ELSE IF o = "yield" THEN RequeueThread(t)
    ELSE FinishThread(t)

AfterSlice(t, o) ==
    IF t \in finished \/ t \in suspended \/ o = "throw" THEN UNCHANGED threadVars
    ELSE IF o = "yield" THEN RequeueThread(t)
    ELSE FinishThread(t)

EndSlice(o) ==
    /\ Leave("thread", o)
    /\ run.who \notin started \ finished => o = "return"
    /\ AfterSlice(run.who, o)
    /\ crashed' = (IF o = "throw" THEN crashed \cup {run.who} ELSE crashed)
    /\ cpu' = saved /\ saved' = NoContext
    /\ UNCHANGED <<shellVars, phase, cont, workVars, drainTick, hit, paused, injected,
                   running>>

EndPass(p, q) ==
    /\ slices = <<>>
    /\ Skip(p, q)

-----------------------------------------------------------------------------
(* Boot: EVT_APP_START is followed by a pass over the threads and by the
   handlers of the widgets (the Z-Wheel animation). *)

BootHandlers ==
    /\ HostCall("handlers")
    /\ UNCHANGED flagVars

NoHandlers == Skip("handlers", "drain")

(* Then the drain before the loop: at most MaxDrainTicks ticks, and none after
   a callback that slept. *)

DrainMore_OneTooMany == drainTick <= MaxDrainTicks
DrainMore == drainTick < MaxDrainTicks

DrainTick ==
    /\ phase = "drain" /\ ~InGuest /\ DrainMore
    /\ Expiring # {} \/ pending # <<>>
    /\ due' \in Expired
    /\ TickTimers
    /\ slices' = pending
    /\ TakePendingThreads
    /\ Goto("drainThreads")
    /\ UNCHANGED <<run, calls, ctxVars, sigs, sigQueue, flagVars>>

(* Tick ages the timers even when nothing expires and the drain stops there. *)
DrainIdle ==
    /\ phase = "drain" /\ ~InGuest /\ DrainMore
    /\ Expiring = {} /\ pending = <<>>
    /\ TickTimers
    /\ Goto("control")
    /\ UNCHANGED <<threadVars, run, calls, ctxVars, workVars, flagVars>>

DrainStop ==
    /\ ~DrainMore
    /\ Skip("drain", "control")

BeginDrained ==
    /\ phase = "drainTimers" /\ ~InGuest /\ due # <<>>
    /\ due' = Tail(due)
    /\ Enter("drained", Head(due))
    /\ yieldReq' = FALSE
    /\ UNCHANGED <<shellVars, threadVars, phase, saved, cont, slices, sigs, sigQueue, flagVars>>

(* A callback that slept ends the drain, whatever is still due; one that threw
   or wandered is only reported. *)
EndDrained(o) ==
    /\ Leave("drained", o)
    /\ cpu' = Left(o)
    /\ \/ /\ o = "yield"
          /\ cont' = TRUE /\ due' = <<>> /\ Goto("control")
       \/ /\ o # "yield"
          /\ UNCHANGED <<cont, due, phase>>
    /\ UNCHANGED <<shellVars, threadVars, saved, slices, sigs, sigQueue, flagVars>>

DrainNext ==
    /\ phase = "drainTimers" /\ ~InGuest /\ due = <<>>
    /\ drainTick' = drainTick + 1
    /\ Goto("drain")
    /\ UNCHANGED <<shellVars, threadVars, run, calls, ctxVars, workVars, hit, paused,
                   injected, running, crashed>>

Drain ==
    \/ DrainTick \/ DrainIdle \/ DrainStop
    \/ EndPass("drainThreads", "drainTimers")
    \/ BeginDrained
    \/ \E o \in Outcomes : EndDrained(o)
    \/ DrainNext

-----------------------------------------------------------------------------
(* Host input. *)

(* The control channel is drained: quit, cont, or nothing that matters here. *)
Control ==
    /\ phase = "control" /\ ~InGuest
    /\ Goto("keys")
    /\ \/ UNCHANGED <<running, hit, paused>>
       \/ running' = FALSE /\ UNCHANGED <<hit, paused>>
       \/ hit' = FALSE /\ paused' = FALSE /\ UNCHANGED running
    /\ UNCHANGED <<shellVars, threadVars, run, calls, ctxVars, workVars, drainTick,
                   injected, crashed>>

(* A key the classic path handles calls HandleEvent, or a widget's handler, at
   once. *)
HostKey ==
    /\ HostKeys
    /\ HostCall("keys")
    /\ UNCHANGED flagVars

(* A button edge: InjectHidButtonEvent queues the registered signal. *)
HidEdge ==
    /\ phase = "keys" /\ ~InGuest
    /\ \E s \in sigs :
          /\ Len(sigQueue) < MaxQueue
          /\ sigQueue' = Append(sigQueue, s)
    /\ UNCHANGED <<shellVars, threadVars, phase, run, calls, ctxVars, due, slices, sigs, flagVars>>

NoKey == Skip("keys", "signals")

-----------------------------------------------------------------------------
(* HID signals: drained in order unless the guest is paused or asleep. *)

SignalsBlocked == paused \/ cont

SkipSignals ==
    /\ SignalsBlocked \/ sigQueue = <<>>
    /\ Skip("signals", "gate")

DropSignal_NoPop ==
    /\ phase = "signals" /\ ~InGuest /\ ~SignalsBlocked
    /\ sigQueue # <<>> /\ Head(sigQueue) \notin sigs
    /\ UNCHANGED vars

DropSignal ==
    /\ phase = "signals" /\ ~InGuest /\ ~SignalsBlocked
    /\ sigQueue # <<>> /\ Head(sigQueue) \notin sigs
    /\ sigQueue' = Tail(sigQueue)
    /\ UNCHANGED <<shellVars, threadVars, phase, run, calls, ctxVars, due, slices, sigs,
                   flagVars>>

BeginSignal ==
    /\ phase = "signals" /\ ~InGuest /\ ~SignalsBlocked
    /\ sigQueue # <<>> /\ Head(sigQueue) \in sigs
    /\ sigQueue' = Tail(sigQueue)
    /\ Enter("signal", Head(sigQueue))
    /\ UNCHANGED <<shellVars, threadVars, phase, saved, cont, yieldReq, due, slices, sigs,
                   flagVars>>

EndSignal(o) ==
    /\ Leave("signal", o)
    /\ cpu' = Left(o)
    /\ \/ /\ o \in {"return", "yield"}
          /\ cont' = (o = "yield")
          /\ UNCHANGED <<phase, running>>
       \/ /\ o \in {"wander", "throw"}
          /\ running' = FALSE
          /\ Goto("gate")
          /\ UNCHANGED cont
    /\ UNCHANGED <<shellVars, threadVars, saved, workVars, drainTick, hit, paused,
                   injected, crashed>>

-----------------------------------------------------------------------------
(* The pause gate, then media notifications (also while paused). *)

Gate ==
    /\ phase = "gate" /\ ~InGuest
    /\ paused' = (paused \/ hit)
    /\ Goto("media")
    /\ UNCHANGED <<shellVars, threadVars, run, calls, ctxVars, workVars, drainTick, hit,
                   injected, running, crashed>>

MediaTick_OverContinuation ==
    /\ HostCall("media")
    /\ UNCHANGED flagVars

MediaTick ==
    /\ ~cont
    /\ HostCall("media")
    /\ UNCHANGED flagVars

NoMedia == Skip("media", "preempt")

-----------------------------------------------------------------------------
(* ZEEB_TIMER_PREEMPT: while a callback sleeps, the timers that come due are
   called over its context, which is set aside and put back. *)

Preempts_Never == FALSE
Preempts == Preempt /\ ~paused /\ cont

NoPreempt ==
    /\ ~Preempts
    /\ Skip("preempt", "resume")

PreemptTick ==
    /\ phase = "preempt" /\ ~InGuest /\ Preempts
    /\ due' \in Expired
    /\ TickTimers
    /\ IF Expiring # {}
       THEN saved' = cpu /\ Goto("preempting")
       ELSE Goto("resume") /\ UNCHANGED saved
    /\ UNCHANGED <<threadVars, run, calls, cpu, cont, yieldReq, slices, sigs, sigQueue,
                   flagVars>>

BeginPreempting ==
    /\ phase = "preempting" /\ ~InGuest /\ due # <<>>
    /\ due' = Tail(due)
    /\ Enter("preempt", Head(due))
    /\ yieldReq' = FALSE
    /\ UNCHANGED <<shellVars, threadVars, phase, saved, cont, slices, sigs, sigQueue, flagVars>>

(* Whether the timer's callback slept is not looked at. *)
EndPreempting(o) ==
    /\ Leave("preempt", o)
    /\ cpu' = Left(o)
    /\ \/ /\ o \in {"return", "yield"}
          /\ UNCHANGED <<due, running>>
       \/ /\ o \in {"wander", "throw"}
          /\ due' = <<>> /\ running' = FALSE
    /\ UNCHANGED <<shellVars, threadVars, phase, saved, cont, slices, sigs, sigQueue,
                   drainTick, hit, paused, injected, crashed>>

PreemptRestore ==
    /\ phase = "preempting" /\ ~InGuest /\ due = <<>>
    /\ cpu' = saved /\ saved' = NoContext
    /\ Goto("resume")
    /\ UNCHANGED <<shellVars, threadVars, run, calls, cont, yieldReq, workVars, flagVars>>

PreemptTimers ==
    \/ NoPreempt \/ PreemptTick \/ BeginPreempting \/ PreemptRestore
    \/ \E o \in Outcomes : EndPreempting(o)

-----------------------------------------------------------------------------
(* The sleeping callback continues from the registers the CPU holds. *)

NoResume ==
    /\ paused \/ ~cont
    /\ Skip("resume", "inject")

BeginResume ==
    /\ phase = "resume" /\ ~InGuest /\ ~paused /\ cont
    /\ cpu # Idle
    /\ Enter("resumed", cpu)
    /\ UNCHANGED <<shellVars, threadVars, phase, saved, cont, yieldReq, workVars, flagVars>>

(* The CPU already stands at the trap: the call returns without a step. *)
ResumeNothing ==
    /\ phase = "resume" /\ ~InGuest /\ ~paused /\ cont
    /\ cpu = Idle
    /\ cont' = FALSE
    /\ Goto("inject")
    /\ UNCHANGED <<shellVars, threadVars, run, calls, cpu, saved, yieldReq, workVars, flagVars>>

EndResume(o) ==
    /\ Leave("resumed", o)
    /\ cpu' = Left(o)
    /\ cont' = (o = "yield")
    /\ running' = (running /\ o \in {"return", "yield"})
    /\ Goto("inject")
    /\ UNCHANGED <<shellVars, threadVars, saved, workVars, drainTick, hit, paused, injected,
                   crashed>>

Resume ==
    NoResume \/ BeginResume \/ ResumeNothing \/ \E o \in Outcomes : EndResume(o)

-----------------------------------------------------------------------------
(* The simulated download-complete notification and the dismissal of the Z-Pad
   screen: each at most once per session, and not while a callback sleeps. *)
Inject ==
    /\ ~cont
    /\ \E n \in Injections \ injected : injected' = injected \cup {n}
    /\ HostCall("inject")
    /\ UNCHANGED <<drainTick, hit, paused, running, crashed>>

NoInject == Skip("inject", "take")

-----------------------------------------------------------------------------
(* Due timers: one tick, then a call per expired timer. *)

SkipTimers ==
    /\ paused \/ cont
    /\ Skip("tick", "widgets")

TimerTick ==
    /\ phase = "tick" /\ ~InGuest /\ ~paused /\ ~cont
    /\ due' \in Expired
    /\ TickTimers
    /\ Goto("timers")
    /\ UNCHANGED <<threadVars, run, calls, ctxVars, slices, sigs, sigQueue, flagVars>>

BeginTimer_KeepsYield ==
    /\ phase = "timers" /\ ~InGuest /\ due # <<>>
    /\ due' = Tail(due)
    /\ Enter("timer", Head(due))
    /\ UNCHANGED <<shellVars, threadVars, phase, saved, cont, yieldReq, slices, sigs,
                   sigQueue, flagVars>>

BeginTimer ==
    /\ phase = "timers" /\ ~InGuest /\ due # <<>>
    /\ due' = Tail(due)
    /\ Enter("timer", Head(due))
    /\ yieldReq' = FALSE
    /\ UNCHANGED <<shellVars, threadVars, phase, saved, cont, slices, sigs, sigQueue, flagVars>>

(* A callback that slept does not end the burst; one that wandered is ignored;
   one that threw ends the burst and the loop. *)
AfterTimer_DropsBurst(o) ==
    \/ /\ o # "throw"
       /\ cont' = (o = "yield")
       /\ due' = (IF o = "yield" THEN <<>> ELSE due)
       /\ UNCHANGED running
    \/ /\ o = "throw"
       /\ due' = <<>> /\ running' = FALSE
       /\ UNCHANGED cont

AfterTimer(o) ==
    \/ /\ o # "throw"
       /\ cont' = (o = "yield")
       /\ UNCHANGED <<due, running>>
    \/ /\ o = "throw"
       /\ due' = <<>> /\ running' = FALSE
       /\ UNCHANGED cont

EndTimer(o) ==
    /\ Leave("timer", o)
    /\ cpu' = Left(o)
    /\ AfterTimer(o)
    /\ UNCHANGED <<shellVars, threadVars, phase, saved, slices, sigs, sigQueue, drainTick,
                   hit, paused, injected, crashed>>

TimersDone ==
    /\ due = <<>>
    /\ Skip("timers", "widgets")

Timers ==
    SkipTimers \/ TimerTick \/ BeginTimer \/ TimersDone \/ \E o \in Outcomes : EndTimer(o)

-----------------------------------------------------------------------------
(* OwnerDraw callbacks of the widgets, then the end of the iteration. *)

WidgetDraw ==
    /\ ~paused /\ ~cont
    /\ HostCall("widgets")
    /\ UNCHANGED flagVars

NoDraw == Skip("widgets", "finish")

Again_Forever == Skip("finish", "control")
Again == running /\ Skip("finish", "control")

Stop == ~running /\ Skip("finish", "stopped")

Stopped == phase = "stopped" /\ UNCHANGED vars

-----------------------------------------------------------------------------
Slices ==
    \/ TakeThreads("start", "startThreads") \/ EndPass("startThreads", "handlers")
    \/ TakeThreads("take", "threads") \/ EndPass("threads", "tick")
    \/ BeginSlice \/ SkipSlice
    \/ \E o \in Outcomes : EndSlice(o)

Input == Control \/ HostKey \/ HidEdge \/ NoKey

HidSignals == SkipSignals \/ DropSignal \/ BeginSignal \/ \E o \in Outcomes : EndSignal(o)

HostCalls ==
    \/ HostDone \/ BootHandlers \/ NoHandlers
    \/ MediaTick \/ NoMedia \/ Inject \/ NoInject \/ WidgetDraw \/ NoDraw

Loop ==
    \/ Drain \/ Input \/ HidSignals \/ Gate \/ HostCalls
    \/ PreemptTimers \/ Resume \/ Slices \/ Timers \/ Again \/ Stop

LoopNext == Guest \/ Loop \/ Stopped

LoopSpec == LoopInit /\ [][LoopNext]_vars
(***************************************************************************)
(* Fairness: the loop is one thread that never blocks, and a guest call    *)
(* ends, because CallArmFunctionChecked bounds its steps.  The user types  *)
(* slower than the loop polls: the keys that wait at a poll run out.       *)
(***************************************************************************)
FairLoopSpec == LoopSpec /\ WF_vars(Loop) /\ SF_vars(NoKey)

-----------------------------------------------------------------------------
(* The promise of CoopThreads, in terms of the loop's state. *)

Copies(t, s) == {i \in DOMAIN s : s[i] = t}

Gone(t) == ~OnThread(t) /\ (t \in finished \/ (t \in created /\ ~Exists(t)))

ModeOf(t) ==
    CASE Gone(t) -> "done"
      [] OnThread(t) -> IF t \in suspended THEN "blocking" ELSE "running"
      [] OTHER -> "off"

WakesOf(t) ==
    IF Gone(t) THEN 0 ELSE Cardinality(Copies(t, pending)) + Cardinality(Copies(t, slices))

modes == [t \in Threads |-> ModeOf(t)]
wakeUps == [t \in Threads |-> WakesOf(t)]

Coop == INSTANCE CoopThreads WITH mode <- modes, wakes <- wakeUps, failed <- crashed

(* The loop implements the thread scheduler's promise: a slice per wake-up,
   none after the end, one thread at a time. *)
ImplementsCoopThreads == Coop!CoopSpec

-----------------------------------------------------------------------------
(* Safety. *)

(***************************************************************************)
(* Between guest calls the flag and the CPU agree: a continuation is       *)
(* flagged active exactly when the CPU holds the registers of an           *)
(* unfinished callback.  Otherwise the loop would resume a callback that   *)
(* already returned, or never resume one that slept.                       *)
(***************************************************************************)
ContinuationMatchesContext ==
    running /\ ~InGuest /\ saved = NoContext => (cont <=> cpu # Idle)

(***************************************************************************)
(* A timer, a thread slice or a resumed callback that has made no call yet *)
(* is not made to yield by a sleep of somebody else (the comment before    *)
(* the timer call: the continuation belongs only to this callback).        *)
(***************************************************************************)
YieldIsOwn == calls = 0 /\ run.kind \in YieldKinds \ {"signal"} => ~yieldReq

(***************************************************************************)
(* No thread is lost: one that was started, is not finished and is not     *)
(* running is queued, or called Suspend and waits for its Resume, unless   *)
(* its last slice threw.                                                   *)
(***************************************************************************)
NoLostThread ==
    \A t \in (started \ finished) \ crashed :
        Exists(t) /\ ~OnThread(t) /\ t \notin Elems(pending) \cup Elems(slices)
            => t \in suspended

(***************************************************************************)
(* In the loop an expired timer leaves the burst only to be called, or     *)
(* because the loop ends.  (The boot drain makes no such promise.)         *)
(***************************************************************************)
DueTimersAreCalled ==
    [][(phase \in {"timers", "preempting"} /\ due' # due)
          => (due' = Tail(due) /\ run'.who = Head(due)) \/ (~running')]_vars

-----------------------------------------------------------------------------
(* Liveness, under FairLoopSpec. *)

PendingIds == {timers[i].id : i \in DOMAIN timers}

(* A timer is not starved by a callback that sleeps again and again. *)
TimersServed ==
    \A id \in Callbacks \X Users :
        id \in PendingIds ~> (id \notin PendingIds \/ phase = "stopped")

(* A queued thread runs, unless it ends or the loop does. *)
ThreadsServed ==
    \A t \in Threads :
        t \in Elems(pending) ~> (OnThread(t) \/ t \in finished \/ ~Exists(t) \/ phase = "stopped")

(* Queued signals are dispatched unless a callback sleeps. *)
SignalsServed == sigQueue # <<>> ~> (sigQueue = <<>> \/ cont \/ phase = "stopped")

(* Once something clears running, the loop stops. *)
LoopStops == ~running ~> phase = "stopped"

-----------------------------------------------------------------------------
(* What the comments of game_probe.cpp say of the loop. *)

(* While a continuation is active, no other guest callback may run on that
   single CPU context (game_probe.cpp:6232-6234). *)
ContinuationExclusive ==
    [][ cont /\ ~InGuest /\ InGuest' => run'.kind = "resumed" \/ saved' # NoContext ]_vars

(* A breakpoint or watchpoint hit stops the guest from advancing
   (game_probe.cpp:6792-6793). *)
PauseStopsGuest == [][ paused => ~(~InGuest /\ InGuest') ]_vars
=============================================================================
