-------------------------- MODULE EventLoop_proofs -------------------------
(***************************************************************************)
(* Safety of the event loop for every number of timers, threads, signals,  *)
(* guest calls and drain ticks.                                            *)
(*                                                                         *)
(* ShellInv, ThreadsInv and FlowInv are inductive together and hold of the *)
(* loop whatever its constants.  ContextInv says whose registers the CPU   *)
(* and the saved context hold; it needs that no key reaches HandleEvent.   *)
(***************************************************************************)
EXTENDS EventLoop, Vectors_proofs, FiniteSetTheorems, FunctionTheorems

-----------------------------------------------------------------------------
(* What each operation on the shell's timers preserves: the types, and     *)
(* that no identity is pending twice.                                      *)

(* ScheduleTimer reschedules in place or appends a new identity. *)
LEMMA ScheduleTimerKeeps ==
    ASSUME timers \in Seq(Timer), TimersUnique,
           NEW ms \in Delays, NEW id \in TimerIds, ScheduleTimer(ms, id)
    PROVE  timers' \in Seq(Timer) /\ TimersUnique'
<1> DEFINE t == [id |-> id, left |-> ms]
<1>0. t \in Timer
  BY DEF Timer
<1>1. CASE \E i \in DOMAIN timers : timers[i].id = id
                                    /\ timers' = [timers EXCEPT ![i] = t]
  <2>1. PICK i \in DOMAIN timers : timers[i].id = id /\ timers' = [timers EXCEPT ![i] = t]
    BY <1>1
  <2>2. timers' \in Seq(Timer)
    BY <1>0, <2>1
  <2>3. DOMAIN timers' = DOMAIN timers /\ \A k \in DOMAIN timers : timers'[k].id = timers[k].id
    BY <2>1
  <2> QED
    BY <2>2, <2>3 DEF TimersUnique
<1>2. CASE (\A i \in DOMAIN timers : timers[i].id # id) /\ timers' = Append(timers, t)
  <2>1. timers' \in Seq(Timer)
    BY <1>0, <1>2
  <2>2. DOMAIN timers = 1..Len(timers) /\ DOMAIN timers' = 1..(Len(timers) + 1)
        /\ Len(timers) \in Nat
    BY <1>2
  <2>3. \A k \in 1..Len(timers) : timers'[k] = timers[k]
    BY <1>2
  <2>4. timers'[Len(timers) + 1].id = id
    BY <1>2
  <2>5. \A k \in 1..Len(timers) : timers'[k].id # id
    BY <1>2, <2>2, <2>3
  <2> HIDE DEF t
  <2>6. \A k \in DOMAIN timers' : k \in 1..Len(timers) \/ k = Len(timers) + 1
    BY <2>2
  <2>7. TimersUnique'
    BY <2>2, <2>3, <2>4, <2>5, <2>6 DEF TimersUnique
  <2> QED
    BY <2>1, <2>7
<1> QED
  BY <1>1, <1>2 DEF ScheduleTimer

(* Erasing timers leaves the others as they were. *)
LEMMA KeptTimersUnique ==
    ASSUME timers \in Seq(Timer), TimersUnique, NEW s \in Seq(Timer),
           DOMAIN s = DOMAIN timers,
           \A i \in DOMAIN timers : s[i].id = timers[i].id,
           NEW I \in SUBSET DOMAIN timers, timers' \in Kept(s, I)
    PROVE  TimersUnique'
<1> SUFFICES ASSUME NEW j \in DOMAIN timers', NEW k \in DOMAIN timers',
                    timers'[j].id = timers'[k].id, j # k
             PROVE  FALSE
  BY DEF TimersUnique
<1>1. PICK p \in I, q \in I : p # q /\ timers'[j] = s[p] /\ timers'[k] = s[q]
  BY KeptInjective
<1>2. timers[p].id = timers[q].id
  BY <1>1
<1> QED
  BY <1>1, <1>2 DEF TimersUnique

(* SetTimer, CancelTimer, Resume and the guest's stores to its structures. *)
LEMMA SetTimerKeeps ==
    ASSUME TimersTypeOK, TimersUnique, NEW d \in Delays,
           NEW cb, NEW user, SetTimer(d, cb, user),
           \/ cb \in Callbacks /\ user \in Users
           \/ cb \in Structs /\ user = cb
    PROVE  TimersTypeOK' /\ TimersUnique'
<1>1. Identity(cb, user) \in TimerIds
  BY ShellAssumption DEF Identity, TimersTypeOK, TimerIds
<1> QED
  BY <1>1, ScheduleTimerKeeps DEF SetTimer, TimersTypeOK

(* CancelTimer erases, so it keeps types and uniqueness. *)
LEMMA CancelTimerKeeps ==
    ASSUME TimersTypeOK, TimersUnique, NEW cb, NEW user, CancelTimer(cb, user)
    PROVE  TimersTypeOK' /\ TimersUnique'
<1> DEFINE I == DOMAIN timers \ Cancelled(Identity(cb, user))
<1>1. timers \in Seq(Timer) /\ I \in SUBSET DOMAIN timers /\ timers' \in Kept(timers, I)
  BY DEF TimersTypeOK, CancelTimer
<1> HIDE DEF I
<1>2. timers' \in Seq(Timer)
  BY <1>1, KeptType
<1>3. TimersUnique'
  BY <1>1, KeptTimersUnique
<1> QED
  BY <1>2, <1>3 DEF TimersTypeOK, CancelTimer

(* Resume of a plain callback schedules one timer. *)
LEMMA ResumeCallbackKeeps ==
    ASSUME TimersTypeOK, TimersUnique, NEW s \in Structs, ResumeCallback(s)
    PROVE  TimersTypeOK' /\ TimersUnique'
<1> DEFINE id == IF aee[s][1] # NullPtr THEN aee[s] ELSE <<s, NullPtr>>
<1>1. id \in TimerIds /\ 0 \in Delays
  BY ShellAssumption DEF TimersTypeOK, TimerIds, Delays
<1> HIDE DEF id
<1>2. ScheduleTimer(0, id)
  BY DEF ResumeCallback, id
<1> QED
  BY <1>1, <1>2, ScheduleTimerKeeps DEF TimersTypeOK, ResumeCallback

(* A store to a callback structure leaves the timers alone. *)
LEMMA WriteStructKeeps ==
    ASSUME TimersTypeOK, TimersUnique, NEW s \in Structs,
           NEW id \in (Callbacks \cup {NullPtr}) \X Users, WriteStruct(s, id)
    PROVE  TimersTypeOK' /\ TimersUnique'
BY DEF TimersTypeOK, TimersUnique, WriteStruct

(* A tick: the vector keeps its types and stays free of doubles. *)
LEMMA TickTimersKeeps ==
    ASSUME TimersTypeOK, TimersUnique, TickTimers
    PROVE  TimersTypeOK' /\ TimersUnique'
<1> DEFINE aged == [i \in DOMAIN timers |->
                       [id |-> timers[i].id, left |-> timers[i].left - 1]]
           I == DOMAIN timers \ Expiring
           alive == [i \in DOMAIN timers |-> IF i \in I THEN aged[i] ELSE timers[i]]
<1>1. timers \in Seq(Timer) /\ DOMAIN timers = 1..Len(timers) /\ Len(timers) \in Nat
  BY DEF TimersTypeOK
<1>0. \A i \in DOMAIN timers : timers[i] \in Timer
  BY <1>1
<1>2. \A i \in DOMAIN timers : timers[i].id \in TimerIds /\ timers[i].left \in 0..MaxDelay
  BY <1>0 DEF Timer, Delays
<1>3. \A i \in I : timers[i].left > 1 /\ timers[i].left - 1 \in 0..MaxDelay
  BY <1>2, ShellAssumption DEF Expiring
<1>4. ASSUME NEW i \in DOMAIN timers
      PROVE  alive[i] \in Timer /\ alive[i].id = timers[i].id
  <2>1. CASE i \in I
    <3>1. alive[i] = [id |-> timers[i].id, left |-> timers[i].left - 1]
      BY <2>1
    <3> HIDE DEF alive
    <3> QED
      BY <1>2, <1>3, <2>1, <3>1 DEF Timer, Delays
  <2>2. CASE i \notin I
    BY <1>0, <2>2
  <2> QED
    BY <2>1, <2>2
<1>5. alive \in Seq(Timer) /\ DOMAIN alive = DOMAIN timers
  BY <1>1, <1>4
<1>6. I \in SUBSET DOMAIN timers
  OBVIOUS
<1>7. timers' \in Kept(alive, I)
  <2>1. timers' \in Kept(aged, I)
    BY DEF TickTimers
  <2>2. Len(aged) = Len(timers) /\ Len(alive) = Len(timers)
    BY <1>1
  <2>3. \A i \in I : aged[i] = alive[i]
    BY <1>6
  <2> HIDE DEF aged, alive, I
  <2>4. PICK n \in 0..Len(aged) : \E g \in [1..n -> I] :
           Lists(g, I) /\ timers' = [j \in 1..n |-> aged[g[j]]]
    BY <2>1, KeptListed
  <2>5. PICK f \in [1..n -> I] : Lists(f, I) /\ timers' = [j \in 1..n |-> aged[f[j]]]
    BY <2>4
  <2>6. timers' = [j \in 1..n |-> alive[f[j]]]
    BY <2>3, <2>5
  <2>7. n \in 0..Len(alive)
    BY <2>2
  <2> QED
    BY <2>5, <2>6, <2>7 DEF Kept
<1> HIDE DEF aged, alive, I
<1>8. timers' \in Seq(Timer)
  BY <1>5, <1>6, <1>7, KeptType
<1>9. TimersUnique'
  BY <1>1, <1>4, <1>5, <1>6, <1>7, KeptTimersUnique
<1> QED
  BY <1>8, <1>9 DEF TimersTypeOK, TickTimers

(* What Tick returns is a vector of identities. *)
LEMMA ExpiredType ==
    ASSUME TimersTypeOK, NEW r \in Expired
    PROVE  r \in Seq(TimerIds)
<1> DEFINE ids == [i \in DOMAIN timers |-> timers[i].id]
<1>1. timers \in Seq(Timer) /\ DOMAIN timers = 1..Len(timers) /\ Len(timers) \in Nat
  BY DEF TimersTypeOK
<1>0. \A i \in DOMAIN timers : timers[i] \in Timer
  BY <1>1
<1>2. \A i \in DOMAIN timers : timers[i].id \in TimerIds
  BY <1>0 DEF Timer
<1>3. ids \in Seq(TimerIds) /\ DOMAIN ids = DOMAIN timers
  BY <1>1, <1>2
<1>4. r \in Kept(ids, Expiring)
  BY DEF Expired
<1>5. Expiring \in SUBSET DOMAIN ids
  BY DEF Expiring
<1> HIDE DEF ids
<1> QED
  BY <1>3, <1>4, <1>5, KeptType

-----------------------------------------------------------------------------
(* What each operation on the threads preserves: the types, that an object *)
(* in use was created, and that a started thread stays accounted for.      *)

ThreadsInv ==
    /\ ThreadsTypeOK
    /\ \A t \in Threads : Exists(t) => t \in created
    /\ started \subseteq created

(* A started, unfinished thread waits in the queue or for its Resume. *)
Accounted(t) ==
    Exists(t) /\ t \in started \ finished => t \in Elems(pending) \/ t \in suspended

(* The methods of IThread and IThread creation. *)
LEMMA CreateThreadKeeps ==
    ASSUME ThreadsInv, NEW t \in Threads, CreateThreadObject(t)
    PROVE  ThreadsInv' /\ \A u \in Threads : Accounted(u) => Accounted(u)'
<1>1. refs' = [refs EXCEPT ![t] = 1] /\ created' = created \cup {t} /\ t \notin created
      /\ UNCHANGED <<started, finished, suspended, cbks, pending>>
  BY DEF CreateThreadObject
<1>2. refs' \in [Threads -> 0..MaxRefs]
  BY <1>1, ThreadAssumption DEF ThreadsInv, ThreadsTypeOK
<1>3. \A u \in Threads : u # t => refs'[u] = refs[u]
  BY <1>1 DEF ThreadsInv, ThreadsTypeOK
<1>4. ThreadsInv'
  BY <1>1, <1>2, <1>3 DEF ThreadsInv, ThreadsTypeOK, Exists
<1>5. \A u \in Threads : Accounted(u) => Accounted(u)'
  BY <1>1, <1>3 DEF ThreadsInv, Accounted, Exists
<1> QED
  BY <1>4, <1>5

(* Another reference changes no thread's standing. *)
LEMMA AddRefKeeps ==
    ASSUME ThreadsInv, NEW t \in Threads, AddRef(t)
    PROVE  ThreadsInv' /\ \A u \in Threads : Accounted(u) => Accounted(u)'
<1>1. refs' = [refs EXCEPT ![t] = refs[t] + 1] /\ refs[t] > 0 /\ refs[t] < MaxRefs
      /\ UNCHANGED <<created, started, finished, suspended, cbks, pending>>
  BY DEF AddRef, Exists
<1>2. refs' \in [Threads -> 0..MaxRefs]
  BY <1>1, ThreadAssumption DEF ThreadsInv, ThreadsTypeOK
<1>3. \A u \in Threads : refs'[u] > 0 <=> refs[u] > 0
  BY <1>1, ThreadAssumption DEF ThreadsInv, ThreadsTypeOK
<1> QED
  BY <1>1, <1>2, <1>3 DEF ThreadsInv, ThreadsTypeOK, Exists, Accounted

(* The last reference takes the thread out of the account. *)
LEMMA ReleaseKeeps ==
    ASSUME ThreadsInv, NEW t \in Threads, Release(t)
    PROVE  ThreadsInv' /\ \A u \in Threads : Accounted(u) => Accounted(u)'
<1> DEFINE I == {i \in DOMAIN pending : pending[i] # t}
<1>1. refs' = [refs EXCEPT ![t] = refs[t] - 1] /\ refs[t] > 0
      /\ UNCHANGED <<created, started, finished, suspended>>
  BY DEF Release, Exists
<1>2. refs' \in [Threads -> 0..MaxRefs]
  BY <1>1, ThreadAssumption DEF ThreadsInv, ThreadsTypeOK
<1>3. \A u \in Threads : refs'[u] > 0 => refs[u] > 0
  BY <1>1, ThreadAssumption DEF ThreadsInv, ThreadsTypeOK
<1>4. CASE refs[t] > 1 /\ UNCHANGED <<cbks, pending>>
  BY <1>1, <1>2, <1>3, <1>4 DEF ThreadsInv, ThreadsTypeOK, Exists, Accounted
<1>5. CASE refs[t] = 1 /\ cbks' = cbks \ {t} /\ pending' \in Kept(pending, I)
  <2>1. pending \in Seq(Threads) /\ I \in SUBSET DOMAIN pending
    BY DEF ThreadsInv, ThreadsTypeOK
  <2>2. pending' \in Seq(Threads)
    BY <1>5, <2>1, KeptType
  <2>3. refs'[t] = 0
    BY <1>1, <1>5 DEF ThreadsInv, ThreadsTypeOK
  <2>4. \A u \in Threads : u # t /\ u \in Elems(pending) => \E i \in I : pending[i] = u
    BY DEF Elems
  <2>5. \A u \in Threads : u # t /\ u \in Elems(pending) => u \in Elems(pending')
    <3> HIDE DEF I
    <3> QED
      BY <1>5, <2>1, <2>4, KeptElems
  <2>6. ThreadsInv'
    BY <1>1, <1>2, <1>3, <1>5, <2>2 DEF ThreadsInv, ThreadsTypeOK, Exists
  <2>7. \A u \in Threads : Accounted(u) => Accounted(u)'
    BY <1>1, <1>3, <2>3, <2>5 DEF Exists, Accounted
  <2> QED
    BY <2>6, <2>7
<1> QED
  BY <1>4, <1>5 DEF Release

(* A thread that starts is queued. *)
LEMMA StartKeeps ==
    ASSUME ThreadsInv, NEW t \in Threads, Start(t)
    PROVE  ThreadsInv' /\ \A u \in Threads : Accounted(u) => Accounted(u)'
<1>1. pending \in Seq(Threads)
  BY DEF ThreadsInv, ThreadsTypeOK
<1>2. Append(pending, t) \in Seq(Threads) /\ Elems(Append(pending, t)) = Elems(pending) \cup {t}
  BY <1>1, PushElems
<1>3. Exists(t) /\ UNCHANGED <<created, refs, finished, suspended, cbks>>
  BY DEF Start
<1>4. CASE started' = started \cup {t} /\ pending' = Append(pending, t)
  BY <1>2, <1>3, <1>4 DEF ThreadsInv, ThreadsTypeOK, Exists, Accounted
<1>5. CASE UNCHANGED <<started, pending>>
  BY <1>3, <1>5 DEF ThreadsInv, ThreadsTypeOK, Exists, Accounted
<1> QED
  BY <1>4, <1>5 DEF Start

(* A thread that ends is finished. *)
LEMMA FinishKeeps ==
    ASSUME ThreadsInv, NEW t \in Threads, FinishThread(t)
    PROVE  ThreadsInv' /\ \A u \in Threads : Accounted(u) => Accounted(u)'
BY DEF ThreadsInv, ThreadsTypeOK, Exists, Accounted, FinishThread

(* A thread that suspends itself is suspended. *)
LEMMA SuspendKeeps ==
    ASSUME ThreadsInv, NEW t \in Threads, Suspend(t)
    PROVE  ThreadsInv' /\ \A u \in Threads : Accounted(u) => Accounted(u)'
BY DEF ThreadsInv, ThreadsTypeOK, Exists, Accounted, Suspend

(* Asking for the resume block changes no thread's standing. *)
LEMMA GetResumeCBKKeeps ==
    ASSUME ThreadsInv, NEW t \in Threads, GetResumeCBK(t)
    PROVE  ThreadsInv' /\ \A u \in Threads : Accounted(u) => Accounted(u)'
BY DEF ThreadsInv, ThreadsTypeOK, Exists, Accounted, GetResumeCBK

(* A resumed thread, and one that yielded, is in the queue. *)
LEMMA ResumeByCallbackKeeps ==
    ASSUME ThreadsInv, NEW t \in Threads, ResumeByCallback(t)
    PROVE  ThreadsInv' /\ \A u \in Threads : Accounted(u) => Accounted(u)'
<1>1. PushOnce(pending, t) \in Seq(Threads) /\ Elems(PushOnce(pending, t)) = Elems(pending) \cup {t}
  BY PushOnceElems DEF ThreadsInv, ThreadsTypeOK
<1> QED
  BY <1>1 DEF ThreadsInv, ThreadsTypeOK, Exists, Accounted, ResumeByCallback

(* A thread that slept is suspended and in the queue. *)
LEMMA RequeueKeeps ==
    ASSUME ThreadsInv, NEW t \in Threads, RequeueThread(t)
    PROVE  ThreadsInv' /\ Accounted(t)' /\ \A u \in Threads : Accounted(u) => Accounted(u)'
<1>1. PushOnce(pending, t) \in Seq(Threads) /\ Elems(PushOnce(pending, t)) = Elems(pending) \cup {t}
  BY PushOnceElems DEF ThreadsInv, ThreadsTypeOK
<1> QED
  BY <1>1 DEF ThreadsInv, ThreadsTypeOK, Exists, Accounted, RequeueThread

(* Taking the queue, and waking the thread whose slice begins. *)
LEMMA TakeKeeps ==
    ASSUME ThreadsInv, TakePendingThreads
    PROVE  ThreadsInv'
BY DEF ThreadsInv, ThreadsTypeOK, Exists, TakePendingThreads

(* Waking a thread for its slice leaves the other threads accounted for. *)
LEMMA WakeKeeps ==
    ASSUME ThreadsInv, NEW t \in Threads, WakeThread(t)
    PROVE  ThreadsInv' /\ \A u \in Threads : u # t /\ Accounted(u) => Accounted(u)'
BY DEF ThreadsInv, ThreadsTypeOK, Exists, Accounted, WakeThread

-----------------------------------------------------------------------------

ShellInv == TimersTypeOK /\ TimersUnique

Kinds == YieldKinds \cup {"host"}

FlowTypes ==
    /\ phase \in Phases
    /\ run \in [kind : Kinds, who : Activities] \cup {NoRun}
    /\ calls \in 0..MaxCalls
    /\ cpu \in Activities \cup {Idle}
    /\ saved \in Activities \cup {Idle, NoContext}
    /\ cont \in BOOLEAN /\ yieldReq \in BOOLEAN
    /\ due \in Seq(TimerIds)
    /\ slices \in Seq(Threads)
    /\ sigs \subseteq Signals
    /\ sigQueue \in Seq(Signals)
    /\ drainTick \in 0..MaxDrainTicks
    /\ hit \in BOOLEAN /\ paused \in BOOLEAN /\ injected \subseteq Injections /\ running \in BOOLEAN
    /\ crashed \subseteq Threads

(* The phases in which each kind of guest call is made. *)
CallsInPlace ==
    /\ run.kind = "host" => phase \in {"boot", "handlers", "keys", "media", "inject", "widgets"}
    /\ run.kind = "drained" => phase = "drainTimers"
    /\ run.kind = "signal" => phase = "signals"
    /\ run.kind = "preempt" => phase = "preempting"
    /\ run.kind = "resumed" => phase = "resume"
    /\ run.kind = "timer" => phase = "timers"
    /\ run.kind = "thread" => phase \in {"startThreads", "drainThreads", "threads"} /\ run.who \in Threads

FlowInv ==
    /\ FlowTypes
    /\ CallsInPlace
    /\ run.kind = "thread" \/ phase = "preempting" => saved # NoContext
    /\ phase \in {"drainThreads", "drainTimers"} => drainTick < MaxDrainTicks
    /\ phase \notin {"startThreads", "drainThreads", "threads"} => slices = <<>>

-----------------------------------------------------------------------------
(* The type invariant of the runs is the typing half of these invariants. *)
LEMMA TypesOfInv ==
    ASSUME ShellInv, ThreadsInv, FlowInv
    PROVE  LoopTypeOK
BY DEF ShellInv, ThreadsInv, FlowInv, FlowTypes, LoopTypeOK, Kinds

(* The initial states satisfy the three invariants. *)
LEMMA InvInit ==
    ASSUME LoopInit
    PROVE  ShellInv /\ ThreadsInv /\ FlowInv
<1>1. ShellInv
  <2>1. timers = <<>> /\ aee \in [Structs -> (Callbacks \cup {NullPtr}) \X Users]
    BY DEF LoopInit, TimersInit
  <2>2. timers \in Seq(Timer) /\ DOMAIN timers = {}
    BY <2>1
  <2> QED
    BY <2>1, <2>2 DEF ShellInv, TimersTypeOK, TimersUnique
<1>2. ThreadsInv
  <2>1. refs = [t \in Threads |-> 0] /\ created = {} /\ started = {} /\ finished = {}
        /\ suspended = {} /\ cbks = {} /\ pending = <<>>
    BY DEF LoopInit, ThreadsInit
  <2>2. refs \in [Threads -> 0..MaxRefs]
    BY <2>1, ThreadAssumption
  <2>3. pending \in Seq(Threads)
    BY <2>1
  <2> QED
    BY <2>1, <2>2, <2>3 DEF ThreadsInv, ThreadsTypeOK, Exists
<1>3. FlowInv
  <2>1. <<>> \in Seq(TimerIds) /\ <<>> \in Seq(Threads) /\ <<>> \in Seq(Signals)
    OBVIOUS
  <2>2. run \in [kind : Kinds, who : Activities] /\ run.kind = "host"
    BY DEF LoopInit, Activities, Kinds
  <2>3. calls \in 0..MaxCalls /\ drainTick \in 0..MaxDrainTicks
    BY LoopAssumption DEF LoopInit
  <2>4. FlowTypes
    BY <2>1, <2>2, <2>3 DEF LoopInit, FlowTypes, Phases, BootPhases, Activities
  <2>5. CallsInPlace
    BY <2>2 DEF LoopInit, CallsInPlace
  <2> QED
    BY <2>2, <2>4, <2>5 DEF LoopInit, FlowInv
<1> QED
  BY <1>1, <1>2, <1>3

-----------------------------------------------------------------------------
(* Only guest calls and ticks touch the timers. *)
LEMMA ShellStep ==
    ASSUME ShellInv, LoopNext
    PROVE  ShellInv'
<1>1. ASSUME UNCHANGED shellVars PROVE ShellInv'
  BY <1>1 DEF shellVars, ShellInv, TimersTypeOK, TimersUnique
<1>2. ASSUME TickTimers PROVE ShellInv'
  BY <1>2, TickTimersKeeps DEF ShellInv
<1>3. CASE GuestTimerCall
  <2>1. TimerCalls /\ TimersTypeOK /\ TimersUnique
    BY <1>3 DEF GuestTimerCall, ShellInv
  <2>2. CASE \E d \in Delays, cb \in Callbacks, user \in Users : SetTimer(d, cb, user)
    BY <2>1, <2>2, SetTimerKeeps DEF ShellInv
  <2>3. CASE \E d \in Delays, s \in Structs : SetTimer(d, s, s)
    BY <2>1, <2>3, SetTimerKeeps DEF ShellInv
  <2>4. CASE \E cb \in Callbacks \cup {NullPtr}, user \in Users : CancelTimer(cb, user)
    BY <2>1, <2>4, CancelTimerKeeps DEF ShellInv
  <2>5. CASE \E s \in Structs : CancelTimer(s, s) \/ ResumeCallback(s)
    BY <2>1, <2>5, CancelTimerKeeps, ResumeCallbackKeeps DEF ShellInv
  <2>6. CASE \E s \in Structs, id \in (Callbacks \cup {NullPtr}) \X Users : WriteStruct(s, id)
    BY <2>1, <2>6, WriteStructKeeps DEF ShellInv
  <2> QED
    BY <2>1, <2>2, <2>3, <2>4, <2>5, <2>6 DEF TimerCalls
<1>4. CASE GuestThreadCall \/ GuestSleep \/ GuestSuspend \/ GuestSignalCall \/ GuestHit
  BY <1>1, <1>4 DEF GuestThreadCall, GuestSleep, GuestSuspend, GuestSignalCall, GuestHit
<1>5. CASE Drain
  BY <1>1, <1>2, <1>5 DEF Drain, DrainTick, DrainIdle, DrainStop, EndPass, Skip, BeginDrained,
                          EndDrained, DrainNext
<1>6. CASE Input \/ HidSignals \/ Gate
  BY <1>1, <1>6 DEF Input, Control, HostKey, HostCall, HidEdge, NoKey, Skip, HidSignals,
                    SkipSignals, DropSignal, BeginSignal, EndSignal, Gate
<1>7. CASE HostCalls
  BY <1>1, <1>7 DEF HostCalls, HostDone, MediaTick, NoMedia, Inject, NoInject, BootHandlers,
                  NoHandlers, WidgetDraw, NoDraw,
                    HostCall, Skip
<1>8. CASE PreemptTimers
  BY <1>1, <1>2, <1>8 DEF PreemptTimers, NoPreempt, PreemptTick, BeginPreempting, PreemptRestore,
                          EndPreempting, Skip
<1>9. CASE Resume
  BY <1>1, <1>9 DEF Resume, NoResume, BeginResume, ResumeNothing, EndResume, Skip
<1>10. CASE Slices
  BY <1>1, <1>10 DEF Slices, TakeThreads, BeginSlice, SkipSlice, EndPass, EndSlice, Skip
<1>11. CASE Timers
  BY <1>1, <1>2, <1>11 DEF Timers, SkipTimers, TimerTick, BeginTimer, TimersDone, EndTimer, Skip
<1>12. CASE Again \/ Stop \/ Stopped
  BY <1>1, <1>12 DEF Again, Stop, Stopped, Skip, vars
<1> QED
  BY <1>3, <1>4, <1>5, <1>6, <1>7, <1>8, <1>9, <1>10, <1>11, <1>12 DEF LoopNext, Guest, Loop
-----------------------------------------------------------------------------
(* A guest call on threads keeps every thread accounted for. *)
LEMMA ThreadCallKeeps ==
    ASSUME ThreadsInv, ThreadCalls
    PROVE  ThreadsInv' /\ \A u \in Threads : Accounted(u) => Accounted(u)'
<1>1. PICK t \in Threads :
         \/ CreateThreadObject(t) \/ AddRef(t) \/ Release(t) \/ Start(t)
         \/ GetResumeCBK(t) \/ ResumeByCallback(t) \/ FinishThread(t)
  BY DEF ThreadCalls
<1> QED
  BY <1>1, CreateThreadKeeps, AddRefKeeps, ReleaseKeeps, StartKeeps, GetResumeCBKKeeps,
     ResumeByCallbackKeeps, FinishKeeps

(* The end of a slice leaves its thread accounted for, unless it threw. *)
LEMMA AfterSliceKeeps ==
    ASSUME ThreadsInv, NEW t \in Threads, NEW o \in Outcomes, AfterSlice(t, o)
    PROVE  /\ ThreadsInv'
           /\ \A u \in Threads : Accounted(u) => Accounted(u)'
           /\ o = "throw" \/ Accounted(t)'
<1>1. CASE (t \in finished \/ t \in suspended \/ o = "throw") /\ UNCHANGED threadVars
  BY <1>1 DEF threadVars, ThreadsInv, ThreadsTypeOK, Exists, Accounted
<1>2. CASE RequeueThread(t)
  BY <1>2, RequeueKeeps
<1>3. CASE FinishThread(t)
  BY <1>3, FinishKeeps DEF FinishThread, Accounted
<1> QED
  BY <1>1, <1>2, <1>3 DEF AfterSlice

(* Only guest calls, slices and the taking of the queue touch the threads. *)
LEMMA ThreadsStep ==
    ASSUME ThreadsInv, FlowInv, LoopNext
    PROVE  ThreadsInv'
<1>1. ASSUME UNCHANGED threadVars PROVE ThreadsInv'
  BY <1>1 DEF threadVars, ThreadsInv, ThreadsTypeOK, Exists
<1>2. ASSUME TakePendingThreads PROVE ThreadsInv'
  BY <1>2, TakeKeeps
<1>3. CASE GuestThreadCall
  BY <1>3, ThreadCallKeeps DEF GuestThreadCall
<1>4. CASE GuestSuspend
  BY <1>4, SuspendKeeps DEF GuestSuspend
<1>5. CASE GuestTimerCall \/ GuestSleep \/ GuestSignalCall \/ GuestHit
  BY <1>1, <1>5 DEF GuestTimerCall, GuestSleep, GuestSignalCall, GuestHit
<1>6. CASE Drain
  BY <1>1, <1>2, <1>6 DEF Drain, DrainTick, DrainIdle, DrainStop, EndPass, Skip, BeginDrained,
                          EndDrained, DrainNext
<1>7. CASE Input \/ HidSignals \/ Gate
  BY <1>1, <1>7 DEF Input, Control, HostKey, HostCall, HidEdge, NoKey, Skip, HidSignals,
                    SkipSignals, DropSignal, BeginSignal, EndSignal, Gate
<1>8. CASE HostCalls
  BY <1>1, <1>8 DEF HostCalls, HostDone, MediaTick, NoMedia, Inject, NoInject, BootHandlers,
                  NoHandlers, WidgetDraw, NoDraw,
                    HostCall, Skip
<1>9. CASE PreemptTimers
  BY <1>1, <1>9 DEF PreemptTimers, NoPreempt, PreemptTick, BeginPreempting, PreemptRestore,
                    EndPreempting, Skip
<1>10. CASE Resume
  BY <1>1, <1>10 DEF Resume, NoResume, BeginResume, ResumeNothing, EndResume, Skip
<1>11. CASE Slices
  <2>1. CASE BeginSlice
    <3>1. Head(slices) \in Threads /\ WakeThread(Head(slices))
      BY <2>1, PopElems DEF BeginSlice, FlowInv, FlowTypes
    <3> QED
      BY <3>1, WakeKeeps
  <2>2. CASE \E o \in Outcomes : EndSlice(o)
    BY <2>2, AfterSliceKeeps DEF EndSlice, Leave, FlowInv, CallsInPlace
  <2>3. CASE \/ TakeThreads("start", "startThreads") \/ TakeThreads("take", "threads") \/ SkipSlice
             \/ EndPass("startThreads", "handlers") \/ EndPass("threads", "tick")
    BY <1>1, <1>2, <2>3 DEF TakeThreads, SkipSlice, EndPass, Skip
  <2> QED
    BY <1>11, <2>1, <2>2, <2>3 DEF Slices
<1>12. CASE Timers
  BY <1>1, <1>12 DEF Timers, SkipTimers, TimerTick, BeginTimer, TimersDone, EndTimer, Skip
<1>13. CASE Again \/ Stop \/ Stopped
  BY <1>1, <1>13 DEF Again, Stop, Stopped, Skip, vars
<1> QED
  BY <1>3, <1>4, <1>5, <1>6, <1>7, <1>8, <1>9, <1>10, <1>11, <1>12, <1>13 DEF LoopNext, Guest, Loop

-----------------------------------------------------------------------------
(* What entering and leaving guest code do to the loop's own state. *)
LEMMA EnterFacts ==
    ASSUME NEW kind \in Kinds, NEW who \in Activities, Enter(kind, who)
    PROVE  /\ run' \in [kind : Kinds, who : Activities]
           /\ run'.kind = kind /\ run'.who = who /\ run' # NoRun
           /\ calls' = 0 /\ cpu' = who
BY LoopAssumption DEF Enter, Kinds, NoRun

(* Leaving guest code ends the call and touches nothing else. *)
LEMMA LeaveFacts ==
    ASSUME NEW kind, NEW o, yieldReq \in BOOLEAN, Leave(kind, o)
    PROVE  /\ run.kind = kind
           /\ run' = NoRun /\ run'.kind = "none" /\ calls' = 0
           /\ yieldReq' \in BOOLEAN
           /\ kind \in YieldKinds => ~yieldReq'
BY DEF Leave, NoRun, Yielding

(* A phase left with nothing to do. *)
LEMMA SkipKeepsFlow ==
    ASSUME FlowInv, NEW p, NEW q \in Phases \ {"preempting"}, Skip(p, q), slices = <<>>,
           q \in {"drainThreads", "drainTimers"} => drainTick < MaxDrainTicks
    PROVE  FlowInv'
<1>1. run = NoRun /\ run.kind = "none" /\ phase' = q
      /\ UNCHANGED <<run, calls, ctxVars, workVars, flagVars>>
  BY DEF Skip, InGuest, NoRun, Goto
<1>2. UNCHANGED <<run, calls, cpu, saved, cont, yieldReq, due, slices, sigs, sigQueue,
                  drainTick, hit, paused, injected, running, crashed>>
  BY <1>1 DEF ctxVars, workVars, flagVars
<1>3. FlowTypes'
  BY <1>1, <1>2 DEF FlowInv, FlowTypes
<1>4. CallsInPlace'
  BY <1>1, <1>2 DEF CallsInPlace
<1> QED
  BY <1>1, <1>2, <1>3, <1>4 DEF FlowInv

(* A guest function called from a phase outside the scheduler, and its end. *)
LEMMA HostCallKeepsFlow ==
    ASSUME FlowInv, NEW p \in {"boot", "handlers", "keys", "media", "inject", "widgets"}, HostCall(p),
           UNCHANGED <<drainTick, hit, paused, running, crashed>>, injected' \subseteq Injections
    PROVE  FlowInv'
<1>1. /\ run' \in [kind : Kinds, who : Activities] /\ run'.kind = "host" /\ calls' = 0
      /\ cpu' = Host /\ Host \in Activities
  BY EnterFacts DEF HostCall, Activities, Kinds
<1>2. phase = p /\ run.kind = "none"
      /\ UNCHANGED <<phase, saved, cont, yieldReq, due, slices, sigs, sigQueue>>
  BY DEF HostCall, InGuest, NoRun, workVars
<1>3. FlowTypes'
  BY <1>1, <1>2, LoopAssumption DEF FlowInv, FlowTypes
<1>4. CallsInPlace'
  BY <1>1, <1>2 DEF CallsInPlace
<1> QED
  BY <1>1, <1>2, <1>3, <1>4 DEF FlowInv

(* The end of such a function, whatever its outcome. *)
LEMMA HostDoneKeepsFlow ==
    ASSUME FlowInv, HostDone
    PROVE  FlowInv'
<1>1. run.kind = "host" /\ run' = NoRun /\ run'.kind = "none" /\ calls' = 0
      /\ yieldReq' \in BOOLEAN /\ cpu' = Idle
  BY LeaveFacts DEF HostDone, FlowInv, FlowTypes
<1>2. UNCHANGED <<saved, cont, due, slices, sigs, sigQueue,
                  drainTick, hit, paused, injected, running, crashed>>
  BY DEF HostDone, workVars, flagVars
<1>3. phase' \in {"start", "drain", "keys", "preempt", "inject", "finish"}
      /\ phase \in {"boot", "handlers", "keys", "media", "inject", "widgets"}
  BY <1>1 DEF HostDone, Goto, AfterHost, FlowInv, CallsInPlace
<1>4. FlowTypes'
  BY <1>1, <1>2, <1>3, LoopAssumption DEF FlowInv, FlowTypes, Phases, BootPhases
<1>5. CallsInPlace'
  BY <1>1 DEF CallsInPlace
<1> QED
  BY <1>1, <1>2, <1>3, <1>4, <1>5 DEF FlowInv

(* Guest calls: the loop's own state moves only in calls, yieldReq, sigs,
   sigQueue and hit. *)
LEMMA GuestKeepsFlow ==
    ASSUME FlowInv, Guest
    PROVE  FlowInv'
<1>1. UNCHANGED <<phase, run, cpu, saved, cont, due, slices,
                  drainTick, paused, injected, running, crashed>>
  BY DEF Guest, GuestTimerCall, GuestThreadCall, GuestSleep, GuestSuspend, GuestSignalCall, GuestHit,
         ctxVars, workVars, flagVars
<1>2. calls' \in 0..MaxCalls
  BY LoopAssumption DEF Guest, GuestTimerCall, GuestThreadCall, GuestSleep, GuestSuspend,
         GuestSignalCall, GuestHit, GuestActive, FlowInv, FlowTypes
<1>3. yieldReq' \in BOOLEAN /\ hit' \in BOOLEAN
  BY DEF Guest, GuestTimerCall, GuestThreadCall, GuestSleep, GuestSuspend, GuestSignalCall, GuestHit,
         ctxVars, workVars, flagVars, FlowInv, FlowTypes
<1>4. sigs' \subseteq Signals /\ sigQueue' \in Seq(Signals)
  <2>1. CASE GuestSignalCall
    <3>1. PICK s \in sigs : \/ /\ GuestSets /\ Len(sigQueue) < MaxQueue
                              /\ sigQueue' = Append(sigQueue, s)
                              /\ UNCHANGED sigs
                           \/ /\ sigs' = sigs \ {s}
                              /\ UNCHANGED sigQueue
      BY <2>1 DEF GuestSignalCall
    <3>2. s \in Signals /\ sigs \subseteq Signals /\ sigQueue \in Seq(Signals)
      BY DEF FlowInv, FlowTypes
    <3>3. CASE sigQueue' = Append(sigQueue, s) /\ UNCHANGED sigs
      BY <3>2, <3>3
    <3>4. CASE sigs' = sigs \ {s} /\ UNCHANGED sigQueue
      BY <3>2, <3>4
    <3> QED
      BY <3>1, <3>3, <3>4
  <2>2. CASE GuestTimerCall \/ GuestThreadCall \/ GuestSleep \/ GuestSuspend \/ GuestHit
    BY <2>2 DEF GuestTimerCall, GuestThreadCall, GuestSleep, GuestSuspend, GuestHit, workVars,
                FlowInv, FlowTypes
  <2> QED
    BY <2>1, <2>2 DEF Guest
<1>5. FlowTypes'
  BY <1>1, <1>2, <1>3, <1>4 DEF FlowInv, FlowTypes
<1>6. CallsInPlace'
  BY <1>1 DEF FlowInv, CallsInPlace
<1> QED
  BY <1>1, <1>5, <1>6 DEF FlowInv

(* The boot drain: ticks, slices and drained timers. *)
LEMMA DrainKeepsFlow ==
    ASSUME ShellInv, ThreadsInv, FlowInv, Drain
    PROVE  FlowInv'
<1>1. CASE DrainTick
  <2>1. due' \in Seq(TimerIds) /\ slices' \in Seq(Threads)
    BY <1>1, ExpiredType DEF DrainTick, ShellInv, ThreadsInv, ThreadsTypeOK
  <2>2. FlowTypes' /\ CallsInPlace'
    BY <1>1, <2>1 DEF DrainTick, FlowInv, FlowTypes, CallsInPlace, ctxVars, flagVars, Goto, Phases, BootPhases,
                      InGuest, NoRun
  <2> QED
    BY <1>1, <2>2 DEF DrainTick, DrainMore, FlowInv, Goto, ctxVars, flagVars, InGuest, NoRun
<1>2. CASE DrainIdle
  BY <1>2 DEF DrainIdle, FlowInv, FlowTypes, CallsInPlace, ctxVars, workVars, flagVars, Goto, Phases, BootPhases,
              InGuest, NoRun
<1>3. CASE DrainStop
  <2>1. slices = <<>> /\ Skip("drain", "control")
    BY <1>3 DEF DrainStop, Skip, FlowInv
  <2> QED
    BY <2>1, SkipKeepsFlow DEF Phases, BootPhases
<1>4. CASE EndPass("drainThreads", "drainTimers")
  <2>1. slices = <<>> /\ Skip("drainThreads", "drainTimers") /\ drainTick < MaxDrainTicks
    BY <1>4 DEF EndPass, Skip, FlowInv
  <2> QED
    BY <2>1, SkipKeepsFlow DEF Phases, BootPhases
<1>5. CASE BeginDrained
  <2>1. Head(due) \in TimerIds /\ Tail(due) \in Seq(TimerIds)
    BY <1>5, PopElems DEF BeginDrained, FlowInv, FlowTypes
  <2>2. /\ run' \in [kind : Kinds, who : Activities] /\ run'.kind = "drained"
        /\ calls' = 0 /\ cpu' \in Activities
    BY <1>5, <2>1, EnterFacts DEF BeginDrained, Activities, Kinds, YieldKinds
  <2>3. phase = "drainTimers"
        /\ UNCHANGED <<phase, saved, cont, slices, sigs, sigQueue,
                       drainTick, hit, paused, injected, running, crashed>>
    BY <1>5 DEF BeginDrained, flagVars
  <2>4. due' \in Seq(TimerIds) /\ yieldReq' \in BOOLEAN
    BY <1>5, <2>1 DEF BeginDrained
  <2>5. FlowTypes'
    BY <2>2, <2>3, <2>4, LoopAssumption DEF FlowInv, FlowTypes
  <2>6. CallsInPlace'
    BY <2>2, <2>3 DEF CallsInPlace
  <2> QED
    BY <2>2, <2>3, <2>5, <2>6 DEF FlowInv
<1>6. CASE \E o \in Outcomes : EndDrained(o)
  <2>1. PICK o \in Outcomes : EndDrained(o)
    BY <1>6
  <2>2. /\ run' = NoRun /\ run'.kind = "none" /\ calls' = 0 /\ yieldReq' \in BOOLEAN
        /\ run.kind = "drained"
    BY <2>1, LeaveFacts DEF EndDrained, FlowInv, FlowTypes
  <2>p. phase = "drainTimers"
    BY <2>2 DEF FlowInv, CallsInPlace
  <2>3. phase' \in {"control", "drainTimers"} /\ cont' \in BOOLEAN
        /\ due' \in Seq(TimerIds) /\ cpu' \in Activities \cup {Idle}
    <3>1. cpu' \in Activities \cup {Idle}
      BY <2>1 DEF EndDrained, Left, FlowInv, FlowTypes
    <3>2. CASE o = "yield"
      <4>1. cont' = TRUE /\ due' = <<>> /\ phase' = "control"
        BY <2>1, <3>2 DEF EndDrained, Goto
      <4> QED
        BY <3>1, <4>1
    <3>3. CASE o # "yield"
      <4>1. UNCHANGED <<cont, due, phase>>
        BY <2>1, <3>3 DEF EndDrained
      <4> QED
        BY <2>p, <3>1, <4>1 DEF FlowInv, FlowTypes
    <3> QED
      BY <3>2, <3>3
  <2>4. FlowTypes' /\ CallsInPlace'
    BY <2>1, <2>2, <2>p, <2>3, LoopAssumption DEF EndDrained, FlowInv, FlowTypes, CallsInPlace,
       flagVars, Phases, BootPhases
  <2> QED
    BY <2>1, <2>2, <2>p, <2>3, <2>4 DEF EndDrained, FlowInv, flagVars
<1>7. CASE DrainNext
  BY <1>7, LoopAssumption DEF DrainNext, FlowInv, FlowTypes, CallsInPlace, ctxVars, workVars, Goto,
     Phases, BootPhases, InGuest, NoRun
<1> QED
  BY <1>1, <1>2, <1>3, <1>4, <1>5, <1>6, <1>7 DEF Drain

(* Control commands, host keys, button edges and HID signals. *)
LEMMA InputKeepsFlow ==
    ASSUME FlowInv, Input \/ HidSignals \/ Gate
    PROVE  FlowInv'
<1>1. CASE Control
  BY <1>1 DEF Control, FlowInv, FlowTypes, CallsInPlace, ctxVars, workVars, Goto, Phases, BootPhases, InGuest,
              NoRun
<1>2. CASE HostKey
  BY <1>2, HostCallKeepsFlow DEF HostKey, flagVars, FlowInv, FlowTypes
<1>3. CASE HidEdge
  <2>1. PICK s \in sigs : sigQueue' = Append(sigQueue, s)
    BY <1>3 DEF HidEdge
  <2>2. sigQueue' \in Seq(Signals)
    BY <2>1 DEF FlowInv, FlowTypes
  <2> QED
    BY <1>3, <2>2 DEF HidEdge, FlowInv, FlowTypes, CallsInPlace, ctxVars, flagVars
<1>4. CASE NoKey \/ SkipSignals
  <2>1. slices = <<>> /\ (Skip("keys", "signals") \/ Skip("signals", "gate"))
    BY <1>4 DEF NoKey, SkipSignals, Skip, FlowInv
  <2> QED
    BY <2>1, SkipKeepsFlow DEF Phases, BootPhases
<1>5. CASE DropSignal
  <2>1. Tail(sigQueue) \in Seq(Signals)
    BY <1>5, PopElems DEF DropSignal, FlowInv, FlowTypes
  <2> QED
    BY <1>5, <2>1 DEF DropSignal, FlowInv, FlowTypes, CallsInPlace, ctxVars, flagVars
<1>6. CASE BeginSignal
  <2>1. Head(sigQueue) \in Signals /\ Tail(sigQueue) \in Seq(Signals)
    BY <1>6, PopElems DEF BeginSignal, FlowInv, FlowTypes
  <2>2. /\ run' \in [kind : Kinds, who : Activities] /\ run'.kind = "signal"
        /\ calls' = 0 /\ cpu' \in Activities
    BY <1>6, <2>1, EnterFacts DEF BeginSignal, Activities, Kinds, YieldKinds
  <2>3. FlowTypes' /\ CallsInPlace'
    BY <1>6, <2>1, <2>2, LoopAssumption
       DEF BeginSignal, FlowInv, FlowTypes, CallsInPlace, flagVars
  <2> QED
    BY <1>6, <2>2, <2>3 DEF BeginSignal, FlowInv, flagVars
<1>7. CASE \E o \in Outcomes : EndSignal(o)
  <2>1. PICK o \in Outcomes : EndSignal(o)
    BY <1>7
  <2>2. /\ run' = NoRun /\ run'.kind = "none" /\ calls' = 0 /\ yieldReq' \in BOOLEAN
        /\ run.kind = "signal"
    BY <2>1, LeaveFacts DEF EndSignal, FlowInv, FlowTypes
  <2>3. phase = "signals" /\ phase' \in {"signals", "gate"} /\ cont' \in BOOLEAN
        /\ running' \in BOOLEAN /\ cpu' \in Activities \cup {Idle}
    BY <2>1, <2>2 DEF EndSignal, Left, Goto, FlowInv, FlowTypes, CallsInPlace
  <2>4. FlowTypes' /\ CallsInPlace'
    BY <2>1, <2>2, <2>3, LoopAssumption DEF EndSignal, FlowInv, FlowTypes, CallsInPlace, workVars,
       Phases, BootPhases
  <2> QED
    BY <2>1, <2>2, <2>3, <2>4 DEF EndSignal, FlowInv, workVars
<1>8. CASE Gate
  BY <1>8 DEF Gate, FlowInv, FlowTypes, CallsInPlace, ctxVars, workVars, Goto, Phases, BootPhases, InGuest, NoRun
<1> QED
  BY <1>1, <1>2, <1>3, <1>4, <1>5, <1>6, <1>7, <1>8 DEF Input, HidSignals

(* Media notifications, the injected notification and widget drawing. *)
LEMMA HostCallsKeepFlow ==
    ASSUME FlowInv, HostCalls
    PROVE  FlowInv'
<1>1. CASE HostDone
  BY <1>1, HostDoneKeepsFlow
<1>2. CASE BootHandlers \/ MediaTick \/ WidgetDraw
  BY <1>2, HostCallKeepsFlow DEF BootHandlers, MediaTick, WidgetDraw, flagVars, FlowInv, FlowTypes
<1>3. CASE Inject
  <2>1. injected' \subseteq Injections
    BY <1>3 DEF Inject, FlowInv, FlowTypes
  <2> QED
    BY <1>3, <2>1, HostCallKeepsFlow DEF Inject
<1>4. CASE NoHandlers \/ NoMedia \/ NoInject \/ NoDraw
  <2>1. slices = <<>>
        /\ \/ Skip("handlers", "drain") \/ Skip("media", "preempt") \/ Skip("inject", "take")
           \/ Skip("widgets", "finish")
    BY <1>4 DEF NoHandlers, NoMedia, NoInject, NoDraw, Skip, FlowInv
  <2> QED
    BY <2>1, SkipKeepsFlow DEF Phases, BootPhases
<1> QED
  BY <1>1, <1>2, <1>3, <1>4 DEF HostCalls

(* Timers called over a sleeping callback. *)
LEMMA PreemptKeepsFlow ==
    ASSUME ShellInv, FlowInv, PreemptTimers
    PROVE  FlowInv'
<1>1. CASE NoPreempt
  <2>1. slices = <<>> /\ Skip("preempt", "resume")
    BY <1>1 DEF NoPreempt, Skip, FlowInv
  <2> QED
    BY <2>1, SkipKeepsFlow DEF Phases, BootPhases
<1>2. CASE PreemptTick
  <2>1. due' \in Seq(TimerIds)
    BY <1>2, ExpiredType DEF PreemptTick, ShellInv
  <2>2. phase = "preempt" /\ run.kind = "none"
        /\ UNCHANGED <<run, calls, cpu, cont, yieldReq, slices, sigs, sigQueue,
                       drainTick, hit, paused, injected, running, crashed>>
    BY <1>2 DEF PreemptTick, InGuest, NoRun, flagVars
  <2>3. \/ saved' = cpu /\ phase' = "preempting"
        \/ saved' = saved /\ phase' = "resume"
    BY <1>2 DEF PreemptTick, Goto
  <2>4. saved' \in Activities \cup {Idle, NoContext} /\ phase' \in {"preempting", "resume"}
        /\ (phase' = "preempting" => saved' # NoContext)
    BY <2>3, LoopAssumption DEF FlowInv, FlowTypes
  <2>5. FlowTypes'
    BY <2>1, <2>2, <2>4 DEF FlowInv, FlowTypes, Phases, BootPhases
  <2>6. CallsInPlace'
    BY <2>2 DEF CallsInPlace
  <2> QED
    BY <2>2, <2>4, <2>5, <2>6 DEF FlowInv
<1>3. CASE BeginPreempting
  <2>1. Head(due) \in TimerIds /\ Tail(due) \in Seq(TimerIds)
    BY <1>3, PopElems DEF BeginPreempting, FlowInv, FlowTypes
  <2>2. /\ run' \in [kind : Kinds, who : Activities] /\ run'.kind = "preempt"
        /\ calls' = 0 /\ cpu' \in Activities
    BY <1>3, <2>1, EnterFacts DEF BeginPreempting, Activities, Kinds, YieldKinds
  <2>3. phase = "preempting" /\ due' \in Seq(TimerIds) /\ yieldReq' \in BOOLEAN
        /\ UNCHANGED <<phase, saved, cont, slices, sigs, sigQueue,
                       drainTick, hit, paused, injected, running, crashed>>
    BY <1>3, <2>1 DEF BeginPreempting, flagVars
  <2>4. FlowTypes'
    BY <2>2, <2>3, LoopAssumption DEF FlowInv, FlowTypes
  <2>5. CallsInPlace'
    BY <2>2, <2>3 DEF CallsInPlace
  <2> QED
    BY <2>2, <2>3, <2>4, <2>5 DEF FlowInv
<1>4. CASE PreemptRestore
  <2>1. phase = "preempting" /\ phase' = "resume" /\ run.kind = "none" /\ cpu' = saved
        /\ saved' = NoContext
        /\ UNCHANGED <<run, calls, cont, yieldReq, due, slices, sigs, sigQueue,
                       drainTick, hit, paused, injected, running, crashed>>
    BY <1>4 DEF PreemptRestore, Goto, InGuest, NoRun, workVars, flagVars
  <2>2. cpu' \in Activities \cup {Idle}
    BY <2>1 DEF FlowInv, FlowTypes
  <2>3. FlowTypes'
    BY <2>1, <2>2 DEF FlowInv, FlowTypes, Phases, BootPhases
  <2>4. CallsInPlace'
    BY <2>1 DEF CallsInPlace
  <2> QED
    BY <2>1, <2>3, <2>4 DEF FlowInv
<1>5. CASE \E o \in Outcomes : EndPreempting(o)
  <2>1. PICK o \in Outcomes : EndPreempting(o)
    BY <1>5
  <2>2. /\ run' = NoRun /\ run'.kind = "none" /\ calls' = 0 /\ yieldReq' \in BOOLEAN
    BY <2>1, LeaveFacts DEF EndPreempting, FlowInv, FlowTypes
  <2>3. UNCHANGED <<phase, saved, cont, slices, sigs, sigQueue,
                    drainTick, hit, paused, injected, crashed>>
    BY <2>1 DEF EndPreempting
  <2>4. cpu' \in Activities \cup {Idle}
    BY <2>1 DEF EndPreempting, Left, FlowInv, FlowTypes
  <2>5. due' \in Seq(TimerIds) /\ running' \in BOOLEAN
    <3>1. \/ UNCHANGED <<due, running>>
          \/ due' = <<>> /\ running' = FALSE
      BY <2>1 DEF EndPreempting
    <3>2. <<>> \in Seq(TimerIds)
      OBVIOUS
    <3>3. due \in Seq(TimerIds) /\ running \in BOOLEAN
      BY DEF FlowInv, FlowTypes
    <3> QED
      BY <3>1, <3>2, <3>3
  <2>6. FlowTypes'
    BY <2>2, <2>3, <2>4, <2>5, LoopAssumption DEF FlowInv, FlowTypes
  <2>7. CallsInPlace'
    BY <2>2 DEF CallsInPlace
  <2> QED
    BY <2>2, <2>3, <2>6, <2>7 DEF FlowInv
<1> QED
  BY <1>1, <1>2, <1>3, <1>4, <1>5 DEF PreemptTimers

(* The resumption of the sleeping callback. *)
LEMMA ResumeKeepsFlow ==
    ASSUME FlowInv, Resume
    PROVE  FlowInv'
<1>1. CASE NoResume
  <2>1. slices = <<>> /\ Skip("resume", "inject")
    BY <1>1 DEF NoResume, Skip, FlowInv
  <2> QED
    BY <2>1, SkipKeepsFlow DEF Phases, BootPhases
<1>2. CASE BeginResume
  <2>1. cpu \in Activities
    BY <1>2 DEF BeginResume, FlowInv, FlowTypes
  <2>2. /\ run' \in [kind : Kinds, who : Activities] /\ run'.kind = "resumed"
        /\ calls' = 0 /\ cpu' \in Activities
    BY <1>2, <2>1, EnterFacts DEF BeginResume, Kinds, YieldKinds
  <2>3. phase = "resume"
        /\ UNCHANGED <<phase, saved, cont, yieldReq, due, slices, sigs, sigQueue,
                       drainTick, hit, paused, injected, running, crashed>>
    BY <1>2 DEF BeginResume, workVars, flagVars
  <2>4. FlowTypes'
    BY <2>2, <2>3, LoopAssumption DEF FlowInv, FlowTypes
  <2>5. CallsInPlace'
    BY <2>2, <2>3 DEF CallsInPlace
  <2> QED
    BY <2>2, <2>3, <2>4, <2>5 DEF FlowInv
<1>3. CASE ResumeNothing
  <2>1. phase = "resume" /\ phase' = "inject" /\ run.kind = "none" /\ cont' = FALSE
        /\ UNCHANGED <<run, calls, cpu, saved, yieldReq, due, slices, sigs, sigQueue,
                       drainTick, hit, paused, injected, running, crashed>>
    BY <1>3 DEF ResumeNothing, Goto, InGuest, NoRun, workVars, flagVars
  <2>2. FlowTypes'
    BY <2>1 DEF FlowInv, FlowTypes, Phases, BootPhases
  <2>3. CallsInPlace'
    BY <2>1 DEF CallsInPlace
  <2> QED
    BY <2>1, <2>2, <2>3 DEF FlowInv
<1>4. CASE \E o \in Outcomes : EndResume(o)
  <2>1. PICK o \in Outcomes : EndResume(o)
    BY <1>4
  <2>2. /\ run' = NoRun /\ run'.kind = "none" /\ calls' = 0 /\ yieldReq' \in BOOLEAN
        /\ run.kind = "resumed"
    BY <2>1, LeaveFacts DEF EndResume, FlowInv, FlowTypes
  <2>3. phase = "resume"
    BY <2>2 DEF FlowInv, CallsInPlace
  <2>4. phase' = "inject"
        /\ UNCHANGED <<saved, due, slices, sigs, sigQueue,
                       drainTick, hit, paused, injected, crashed>>
    BY <2>1 DEF EndResume, Goto, workVars
  <2>5. cpu' \in Activities \cup {Idle} /\ cont' \in BOOLEAN /\ running' \in BOOLEAN
    BY <2>1 DEF EndResume, Left, FlowInv, FlowTypes
  <2>6. FlowTypes'
    BY <2>2, <2>4, <2>5, LoopAssumption DEF FlowInv, FlowTypes, Phases, BootPhases
  <2>7. CallsInPlace'
    BY <2>2 DEF CallsInPlace
  <2> QED
    BY <2>2, <2>3, <2>4, <2>6, <2>7 DEF FlowInv
<1> QED
  BY <1>1, <1>2, <1>3, <1>4 DEF Resume

(* The pass over the queued threads. *)
LEMMA SlicesKeepFlow ==
    ASSUME ThreadsInv, FlowInv, Slices
    PROVE  FlowInv'
<1>1. CASE TakeThreads("start", "startThreads") \/ TakeThreads("take", "threads")
  <2>1. slices' \in Seq(Threads)
    BY <1>1 DEF TakeThreads, ThreadsInv, ThreadsTypeOK
  <2>2. phase' \in {"startThreads", "threads"} /\ run.kind = "none"
        /\ UNCHANGED <<run, calls, cpu, saved, cont, yieldReq, due, sigs, sigQueue,
                       drainTick, hit, paused, injected, running, crashed>>
    BY <1>1 DEF TakeThreads, Goto, InGuest, NoRun, ctxVars, flagVars
  <2>3. FlowTypes'
    BY <2>1, <2>2 DEF FlowInv, FlowTypes, Phases, BootPhases
  <2>4. CallsInPlace'
    BY <2>2 DEF CallsInPlace
  <2> QED
    BY <2>2, <2>3, <2>4 DEF FlowInv
<1>2. CASE BeginSlice
  <2>1. Head(slices) \in Threads /\ Tail(slices) \in Seq(Threads)
    BY <1>2, PopElems DEF BeginSlice, FlowInv, FlowTypes
  <2>2. /\ run' \in [kind : Kinds, who : Activities] /\ run'.kind = "thread"
        /\ run'.who \in Threads /\ calls' = 0 /\ cpu' \in Activities
    BY <1>2, <2>1, EnterFacts DEF BeginSlice, Activities, Kinds, YieldKinds
  <2>3. phase \in {"startThreads", "drainThreads", "threads"} /\ slices' \in Seq(Threads) /\ yieldReq' \in BOOLEAN
        /\ UNCHANGED <<phase, cont, due, sigs, sigQueue,
                       drainTick, hit, paused, injected, running, crashed>>
    BY <1>2, <2>1 DEF BeginSlice, InPass, flagVars
  <2>4. saved' \in Activities \cup {Idle} /\ saved' # NoContext
    BY <1>2, LoopAssumption DEF BeginSlice, FlowInv, FlowTypes
  <2>5. FlowTypes'
    BY <2>2, <2>3, <2>4, LoopAssumption DEF FlowInv, FlowTypes
  <2>6. CallsInPlace'
    BY <2>2, <2>3 DEF CallsInPlace
  <2> QED
    BY <2>2, <2>3, <2>4, <2>5, <2>6 DEF FlowInv
<1>3. CASE SkipSlice
  <2>1. Tail(slices) \in Seq(Threads)
    BY <1>3, PopElems DEF SkipSlice, FlowInv, FlowTypes
  <2> QED
    BY <1>3, <2>1 DEF SkipSlice, InPass, FlowInv, FlowTypes, CallsInPlace, ctxVars, flagVars
<1>4. CASE EndPass("startThreads", "handlers") \/ EndPass("threads", "tick")
  <2>1. slices = <<>> /\ (Skip("startThreads", "handlers") \/ Skip("threads", "tick"))
    BY <1>4 DEF EndPass
  <2> QED
    BY <2>1, SkipKeepsFlow DEF Phases, BootPhases
<1>5. CASE \E o \in Outcomes : EndSlice(o)
  <2>1. PICK o \in Outcomes : EndSlice(o)
    BY <1>5
  <2>2. /\ run' = NoRun /\ run'.kind = "none" /\ calls' = 0 /\ yieldReq' \in BOOLEAN
        /\ run.kind = "thread"
    BY <2>1, LeaveFacts DEF EndSlice, FlowInv, FlowTypes
  <2>3. phase \in {"startThreads", "drainThreads", "threads"} /\ run.who \in Threads /\ saved # NoContext
    BY <2>2 DEF FlowInv, CallsInPlace
  <2>4. cpu' = saved /\ saved' = NoContext
        /\ UNCHANGED <<phase, cont, due, slices, sigs, sigQueue,
                       drainTick, hit, paused, injected, running>>
    BY <2>1 DEF EndSlice, workVars
  <2>5. crashed' \subseteq Threads
    BY <2>1, <2>3 DEF EndSlice, FlowInv, FlowTypes
  <2>6. cpu' \in Activities \cup {Idle}
    BY <2>3, <2>4 DEF FlowInv, FlowTypes
  <2>7. FlowTypes'
    BY <2>2, <2>4, <2>5, <2>6, LoopAssumption DEF FlowInv, FlowTypes
  <2>8. CallsInPlace'
    BY <2>2 DEF CallsInPlace
  <2> QED
    BY <2>2, <2>3, <2>4, <2>7, <2>8 DEF FlowInv
<1> QED
  BY <1>1, <1>2, <1>3, <1>4, <1>5 DEF Slices

(* The burst of due timers. *)
LEMMA TimersKeepFlow ==
    ASSUME ShellInv, FlowInv, Timers
    PROVE  FlowInv'
<1>1. CASE SkipTimers \/ TimersDone
  <2>1. slices = <<>> /\ (Skip("tick", "widgets") \/ Skip("timers", "widgets"))
    BY <1>1 DEF SkipTimers, TimersDone, Skip, FlowInv
  <2> QED
    BY <2>1, SkipKeepsFlow DEF Phases, BootPhases
<1>2. CASE TimerTick
  <2>1. due' \in Seq(TimerIds)
    BY <1>2, ExpiredType DEF TimerTick, ShellInv
  <2>2. phase = "tick" /\ phase' = "timers" /\ run.kind = "none"
        /\ UNCHANGED <<run, calls, cpu, saved, cont, yieldReq, slices, sigs, sigQueue,
                       drainTick, hit, paused, injected, running, crashed>>
    BY <1>2 DEF TimerTick, Goto, InGuest, NoRun, ctxVars, flagVars
  <2>3. FlowTypes'
    BY <2>1, <2>2 DEF FlowInv, FlowTypes, Phases, BootPhases
  <2>4. CallsInPlace'
    BY <2>2 DEF CallsInPlace
  <2> QED
    BY <2>2, <2>3, <2>4 DEF FlowInv
<1>3. CASE BeginTimer
  <2>1. Head(due) \in TimerIds /\ Tail(due) \in Seq(TimerIds)
    BY <1>3, PopElems DEF BeginTimer, FlowInv, FlowTypes
  <2>2. /\ run' \in [kind : Kinds, who : Activities] /\ run'.kind = "timer"
        /\ calls' = 0 /\ cpu' \in Activities
    BY <1>3, <2>1, EnterFacts DEF BeginTimer, Activities, Kinds, YieldKinds
  <2>3. phase = "timers" /\ due' \in Seq(TimerIds) /\ yieldReq' \in BOOLEAN
        /\ UNCHANGED <<phase, saved, cont, slices, sigs, sigQueue,
                       drainTick, hit, paused, injected, running, crashed>>
    BY <1>3, <2>1 DEF BeginTimer, flagVars
  <2>4. FlowTypes'
    BY <2>2, <2>3, LoopAssumption DEF FlowInv, FlowTypes
  <2>5. CallsInPlace'
    BY <2>2, <2>3 DEF CallsInPlace
  <2> QED
    BY <2>2, <2>3, <2>4, <2>5 DEF FlowInv
<1>4. CASE \E o \in Outcomes : EndTimer(o)
  <2>1. PICK o \in Outcomes : EndTimer(o)
    BY <1>4
  <2>2. /\ run' = NoRun /\ run'.kind = "none" /\ calls' = 0 /\ yieldReq' \in BOOLEAN
        /\ run.kind = "timer"
    BY <2>1, LeaveFacts DEF EndTimer, FlowInv, FlowTypes
  <2>3. phase = "timers"
    BY <2>2 DEF FlowInv, CallsInPlace
  <2>4. UNCHANGED <<phase, saved, slices, sigs, sigQueue,
                    drainTick, hit, paused, injected, crashed>>
    BY <2>1 DEF EndTimer
  <2>5. cpu' \in Activities \cup {Idle}
    BY <2>1 DEF EndTimer, Left, FlowInv, FlowTypes
  <2>6. due' \in Seq(TimerIds) /\ running' \in BOOLEAN /\ cont' \in BOOLEAN
    <3>1. \/ cont' \in BOOLEAN /\ UNCHANGED <<due, running>>
          \/ due' = <<>> /\ running' = FALSE /\ UNCHANGED cont
      BY <2>1 DEF EndTimer, AfterTimer
    <3>2. <<>> \in Seq(TimerIds)
      OBVIOUS
    <3>3. due \in Seq(TimerIds) /\ running \in BOOLEAN /\ cont \in BOOLEAN
      BY DEF FlowInv, FlowTypes
    <3> QED
      BY <3>1, <3>2, <3>3
  <2>7. FlowTypes'
    BY <2>2, <2>4, <2>5, <2>6, LoopAssumption DEF FlowInv, FlowTypes
  <2>8. CallsInPlace'
    BY <2>2 DEF CallsInPlace
  <2> QED
    BY <2>2, <2>3, <2>4, <2>7, <2>8 DEF FlowInv
<1> QED
  BY <1>1, <1>2, <1>3, <1>4 DEF Timers

(* Every step of the loop and of the guest keeps the loop's own state in order. *)
LEMMA FlowStep ==
    ASSUME ShellInv, ThreadsInv, FlowInv, LoopNext
    PROVE  FlowInv'
<1>1. CASE Again \/ Stop
  <2>1. slices = <<>> /\ (Skip("finish", "control") \/ Skip("finish", "stopped"))
    BY <1>1 DEF Again, Stop, Skip, FlowInv
  <2> QED
    BY <2>1, SkipKeepsFlow DEF Phases, BootPhases
<1>2. CASE Stopped
  BY <1>2 DEF Stopped, vars, loopVars, ctxVars, workVars, flagVars, FlowInv, FlowTypes, CallsInPlace
<1> QED
  BY <1>1, <1>2, GuestKeepsFlow, DrainKeepsFlow, InputKeepsFlow, HostCallsKeepFlow,
     PreemptKeepsFlow, ResumeKeepsFlow, SlicesKeepFlow, TimersKeepFlow
     DEF LoopNext, Loop

-----------------------------------------------------------------------------
LoopInv == ShellInv /\ ThreadsInv /\ FlowInv

(* The three invariants hold of the loop, whatever its constants. *)
THEOREM LoopInvariant == LoopSpec => []LoopInv
<1>1. LoopInit => LoopInv
  BY InvInit DEF LoopInv
<1>2. LoopInv /\ [LoopNext]_vars => LoopInv'
  <2> SUFFICES ASSUME LoopInv, [LoopNext]_vars PROVE LoopInv'
    OBVIOUS
  <2>1. CASE LoopNext
    BY <2>1, ShellStep, ThreadsStep, FlowStep DEF LoopInv
  <2>2. CASE UNCHANGED vars
    <3>2. ShellInv'
      BY <2>2 DEF vars, shellVars, LoopInv, ShellInv, TimersTypeOK, TimersUnique
    <3>3. ThreadsInv'
      BY <2>2 DEF vars, threadVars, LoopInv, ThreadsInv, ThreadsTypeOK, Exists
    <3>4. FlowInv'
      BY <2>2 DEF vars, loopVars, ctxVars, workVars, flagVars, LoopInv, FlowInv, FlowTypes,
                  CallsInPlace
    <3> QED
      BY <3>2, <3>3, <3>4 DEF LoopInv
  <2> QED
    BY <2>1, <2>2
<1> QED
  BY <1>1, <1>2, PTL DEF LoopSpec

(* Every variable of the loop keeps its type. *)
THEOREM LoopTypesCorrect == LoopSpec => []LoopTypeOK
<1>1. LoopInv => LoopTypeOK
  BY TypesOfInv DEF LoopInv
<1> QED
  BY <1>1, LoopInvariant, PTL

(* ISHELL_SetTimer and ISHELL_Resume never leave one identity pending twice. *)
THEOREM TimersStayUnique == LoopSpec => []TimersUnique
<1>1. LoopInv => TimersUnique
  BY DEF LoopInv, ShellInv
<1> QED
  BY <1>1, LoopInvariant, PTL

(* An expired timer leaves its burst to be called or because the loop ends. *)
THEOREM DueTimersCalled == LoopSpec => DueTimersAreCalled
<1> DEFINE A == (phase \in {"timers", "preempting"} /\ due' # due)
                   => (due' = Tail(due) /\ run'.who = Head(due)) \/ (~running')
<1>1. ASSUME LoopInv, LoopNext PROVE A
  <2>1. CASE Guest
    BY <2>1 DEF Guest, GuestTimerCall, GuestThreadCall, GuestSleep, GuestSuspend, GuestSignalCall,
                GuestHit, workVars
  <2>2. CASE Drain
    <3>1. CASE \E o \in Outcomes : EndDrained(o)
      <4>1. run.kind = "drained"
        BY <3>1 DEF EndDrained, Leave
      <4> QED
        BY <1>1, <4>1 DEF LoopInv, FlowInv, CallsInPlace
    <3> QED
      BY <2>2, <3>1 DEF Drain, DrainTick, DrainIdle, DrainStop, EndPass, Skip, BeginDrained,
                        DrainNext, workVars
  <2>3. CASE Input \/ HidSignals \/ Gate
    BY <2>3 DEF Input, Control, HostKey, HostCall, HidEdge, NoKey, Skip, HidSignals,
                SkipSignals, DropSignal, BeginSignal, EndSignal, Gate, workVars
  <2>4. CASE HostCalls
    BY <2>4 DEF HostCalls, HostDone, MediaTick, NoMedia, Inject, NoInject, BootHandlers,
                  NoHandlers, WidgetDraw, NoDraw,
                HostCall, Skip, workVars
  <2>5. CASE PreemptTimers
    BY <2>5 DEF PreemptTimers, NoPreempt, PreemptTick, BeginPreempting, PreemptRestore,
                EndPreempting, Enter, Skip, workVars
  <2>6. CASE Resume
    BY <2>6 DEF Resume, NoResume, BeginResume, ResumeNothing, EndResume, Skip, workVars
  <2>7. CASE Slices
    BY <2>7 DEF Slices, TakeThreads, BeginSlice, SkipSlice, EndPass, EndSlice, Skip, workVars
  <2>8. CASE Timers
    BY <2>8 DEF Timers, SkipTimers, TimerTick, BeginTimer, TimersDone, EndTimer, AfterTimer, Enter,
                Skip, workVars
  <2>9. CASE Again \/ Stop \/ Stopped
    BY <2>9 DEF Again, Stop, Stopped, Skip, vars, loopVars, workVars
  <2> QED
    BY <1>1, <2>1, <2>2, <2>3, <2>4, <2>5, <2>6, <2>7, <2>8, <2>9 DEF LoopNext, Loop
<1>2. LoopInv /\ [LoopNext]_vars => [A]_vars
  BY <1>1
<1> QED
  BY <1>2, LoopInvariant, PTL DEF LoopSpec, DueTimersAreCalled

-----------------------------------------------------------------------------
(* No thread is lost. *)

(* Where a started thread may be: Accounted says queued or suspended. *)
Traced(t) == Accounted(t) \/ OnThread(t) \/ t \in Elems(slices) \/ t \in crashed

(* A started thread that is traced is not lost. *)
LEMMA TracedIsNotLost ==
    ASSUME ThreadsInv
    PROVE  NoLostThread <=> \A t \in Threads : Traced(t)
<1>1. started \subseteq Threads
  BY DEF ThreadsInv, ThreadsTypeOK
<1> QED
  BY <1>1 DEF NoLostThread, Traced, Accounted

(* A step that moves no thread out of the queue, a pass or the CPU. *)
LEMMA TracedKept ==
    ASSUME \A t \in Threads : Traced(t),
           \A t \in Threads : Accounted(t) => Accounted(t)',
           \A t \in Threads : OnThread(t) => OnThread(t)',
           UNCHANGED <<slices, crashed>>
    PROVE  \A t \in Threads : Traced(t)'
BY DEF Traced

(* Every step keeps every started thread traced. *)
LEMMA TracedStep ==
    ASSUME ThreadsInv, FlowInv, \A t \in Threads : Traced(t), LoopNext
    PROVE  \A t \in Threads : Traced(t)'
<1>0. \A t \in Threads : OnThread(t) => run.kind = "thread" /\ run.who = t /\ run # NoRun
  BY DEF OnThread, NoRun
<1>1. ASSUME UNCHANGED <<threadVars, slices, crashed>>,
             run' = run \/ run = NoRun \/ run.kind # "thread"
      PROVE  \A t \in Threads : Traced(t)'
  <2>1. \A t \in Threads : OnThread(t) => OnThread(t)'
    BY <1>0, <1>1 DEF OnThread
  <2>2. \A t \in Threads : Accounted(t) => Accounted(t)'
    BY <1>1 DEF threadVars, Accounted, Exists
  <2> QED
    BY <1>1, <2>1, <2>2, TracedKept
<1>2. ASSUME slices = <<>>, slices' = pending, run = NoRun,
             UNCHANGED <<created, refs, started, finished, suspended, crashed>>
      PROVE  \A t \in Threads : Traced(t)'
  <2>1. Elems(slices) = {}
    BY <1>2 DEF Elems
  <2>2. \A t \in Threads : t \in Elems(pending) => t \in Elems(slices')
    BY <1>2
  <2> QED
    BY <1>0, <1>2, <2>1, <2>2 DEF Traced, Accounted, Exists
<1>3. CASE Guest
  <2>1. UNCHANGED <<run, slices, crashed>>
    BY <1>3 DEF Guest, GuestTimerCall, GuestThreadCall, GuestSleep, GuestSuspend, GuestSignalCall,
                GuestHit, workVars, flagVars
  <2>2. \A t \in Threads : Accounted(t) => Accounted(t)'
    <3>1. CASE GuestThreadCall
      BY <3>1, ThreadCallKeeps DEF GuestThreadCall
    <3>2. CASE GuestSuspend
      BY <3>2, SuspendKeeps DEF GuestSuspend
    <3>3. CASE GuestTimerCall \/ GuestSleep \/ GuestSignalCall \/ GuestHit
      BY <3>3 DEF GuestTimerCall, GuestSleep, GuestSignalCall, GuestHit, threadVars, Accounted, Exists
    <3> QED
      BY <1>3, <3>1, <3>2, <3>3 DEF Guest
  <2> QED
    BY <2>1, <2>2, TracedKept DEF OnThread
<1>4. CASE Drain
  <2>1. CASE DrainTick
    BY <1>2, <2>1 DEF DrainTick, TakePendingThreads, FlowInv, InGuest, flagVars
  <2>2. CASE DrainIdle \/ DrainStop \/ EndPass("drainThreads", "drainTimers") \/ BeginDrained
             \/ DrainNext \/ \E o \in Outcomes : EndDrained(o)
    BY <1>1, <2>2 DEF DrainIdle, DrainStop, EndPass, Skip, BeginDrained, EndDrained, DrainNext,
       Leave, InGuest, workVars, flagVars
  <2> QED
    BY <1>4, <2>1, <2>2 DEF Drain
<1>5. CASE Input \/ HidSignals \/ Gate
  BY <1>1, <1>5 DEF Input, Control, HostKey, HostCall, HidEdge, NoKey, Skip, HidSignals,
     SkipSignals, DropSignal, BeginSignal, EndSignal, Gate, Leave, InGuest,
     workVars, flagVars
<1>6. CASE HostCalls
  BY <1>1, <1>6 DEF HostCalls, HostDone, MediaTick, NoMedia, Inject, NoInject, BootHandlers,
                  NoHandlers, WidgetDraw, NoDraw,
     HostCall, Skip, Leave, InGuest, workVars, flagVars
<1>7. CASE PreemptTimers
  BY <1>1, <1>7 DEF PreemptTimers, NoPreempt, PreemptTick, BeginPreempting, PreemptRestore,
     EndPreempting, Skip, Leave, InGuest, workVars, flagVars
<1>8. CASE Resume
  BY <1>1, <1>8 DEF Resume, NoResume, BeginResume, ResumeNothing, EndResume, Skip, Leave, InGuest,
     workVars, flagVars
<1>9. CASE Slices
  <2>1. CASE TakeThreads("start", "startThreads") \/ TakeThreads("take", "threads")
    BY <1>2, <2>1 DEF TakeThreads, TakePendingThreads, FlowInv, InGuest, flagVars
  <2>2. CASE BeginSlice
    <3>1. /\ Head(slices) \in Threads /\ slices' = Tail(slices)
          /\ \A e \in Elems(slices) : e = Head(slices) \/ e \in Elems(Tail(slices))
      BY <2>2, PopElems DEF BeginSlice, FlowInv, FlowTypes
    <3>2. PICK h \in Threads : h = Head(slices)
      BY <3>1
    <3>3. run = NoRun /\ run' = [kind |-> "thread", who |-> h] /\ crashed' = crashed
      BY <2>2, <3>2 DEF BeginSlice, Enter, InPass, InGuest, flagVars
    <3>4. OnThread(h)' /\ \A t \in Threads : ~OnThread(t)
      BY <1>0, <3>3 DEF OnThread
    <3>5. \A t \in Threads : t # h /\ Accounted(t) => Accounted(t)'
      BY <2>2, <3>2, WakeKeeps DEF BeginSlice
    <3>6. \A t \in Threads : t # h /\ t \in Elems(slices) => t \in Elems(slices')
      BY <3>1, <3>2
    <3> QED
      BY <3>3, <3>4, <3>5, <3>6 DEF Traced
  <2>3. CASE SkipSlice
    <3>1. /\ slices' = Tail(slices) /\ UNCHANGED <<threadVars, run, crashed>>
          /\ \A e \in Elems(slices) : e = Head(slices) \/ e \in Elems(Tail(slices))
      BY <2>3, PopElems DEF SkipSlice, FlowInv, FlowTypes, flagVars
    <3>2. Accounted(Head(slices))
      BY <2>3 DEF SkipSlice, Runnable, Accounted
    <3> QED
      BY <3>1, <3>2 DEF Traced, Accounted, Exists, OnThread, threadVars
  <2>4. CASE EndPass("startThreads", "handlers") \/ EndPass("threads", "tick")
    BY <1>1, <2>4 DEF EndPass, Skip, workVars, flagVars
  <2>5. CASE \E o \in Outcomes : EndSlice(o)
    <3>1. PICK o \in Outcomes : EndSlice(o)
      BY <2>5
    <3>2. run.kind = "thread" /\ run.who \in Threads /\ AfterSlice(run.who, o)
      BY <3>1 DEF EndSlice, Leave, FlowInv, CallsInPlace
    <3>3. PICK h \in Threads : h = run.who
      BY <3>2
    <3>4. slices' = slices /\ crashed \subseteq crashed' /\ (o = "throw" => h \in crashed')
      BY <3>1, <3>3 DEF EndSlice, workVars
    <3>5. /\ \A u \in Threads : Accounted(u) => Accounted(u)'
          /\ o = "throw" \/ Accounted(h)'
      BY <3>2, <3>3, AfterSliceKeeps
    <3> QED
      BY <1>0, <3>3, <3>4, <3>5 DEF Traced
  <2> QED
    BY <1>9, <2>1, <2>2, <2>3, <2>4, <2>5 DEF Slices
<1>10. CASE Timers
  BY <1>1, <1>10 DEF Timers, SkipTimers, TimerTick, BeginTimer, TimersDone, EndTimer, Skip, Leave,
     InGuest, workVars, flagVars
<1>11. CASE Again \/ Stop \/ Stopped
  BY <1>1, <1>11 DEF Again, Stop, Stopped, Skip, vars, loopVars, workVars, flagVars
<1> QED
  BY <1>3, <1>4, <1>5, <1>6, <1>7, <1>8, <1>9, <1>10, <1>11 DEF LoopNext, Loop

(* A started thread is always running, queued, suspended, finished or crashed. *)
THEOREM NoThreadIsLost == LoopSpec => []NoLostThread
<1> DEFINE Inv == LoopInv /\ \A t \in Threads : Traced(t)
<1>1. LoopInit => Inv
  <2> SUFFICES ASSUME LoopInit PROVE Inv
    OBVIOUS
  <2>1. LoopInv
    BY InvInit DEF LoopInv
  <2> QED
    BY <2>1 DEF LoopInit, ThreadsInit, Traced, Accounted
<1>2. Inv /\ LoopInv' /\ [LoopNext]_vars => Inv'
  <2> SUFFICES ASSUME Inv, LoopInv', [LoopNext]_vars PROVE \A t \in Threads : Traced(t)'
    OBVIOUS
  <2>1. CASE LoopNext
    BY <2>1, TracedStep DEF LoopInv
  <2>2. CASE UNCHANGED vars
    BY <2>2 DEF vars, loopVars, threadVars, workVars, flagVars, Traced, Accounted, Exists, OnThread
  <2> QED
    BY <2>1, <2>2
<1>3. Inv => NoLostThread
  BY TracedIsNotLost DEF LoopInv
<1> QED
  BY <1>1, <1>2, <1>3, LoopInvariant, PTL DEF LoopSpec

-----------------------------------------------------------------------------
(* Whose registers the CPU and the saved context hold. *)

ContextInv ==
    /\ run.kind = "host" => ~cont
    /\ phase \in BootPhases => ~cont
    /\ run # NoRun => cpu # Idle
    /\ running /\ run = NoRun /\ phase # "preempting" => (cont <=> cpu # Idle)
    /\ running /\ run.kind = "thread" => (cont <=> saved # Idle)
    /\ running /\ phase = "preempting" => cont /\ saved # Idle
    /\ cont /\ run = NoRun => ~yieldReq
    /\ calls = 0 /\ run.kind \in YieldKinds \ {"signal"} => ~yieldReq

(* Nothing sleeps when the loop starts. *)
LEMMA ContextInit ==
    ASSUME LoopInit
    PROVE  ContextInv
<1>1. Host # Idle
  BY LoopAssumption DEF Activities
<1> QED
  BY <1>1 DEF LoopInit, ContextInv, YieldKinds, NoRun

(* A phase left with nothing to do. *)
LEMMA SkipKeepsContext ==
    ASSUME ContextInv, NEW p, NEW q, Skip(p, q), p # "preempting", q # "preempting",
           q \in BootPhases => p \in BootPhases
    PROVE  ContextInv'
<1>1. run = NoRun /\ phase = p /\ phase' = q
      /\ UNCHANGED <<run, calls, cpu, saved, cont, yieldReq, running>>
  BY DEF Skip, InGuest, Goto, ctxVars, flagVars
<1> QED
  BY <1>1 DEF ContextInv, NoRun

(* A guest call begins, with the yield request cleared or none outstanding. *)
LEMMA EnterKeepsContext ==
    ASSUME ContextInv, NEW kind \in Kinds, NEW who \in Activities, Enter(kind, who),
           UNCHANGED <<phase, cont, running>>,
           kind = "host" => ~cont,
           kind = "thread" => ~InGuest /\ phase # "preempting" /\ saved' = cpu,
           kind # "thread" => saved' = saved,
           kind \in YieldKinds \ {"signal"} => ~yieldReq'
    PROVE  ContextInv'
<1>1. run'.kind = kind /\ run' # NoRun /\ cpu' = who /\ who # Idle
  BY EnterFacts, LoopAssumption
<1> QED
  BY <1>1 DEF ContextInv, InGuest

(* The calls a guest makes: a sleep marks the call as one that yields. *)
LEMMA GuestKeepsContext ==
    ASSUME ContextInv, FlowInv, Guest
    PROVE  ContextInv'
<1>1. UNCHANGED <<phase, run, cpu, saved, cont, running>> /\ run # NoRun
  BY DEF Guest, GuestTimerCall, GuestThreadCall, GuestSleep, GuestSuspend, GuestSignalCall, GuestHit,
         GuestActive, InGuest, ctxVars, flagVars
<1>2. calls' = calls + 1 \/ UNCHANGED <<calls, yieldReq>>
  BY DEF Guest, GuestTimerCall, GuestThreadCall, GuestSleep, GuestSuspend, GuestSignalCall, GuestHit,
         GuestActive, ctxVars
<1>3. calls + 1 # 0
  BY LoopAssumption DEF FlowInv, FlowTypes
<1> QED
  BY <1>1, <1>2, <1>3 DEF ContextInv

(* The boot drain leaves its sleeper to the loop, or none. *)
LEMMA DrainKeepsContext ==
    ASSUME ContextInv, FlowInv, Drain
    PROVE  ContextInv'
<1>1. CASE DrainTick \/ DrainIdle \/ DrainNext
  <2>1. run = NoRun /\ phase \in BootPhases /\ phase' \in BootPhases \cup {"control"}
        /\ UNCHANGED <<run, calls, cpu, saved, cont, yieldReq, running>>
    BY <1>1 DEF DrainTick, DrainIdle, DrainNext, InGuest, Goto, ctxVars, flagVars, BootPhases
  <2> QED
    BY <2>1 DEF ContextInv, NoRun, BootPhases
<1>2. CASE DrainStop \/ EndPass("drainThreads", "drainTimers")
  BY <1>2, SkipKeepsContext DEF DrainStop, EndPass, BootPhases
<1>3. CASE BeginDrained
  <2>1. Head(due) \in Activities
    BY <1>3, PopElems DEF BeginDrained, FlowInv, FlowTypes, Activities
  <2> QED
    BY <1>3, <2>1, EnterKeepsContext DEF BeginDrained, Kinds, YieldKinds, flagVars
<1>4. CASE \E o \in Outcomes : EndDrained(o)
  <2>1. PICK o \in Outcomes : EndDrained(o)
    BY <1>4
  <2>2. run.kind = "drained" /\ run' = NoRun /\ run'.kind = "none" /\ ~yieldReq'
    BY <2>1, LeaveFacts DEF EndDrained, FlowInv, FlowTypes, YieldKinds
  <2>3. phase = "drainTimers" /\ run # NoRun
    BY <2>2 DEF FlowInv, CallsInPlace, NoRun
  <2>4. saved' = saved /\ running' = running /\ cpu' = Left(o)
    BY <2>1 DEF EndDrained, flagVars
  <2>5. \/ o = "yield" /\ cont' = TRUE /\ phase' = "control"
        \/ o # "yield" /\ cont' = cont /\ phase' = phase
    BY <2>1 DEF EndDrained, Goto
  <2> QED
    BY <2>2, <2>3, <2>4, <2>5 DEF ContextInv, Left, BootPhases, YieldKinds
<1> QED
  BY <1>1, <1>2, <1>3, <1>4 DEF Drain

(* Input and signals: a signal runs only when nothing sleeps. *)
LEMMA InputKeepsContext ==
    ASSUME ContextInv, FlowInv, ~HostKeys, Input \/ HidSignals \/ Gate
    PROVE  ContextInv'
<1>1. CASE Control \/ HidEdge \/ DropSignal \/ Gate
  <2>1. run = NoRun /\ phase \notin BootPhases \cup {"preempting"}
        /\ phase' \notin BootPhases \cup {"preempting"}
        /\ UNCHANGED <<run, calls, cpu, saved, cont, yieldReq>>
        /\ (running' = running \/ running' = FALSE)
    BY <1>1 DEF Control, HidEdge, DropSignal, Gate, InGuest, Goto, ctxVars, flagVars, BootPhases
  <2> QED
    BY <2>1 DEF ContextInv, NoRun
<1>2. CASE HostKey
  BY <1>2 DEF HostKey
<1>3. CASE NoKey \/ SkipSignals
  BY <1>3, SkipKeepsContext DEF NoKey, SkipSignals, BootPhases
<1>4. CASE BeginSignal
  <2>1. Head(sigQueue) \in Activities
    BY <1>4, PopElems DEF BeginSignal, FlowInv, FlowTypes, Activities
  <2> QED
    BY <1>4, <2>1, EnterKeepsContext DEF BeginSignal, Kinds, YieldKinds, flagVars
<1>5. CASE \E o \in Outcomes : EndSignal(o)
  <2>1. PICK o \in Outcomes : EndSignal(o)
    BY <1>5
  <2>2. run.kind = "signal" /\ run' = NoRun /\ run'.kind = "none" /\ ~yieldReq'
    BY <2>1, LeaveFacts DEF EndSignal, FlowInv, FlowTypes, YieldKinds
  <2>3. phase = "signals" /\ run # NoRun
    BY <2>2 DEF FlowInv, CallsInPlace, NoRun
  <2>4. saved' = saved /\ cpu' = Left(o)
    BY <2>1 DEF EndSignal
  <2>5. \/ cont' = (o = "yield") /\ phase' = phase /\ running' = running
        \/ running' = FALSE /\ phase' = "gate"
    BY <2>1 DEF EndSignal, Goto
  <2> QED
    BY <2>2, <2>3, <2>4, <2>5 DEF ContextInv, Left, BootPhases, YieldKinds
<1> QED
  BY <1>1, <1>2, <1>3, <1>4, <1>5 DEF Input, HidSignals

(* Host calls are made only when nothing sleeps. *)
LEMMA HostCallsKeepContext ==
    ASSUME ContextInv, FlowInv, HostCalls
    PROVE  ContextInv'
<1>1. CASE HostDone
  <2>1. run.kind = "host" /\ run' = NoRun /\ run'.kind = "none"
    BY <1>1, LeaveFacts DEF HostDone, FlowInv, FlowTypes
  <2>2. phase \in {"boot", "handlers", "keys", "media", "inject", "widgets"}
    BY <2>1 DEF FlowInv, CallsInPlace
  <2>3. phase' \in {"start", "drain", "keys", "preempt", "inject", "finish"}
    BY <1>1, <2>2 DEF HostDone, Goto, AfterHost
  <2>4. cpu' = Idle /\ saved' = saved /\ cont' = cont /\ running' = running
    BY <1>1 DEF HostDone, flagVars
  <2> QED
    BY <2>1, <2>3, <2>4 DEF ContextInv, BootPhases, YieldKinds
<1>2. CASE BootHandlers \/ MediaTick \/ Inject \/ WidgetDraw
  <2>1. PICK p : HostCall(p) /\ ~cont /\ running' = running
    BY <1>2 DEF BootHandlers, MediaTick, Inject, WidgetDraw, flagVars, HostCall, ContextInv, BootPhases
  <2>2. Host \in Activities /\ "host" \in Kinds /\ "host" \notin YieldKinds
    BY DEF Activities, Kinds, YieldKinds
  <2> QED
    BY <2>1, <2>2, EnterKeepsContext DEF HostCall
<1>3. CASE NoHandlers \/ NoMedia \/ NoInject \/ NoDraw
  BY <1>3, SkipKeepsContext DEF NoHandlers, NoMedia, NoInject, NoDraw, BootPhases
<1> QED
  BY <1>1, <1>2, <1>3 DEF HostCalls

(* A preempting burst sets the sleeper aside and puts it back. *)
LEMMA PreemptKeepsContext ==
    ASSUME ContextInv, FlowInv, PreemptTimers
    PROVE  ContextInv'
<1>1. CASE NoPreempt
  BY <1>1, SkipKeepsContext DEF NoPreempt, BootPhases
<1>2. CASE PreemptTick
  <2>1. run = NoRun /\ phase = "preempt" /\ cont
        /\ UNCHANGED <<run, calls, cpu, cont, yieldReq, running>>
    BY <1>2 DEF PreemptTick, Preempts, InGuest, flagVars
  <2>2. \/ saved' = cpu /\ phase' = "preempting"
        \/ saved' = saved /\ phase' = "resume"
    BY <1>2 DEF PreemptTick, Goto
  <2> QED
    BY <2>1, <2>2 DEF ContextInv, NoRun, BootPhases
<1>3. CASE BeginPreempting
  <2>1. Head(due) \in Activities
    BY <1>3, PopElems DEF BeginPreempting, FlowInv, FlowTypes, Activities
  <2> QED
    BY <1>3, <2>1, EnterKeepsContext DEF BeginPreempting, Kinds, YieldKinds, flagVars
<1>4. CASE PreemptRestore
  <2>1. run = NoRun /\ phase = "preempting" /\ phase' = "resume" /\ cpu' = saved
        /\ UNCHANGED <<run, calls, cont, yieldReq, running>>
    BY <1>4 DEF PreemptRestore, InGuest, Goto, flagVars
  <2> QED
    BY <2>1 DEF ContextInv, NoRun, BootPhases
<1>5. CASE \E o \in Outcomes : EndPreempting(o)
  <2>1. PICK o \in Outcomes : EndPreempting(o)
    BY <1>5
  <2>2. run.kind = "preempt" /\ run' = NoRun /\ run'.kind = "none" /\ ~yieldReq'
    BY <2>1, LeaveFacts DEF EndPreempting, FlowInv, FlowTypes, YieldKinds
  <2>3. phase = "preempting"
    BY <2>2 DEF FlowInv, CallsInPlace
  <2>4. UNCHANGED <<phase, saved, cont>> /\ (running' = running \/ running' = FALSE)
    BY <2>1 DEF EndPreempting
  <2> QED
    BY <2>2, <2>3, <2>4 DEF ContextInv, BootPhases, YieldKinds
<1> QED
  BY <1>1, <1>2, <1>3, <1>4, <1>5 DEF PreemptTimers

(* A resumed callback sleeps again or ends. *)
LEMMA ResumeKeepsContext ==
    ASSUME ContextInv, FlowInv, Resume
    PROVE  ContextInv'
<1>1. CASE NoResume
  BY <1>1, SkipKeepsContext DEF NoResume, BootPhases
<1>2. CASE BeginResume
  <2>1. cpu \in Activities /\ run = NoRun /\ ~yieldReq
    BY <1>2 DEF BeginResume, FlowInv, FlowTypes, InGuest, ContextInv
  <2> QED
    BY <1>2, <2>1, EnterKeepsContext DEF BeginResume, Kinds, YieldKinds, flagVars
<1>3. CASE ResumeNothing
  <2>1. run = NoRun /\ phase' = "inject" /\ cont' = FALSE /\ cpu = Idle
        /\ UNCHANGED <<run, calls, cpu, saved, yieldReq, running>>
    BY <1>3 DEF ResumeNothing, InGuest, Goto, flagVars
  <2> QED
    BY <2>1 DEF ContextInv, NoRun, BootPhases
<1>4. CASE \E o \in Outcomes : EndResume(o)
  <2>1. PICK o \in Outcomes : EndResume(o)
    BY <1>4
  <2>2. run.kind = "resumed" /\ run' = NoRun /\ run'.kind = "none" /\ ~yieldReq'
    BY <2>1, LeaveFacts DEF EndResume, FlowInv, FlowTypes, YieldKinds
  <2>3. cpu' = Left(o) /\ cont' = (o = "yield") /\ phase' = "inject" /\ run # NoRun
    BY <2>1, <2>2 DEF EndResume, Goto, NoRun
  <2> QED
    BY <2>2, <2>3 DEF ContextInv, Left, BootPhases, YieldKinds
<1> QED
  BY <1>1, <1>2, <1>3, <1>4 DEF Resume

(* A thread slice leaves no context behind: a yield is saved in the thread. *)
LEMMA SlicesKeepContext ==
    ASSUME ContextInv, FlowInv, Slices
    PROVE  ContextInv'
<1>1. CASE TakeThreads("start", "startThreads") \/ TakeThreads("take", "threads") \/ SkipSlice
  <2>1. run = NoRun /\ phase' # "preempting" /\ phase # "preempting"
        /\ (phase' \in BootPhases => phase \in BootPhases)
        /\ UNCHANGED <<run, calls, cpu, saved, cont, yieldReq, running>>
    BY <1>1 DEF TakeThreads, SkipSlice, InPass, InGuest, Goto, ctxVars, flagVars, BootPhases
  <2> QED
    BY <2>1 DEF ContextInv, NoRun
<1>2. CASE BeginSlice
  <2>1. Head(slices) \in Activities
    BY <1>2, PopElems DEF BeginSlice, FlowInv, FlowTypes, Activities
  <2> QED
    BY <1>2, <2>1, EnterKeepsContext DEF BeginSlice, InPass, InGuest, Kinds, YieldKinds, flagVars
<1>3. CASE EndPass("startThreads", "handlers") \/ EndPass("threads", "tick")
  BY <1>3, SkipKeepsContext DEF EndPass, BootPhases
<1>4. CASE \E o \in Outcomes : EndSlice(o)
  <2>1. PICK o \in Outcomes : EndSlice(o)
    BY <1>4
  <2>2. run.kind = "thread" /\ run' = NoRun /\ run'.kind = "none" /\ ~yieldReq'
    BY <2>1, LeaveFacts DEF EndSlice, FlowInv, FlowTypes, YieldKinds
  <2>3. phase \in {"startThreads", "drainThreads", "threads"}
    BY <2>2 DEF FlowInv, CallsInPlace
  <2>4. cpu' = saved /\ UNCHANGED <<phase, cont, running>>
    BY <2>1 DEF EndSlice
  <2> QED
    BY <2>2, <2>3, <2>4 DEF ContextInv, BootPhases, YieldKinds
<1> QED
  BY <1>1, <1>2, <1>3, <1>4 DEF Slices

(* Due timers: the flag follows the last callback of the burst. *)
LEMMA TimersKeepContext ==
    ASSUME ContextInv, FlowInv, Timers
    PROVE  ContextInv'
<1>1. CASE SkipTimers \/ TimersDone
  BY <1>1, SkipKeepsContext DEF SkipTimers, TimersDone, BootPhases
<1>2. CASE TimerTick
  <2>1. run = NoRun /\ phase = "tick" /\ phase' = "timers"
        /\ UNCHANGED <<run, calls, cpu, saved, cont, yieldReq, running>>
    BY <1>2 DEF TimerTick, InGuest, Goto, ctxVars, flagVars
  <2> QED
    BY <2>1 DEF ContextInv, NoRun, BootPhases
<1>3. CASE BeginTimer
  <2>1. Head(due) \in Activities
    BY <1>3, PopElems DEF BeginTimer, FlowInv, FlowTypes, Activities
  <2> QED
    BY <1>3, <2>1, EnterKeepsContext DEF BeginTimer, Kinds, YieldKinds, flagVars
<1>4. CASE \E o \in Outcomes : EndTimer(o)
  <2>1. PICK o \in Outcomes : EndTimer(o)
    BY <1>4
  <2>2. run.kind = "timer" /\ run' = NoRun /\ run'.kind = "none" /\ ~yieldReq'
    BY <2>1, LeaveFacts DEF EndTimer, FlowInv, FlowTypes, YieldKinds
  <2>3. phase = "timers" /\ run # NoRun
    BY <2>2 DEF FlowInv, CallsInPlace, NoRun
  <2>4. cpu' = Left(o) /\ UNCHANGED <<phase, saved>>
    BY <2>1 DEF EndTimer
  <2>5. \/ cont' = (o = "yield") /\ running' = running
        \/ running' = FALSE
    BY <2>1 DEF EndTimer, AfterTimer
  <2> QED
    BY <2>2, <2>3, <2>4, <2>5 DEF ContextInv, Left, BootPhases, YieldKinds
<1> QED
  BY <1>1, <1>2, <1>3, <1>4 DEF Timers

(* When no key reaches HandleEvent, the continuation flag and the registers
   agree throughout. *)
THEOREM ContextInvariant == ~HostKeys /\ LoopSpec => []ContextInv
<1>1. LoopInit => ContextInv
  BY ContextInit
<1>2. ~HostKeys /\ LoopInv /\ ContextInv /\ [LoopNext]_vars => ContextInv'
  <2> SUFFICES ASSUME ~HostKeys, LoopInv, ContextInv, [LoopNext]_vars PROVE ContextInv'
    OBVIOUS
  <2> USE DEF LoopInv
  <2>1. CASE Again \/ Stop
    BY <2>1, SkipKeepsContext DEF Again, Stop, BootPhases
  <2>2. CASE Stopped \/ UNCHANGED vars
    BY <2>2 DEF Stopped, vars, loopVars, ctxVars, flagVars, ContextInv
  <2> QED
    BY <2>1, <2>2, GuestKeepsContext, DrainKeepsContext, InputKeepsContext, HostCallsKeepContext,
       PreemptKeepsContext, ResumeKeepsContext, SlicesKeepContext, TimersKeepContext
       DEF LoopNext, Loop
<1>3. CASE ~HostKeys
  BY <1>1, <1>2, <1>3, LoopInvariant, PTL DEF LoopSpec
<1>4. CASE HostKeys
  BY <1>4
<1> QED
  BY <1>3, <1>4, LoopAssumption

(* The flag says exactly whether the CPU holds an unfinished callback. *)
THEOREM ContinuationAlwaysMatches == ~HostKeys /\ LoopSpec => []ContinuationMatchesContext
<1>1. LoopInv /\ ContextInv => ContinuationMatchesContext
  BY DEF LoopInv, FlowInv, ContextInv, ContinuationMatchesContext, InGuest
<1> QED
  BY <1>1, LoopInvariant, ContextInvariant, PTL

(* A callback never yields for a sleep that is not its own. *)
THEOREM YieldIsAlwaysOwn == ~HostKeys /\ LoopSpec => []YieldIsOwn
<1>1. ContextInv => YieldIsOwn
  BY DEF ContextInv, YieldIsOwn
<1> QED
  BY <1>1, ContextInvariant, PTL

-----------------------------------------------------------------------------
(* How often a thread stands in a queue. *)

LEMMA CopiesFinite ==
    ASSUME NEW S, NEW s \in Seq(S), NEW t
    PROVE  /\ IsFiniteSet(Copies(t, s)) /\ Cardinality(Copies(t, s)) \in Nat
           /\ Cardinality(Copies(t, s)) = 0 <=> t \notin Elems(s)
<1>1. IsFiniteSet(1..Len(s))
  BY FS_Interval
<1>2. Copies(t, s) \in SUBSET (1..Len(s))
  BY DEF Copies
<1>3. IsFiniteSet(Copies(t, s))
  BY <1>1, <1>2, FS_Subset
<1>4. Copies(t, s) = {} <=> t \notin Elems(s)
  BY DEF Copies, Elems
<1> QED
  BY <1>3, <1>4, FS_CardinalityType, FS_EmptySet

LEMMA CopiesPush ==
    ASSUME NEW S, NEW s \in Seq(S), NEW e \in S, NEW t
    PROVE  Cardinality(Copies(t, Append(s, e)))
              = Cardinality(Copies(t, s)) + IF t = e THEN 1 ELSE 0
<1> DEFINE n == Len(s)
<1>1. /\ n \in Nat /\ DOMAIN s = 1..n /\ DOMAIN Append(s, e) = 1..(n + 1)
      /\ \A i \in 1..n : Append(s, e)[i] = s[i]
      /\ Append(s, e)[n + 1] = e
  OBVIOUS
<1> HIDE DEF n
<1>2. 1..(n + 1) = (1..n) \cup {n + 1} /\ n + 1 \notin 1..n
  BY <1>1
<1>3. IsFiniteSet(Copies(t, s)) /\ Cardinality(Copies(t, s)) \in Nat
  BY CopiesFinite
<1>4. CASE t = e
  <2>1. Copies(t, Append(s, e)) = Copies(t, s) \cup {n + 1}
    BY <1>1, <1>2, <1>4 DEF Copies
  <2>2. n + 1 \notin Copies(t, s)
    BY <1>1, <1>2 DEF Copies
  <2> QED
    BY <1>3, <1>4, <2>1, <2>2, FS_AddElement
<1>5. CASE t # e
  <2>1. Copies(t, Append(s, e)) = Copies(t, s)
    BY <1>1, <1>2, <1>5 DEF Copies
  <2> QED
    BY <1>3, <1>5, <2>1
<1> QED
  BY <1>4, <1>5

(* Sets that a function pairs have the same size. *)
LEMMA PairedSets ==
    ASSUME NEW A, NEW B, IsFiniteSet(A), NEW f \in [A -> B],
           \A x, y \in A : f[x] = f[y] => x = y,
           \A y \in B : \E x \in A : f[x] = y
    PROVE  Cardinality(A) = Cardinality(B)
<1>1. f \in Bijection(A, B)
  BY Fun_IsBij
<1>2. ExistsBijection(A, B)
  BY <1>1 DEF ExistsBijection
<1> QED
  BY <1>2, FS_Bijection

LEMMA CopiesTail ==
    ASSUME NEW S, NEW s \in Seq(S), s # <<>>, NEW t
    PROVE  Cardinality(Copies(t, s))
              = Cardinality(Copies(t, Tail(s))) + IF t = Head(s) THEN 1 ELSE 0
<1> DEFINE n == Len(s)
<1>1. /\ n \in Nat /\ n > 0 /\ DOMAIN s = 1..n /\ DOMAIN Tail(s) = 1..(n - 1)
      /\ \A i \in 1..(n - 1) : Tail(s)[i] = s[i + 1]
      /\ Head(s) = s[1] /\ Tail(s) \in Seq(S)
  OBVIOUS
<1> HIDE DEF n
<1> DEFINE A == Copies(t, Tail(s))
           B == Copies(t, s) \ {1}
           f == [i \in A |-> i + 1]
<1>2. A \subseteq 1..(n - 1) /\ B \subseteq 2..n
  BY <1>1 DEF Copies
<1>3. \A i \in A : i + 1 \in B
  BY <1>1, <1>2 DEF Copies
<1>4. \A j \in B : j - 1 \in A /\ (j - 1) + 1 = j
  <2> SUFFICES ASSUME NEW j \in B
               PROVE  j - 1 \in A /\ (j - 1) + 1 = j
    OBVIOUS
  <2>1. j \in 2..n /\ s[j] = t
    BY <1>2 DEF Copies
  <2>2. j - 1 \in 1..(n - 1) /\ (j - 1) + 1 = j
    BY <1>1, <2>1
  <2>3. Tail(s)[j - 1] = t
    BY <1>1, <2>1, <2>2
  <2> QED
    BY <1>1, <2>2, <2>3 DEF Copies
<1>5. f \in [A -> B] /\ \A x, y \in A : f[x] = f[y] => x = y
  BY <1>2, <1>3
<1>6. \A y \in B : \E x \in A : f[x] = y
  BY <1>4
<1>7. IsFiniteSet(A) /\ Cardinality(A) \in Nat
  BY <1>1, CopiesFinite
<1>8. Cardinality(A) = Cardinality(B)
  <2> HIDE DEF A, B, f
  <2> QED
    BY <1>5, <1>6, <1>7, PairedSets
<1>9. IsFiniteSet(Copies(t, s)) /\ Cardinality(Copies(t, s)) \in Nat
  BY CopiesFinite
<1>10. 1 \in Copies(t, s) <=> t = Head(s)
  BY <1>1 DEF Copies
<1>11. Cardinality(B) = IF 1 \in Copies(t, s) THEN Cardinality(Copies(t, s)) - 1
                        ELSE Cardinality(Copies(t, s))
  BY <1>9, FS_RemoveElement
<1> HIDE DEF A, B
<1>12. Cardinality(Copies(t, s)) = Cardinality(A) + IF t = Head(s) THEN 1 ELSE 0
  BY <1>7, <1>8, <1>9, <1>10, <1>11
<1> QED
  BY <1>12 DEF A

(* Erasing the copies of one thread leaves those of another. *)
LEMMA CopiesKept ==
    ASSUME NEW S, NEW s \in Seq(S), NEW I \in SUBSET DOMAIN s, NEW r \in Kept(s, I),
           NEW t, \A i \in DOMAIN s : s[i] = t => i \in I
    PROVE  Cardinality(Copies(t, r)) = Cardinality(Copies(t, s))
<1>1. PICK n \in 0..Len(s) : \E g \in [1..n -> I] :
         Lists(g, I) /\ r = [j \in 1..n |-> s[g[j]]]
  BY KeptListed
<1>2. PICK g \in [1..n -> I] : Lists(g, I) /\ r = [j \in 1..n |-> s[g[j]]]
  BY <1>1
<1>3. n \in Nat /\ I \subseteq 1..Len(s) /\ I \subseteq Nat
  OBVIOUS
<1>4. DOMAIN g = 1..n /\ DOMAIN r = 1..n
  BY <1>2
<1> DEFINE A == Copies(t, r)
           B == Copies(t, s)
           f == [j \in A |-> g[j]]
<1>5. A \subseteq 1..n /\ \A j \in A : s[g[j]] = t /\ g[j] \in DOMAIN s
  BY <1>2, <1>4 DEF Copies
<1>6. f \in [A -> B]
  BY <1>5 DEF Copies
<1>7. \A x, y \in 1..n : g[x] = g[y] => x = y
  <2> SUFFICES ASSUME NEW x \in 1..n, NEW y \in 1..n, x # y
               PROVE  g[x] # g[y]
    OBVIOUS
  <2>1. x < y \/ y < x
    BY <1>3
  <2>2. g[x] \in Nat /\ g[y] \in Nat
    BY <1>3
  <2>3. g[x] < g[y] \/ g[y] < g[x]
    BY <1>2, <1>4, <2>1 DEF Lists
  <2> QED
    BY <2>2, <2>3
<1>8. \A y \in B : \E x \in A : f[x] = y
  <2> SUFFICES ASSUME NEW y \in B
               PROVE  \E x \in A : f[x] = y
    OBVIOUS
  <2>1. y \in I
    BY DEF Copies
  <2>2. PICK x \in DOMAIN g : g[x] = y
    BY <1>2, <2>1 DEF Lists
  <2>3. x \in A
    BY <1>2, <1>4, <2>2 DEF Copies
  <2> QED
    BY <2>2, <2>3
<1>9. IsFiniteSet(A)
  <2>1. r \in Seq(S)
    BY KeptType
  <2> QED
    BY <2>1, CopiesFinite
<1>10. \A x, y \in A : f[x] = f[y] => x = y
  BY <1>5, <1>7
<1> HIDE DEF A, B, f
<1>11. Cardinality(A) = Cardinality(B)
  BY <1>6, <1>8, <1>9, <1>10, PairedSets
<1> QED
  BY <1>11 DEF A, B

-----------------------------------------------------------------------------
(* Every step is one of CoopThreads, or none. *)

(* The queues and the resume blocks name created threads; the thread whose
   slice runs exists, and is suspended only on its way out of the slice. *)
ThreadsHeld ==
    /\ cbks \subseteq created /\ Elems(pending) \subseteq created /\ Elems(slices) \subseteq created
    /\ \A t \in Threads : OnThread(t) =>
          Exists(t) /\ (t \in suspended => yieldReq /\ t \notin finished)

(* A step that is not the scheduler's. *)
Quiet ==
    /\ UNCHANGED <<threadVars, slices, crashed>>
    /\ \/ run' = run /\ (yieldReq => yieldReq')
       \/ run.kind # "thread" /\ run'.kind # "thread"

(* The queue becomes the next pass. *)
Taken ==
    /\ slices = <<>> /\ slices' = pending /\ TakePendingThreads
    /\ run = NoRun /\ run' = run /\ crashed' = crashed

LEMMA StepKinds ==
    ASSUME FlowInv, LoopNext
    PROVE  \/ Quiet \/ Taken \/ GuestThreadCall \/ GuestSuspend
           \/ BeginSlice \/ SkipSlice \/ \E o \in Outcomes : EndSlice(o)
<1>0. NoRun.kind = "none"
  BY DEF NoRun
<1>1. \A kind, who : Enter(kind, who) => run'.kind = kind
  BY DEF Enter
<1>2. ASSUME UNCHANGED <<threadVars, slices, crashed>>, run = NoRun,
             run' = NoRun \/ run'.kind # "thread"
      PROVE  Quiet
  BY <1>0, <1>2 DEF Quiet
<1>3. ASSUME UNCHANGED <<threadVars, slices, crashed>>, NEW kind, kind # "thread",
             run.kind = kind, run' = NoRun
      PROVE  Quiet
  BY <1>0, <1>3 DEF Quiet
<1>4. CASE Guest
  <2>1. CASE GuestTimerCall \/ GuestSleep \/ GuestSignalCall \/ GuestHit
    BY <2>1 DEF GuestTimerCall, GuestSleep, GuestSignalCall, GuestHit, Quiet, ctxVars, workVars,
                flagVars
  <2> QED
    BY <1>4, <2>1 DEF Guest
<1>5. CASE Drain
  <2>1. CASE DrainTick
    BY <2>1 DEF DrainTick, FlowInv, InGuest, flagVars, Taken
  <2>2. CASE DrainIdle \/ DrainStop \/ EndPass("drainThreads", "drainTimers") \/ BeginDrained
             \/ DrainNext
    BY <1>1, <1>2, <2>2 DEF DrainIdle, DrainStop, EndPass, Skip, BeginDrained, DrainNext, InGuest,
                            workVars, flagVars
  <2>3. CASE \E o \in Outcomes : EndDrained(o)
    BY <1>3, <2>3 DEF EndDrained, Leave, flagVars
  <2> QED
    BY <1>5, <2>1, <2>2, <2>3 DEF Drain
<1>6. CASE Input \/ Gate
  BY <1>1, <1>2, <1>6 DEF Input, Control, HostKey, HostCall, HidEdge, NoKey, Skip, Gate, InGuest,
                          workVars, flagVars
<1>7. CASE HidSignals
  <2>1. CASE SkipSignals \/ DropSignal \/ BeginSignal
    BY <1>1, <1>2, <2>1 DEF SkipSignals, DropSignal, BeginSignal, Skip, InGuest, workVars, flagVars
  <2>2. CASE \E o \in Outcomes : EndSignal(o)
    BY <1>3, <2>2 DEF EndSignal, Leave, workVars
  <2> QED
    BY <1>7, <2>1, <2>2 DEF HidSignals
<1>8. CASE HostCalls
  <2>1. CASE HostDone
    BY <1>3, <2>1 DEF HostDone, Leave, workVars, flagVars
  <2>2. CASE ~HostDone
    BY <1>1, <1>2, <1>8, <2>2 DEF HostCalls, MediaTick, NoMedia, Inject, NoInject, BootHandlers,
         NoHandlers, WidgetDraw, NoDraw, HostCall, Skip, InGuest, workVars, flagVars
  <2> QED
    BY <2>1, <2>2
<1>9. CASE PreemptTimers
  <2>1. CASE NoPreempt \/ PreemptTick \/ BeginPreempting \/ PreemptRestore
    BY <1>1, <1>2, <2>1 DEF NoPreempt, PreemptTick, BeginPreempting, PreemptRestore, Skip, InGuest,
                            workVars, flagVars
  <2>2. CASE \E o \in Outcomes : EndPreempting(o)
    BY <1>3, <2>2 DEF EndPreempting, Leave
  <2> QED
    BY <1>9, <2>1, <2>2 DEF PreemptTimers
<1>10. CASE Resume
  <2>1. CASE NoResume \/ BeginResume \/ ResumeNothing
    BY <1>1, <1>2, <2>1 DEF NoResume, BeginResume, ResumeNothing, Skip, InGuest, workVars, flagVars
  <2>2. CASE \E o \in Outcomes : EndResume(o)
    BY <1>3, <2>2 DEF EndResume, Leave, workVars
  <2> QED
    BY <1>10, <2>1, <2>2 DEF Resume
<1>11. CASE Slices
  <2>1. CASE TakeThreads("start", "startThreads") \/ TakeThreads("take", "threads")
    BY <2>1 DEF TakeThreads, FlowInv, InGuest, flagVars, Taken
  <2>2. CASE EndPass("startThreads", "handlers") \/ EndPass("threads", "tick")
    BY <1>2, <2>2 DEF EndPass, Skip, InGuest, workVars, flagVars
  <2> QED
    BY <1>11, <2>1, <2>2 DEF Slices
<1>12. CASE Timers
  <2>1. CASE SkipTimers \/ TimerTick \/ BeginTimer \/ TimersDone
    BY <1>1, <1>2, <2>1 DEF SkipTimers, TimerTick, BeginTimer, TimersDone, Skip, InGuest, workVars,
                            flagVars
  <2>2. CASE \E o \in Outcomes : EndTimer(o)
    BY <1>3, <2>2 DEF EndTimer, Leave
  <2> QED
    BY <1>12, <2>1, <2>2 DEF Timers
<1>13. CASE Again \/ Stop
  BY <1>2, <1>13 DEF Again, Stop, Skip, InGuest, workVars, flagVars
<1>14. CASE Stopped
  BY <1>14 DEF Stopped, vars, loopVars, ctxVars, workVars, flagVars, Quiet
<1> QED
  BY <1>4, <1>5, <1>6, <1>7, <1>8, <1>9, <1>10, <1>11, <1>12, <1>13, <1>14 DEF LoopNext, Loop

LEMMA HeldInit == LoopInit => ThreadsHeld
<1> SUFFICES ASSUME LoopInit
             PROVE  ThreadsHeld
  OBVIOUS
<1>1. /\ cbks = {} /\ pending = <<>> /\ slices = <<>>
      /\ run.kind = "host"
  BY DEF LoopInit, ThreadsInit
<1>2. Elems(pending) = {} /\ Elems(slices) = {}
  BY <1>1 DEF Elems
<1>3. \A t \in Threads : ~OnThread(t)
  BY <1>1 DEF OnThread
<1> QED
  BY <1>1, <1>2, <1>3 DEF ThreadsHeld

(* A guest that may call the HLE was not suspended in this slice. *)
LEMMA ActiveThread ==
    ASSUME ThreadsInv, FlowInv, ThreadsHeld, GuestActive, NEW t \in Threads, OnThread(t)
    PROVE  t \notin suspended /\ t \in started \ finished /\ Exists(t)
<1>1. run.kind = "thread" /\ run.who = t
  BY DEF OnThread
<1>2. ~yieldReq
  BY <1>1 DEF GuestActive, Yielding, YieldKinds
<1> QED
  BY <1>1, <1>2 DEF GuestActive, ThreadsHeld

LEMMA HeldThreadCall ==
    ASSUME ThreadsInv, FlowInv, ThreadsHeld, GuestThreadCall
    PROVE  ThreadsHeld'
<1>1. GuestActive /\ UNCHANGED <<run, slices, yieldReq>>
  BY DEF GuestThreadCall, ctxVars, workVars
<1>2. PICK t \in Threads :
        \/ CreateThreadObject(t) \/ AddRef(t)
        \/ Release(t) /\ (OnThread(t) => refs[t] > 1)
        \/ Start(t) \/ GetResumeCBK(t) \/ ResumeByCallback(t)
        \/ OnThread(t) /\ FinishThread(t)
  BY DEF GuestThreadCall, ThreadCalls
<1>3. /\ pending \in Seq(Threads) /\ refs \in [Threads -> 0..MaxRefs]
      /\ \A u \in Threads : Exists(u) => u \in created
      /\ \A u \in Threads : OnThread(u)' <=> OnThread(u)
      /\ \A u \in Threads : OnThread(u) => u \notin suspended /\ Exists(u)
  BY <1>1, ActiveThread DEF ThreadsInv, ThreadsTypeOK, OnThread
<1>4. ASSUME created \subseteq created', cbks' \subseteq created', Elems(pending') \subseteq created',
             \A u \in Threads : Exists(u) /\ OnThread(u) => Exists(u)',
             suspended' \subseteq suspended
      PROVE  ThreadsHeld'
  BY <1>1, <1>3, <1>4 DEF ThreadsHeld
<1>5. CASE CreateThreadObject(t)
  <2>1. refs'[t] = 1 /\ \A u \in Threads : u # t => refs'[u] = refs[u]
    BY <1>3, <1>5 DEF CreateThreadObject
  <2>2. \A u \in Threads : Exists(u) => Exists(u)'
    BY <2>1 DEF Exists
  <2> QED
    BY <1>4, <1>5, <2>2 DEF CreateThreadObject, ThreadsHeld
<1>6. CASE AddRef(t)
  <2>1. refs'[t] = refs[t] + 1 /\ \A u \in Threads : u # t => refs'[u] = refs[u]
    BY <1>3, <1>6 DEF AddRef
  <2>2. refs[t] \in Nat /\ refs[t] > 0
    BY <1>3, <1>6, ThreadAssumption DEF AddRef, Exists
  <2>3. \A u \in Threads : Exists(u) => Exists(u)'
    BY <2>1, <2>2 DEF Exists
  <2> QED
    BY <1>4, <1>6, <2>3 DEF AddRef, ThreadsHeld
<1>7. CASE Release(t) /\ (OnThread(t) => refs[t] > 1)
  <2>1. refs'[t] = refs[t] - 1 /\ \A u \in Threads : u # t => refs'[u] = refs[u]
    BY <1>3, <1>7 DEF Release
  <2>2. refs[t] \in Nat
    BY <1>3, ThreadAssumption
  <2>3. \A u \in Threads : Exists(u) /\ OnThread(u) => Exists(u)'
    BY <1>7, <2>1, <2>2 DEF Exists
  <2>4. cbks' \subseteq cbks
    BY <1>7 DEF Release
  <2>5. Elems(pending') \subseteq Elems(pending)
    <3>1. CASE pending' = pending
      BY <3>1
    <3>2. CASE pending' \in Kept(pending, {i \in DOMAIN pending : pending[i] # t})
      <4> DEFINE I == {i \in DOMAIN pending : pending[i] # t}
      <4>1. I \in SUBSET DOMAIN pending
        OBVIOUS
      <4>2. \A e : e \in Elems(pending') => \E i \in I : pending[i] = e
        <5> HIDE DEF I
        <5>1. pending' \in Kept(pending, I)
          BY <3>2 DEF I
        <5> QED
          BY <1>3, <4>1, <5>1, KeptElems
      <4> QED
        BY <4>2 DEF Elems
    <3> QED
      BY <1>7, <3>1, <3>2 DEF Release
  <2>6. UNCHANGED <<created, suspended>>
    BY <1>7 DEF Release
  <2> QED
    BY <1>4, <2>3, <2>4, <2>5, <2>6 DEF ThreadsHeld
<1>8. CASE Start(t)
  <2>1. Elems(Append(pending, t)) = Elems(pending) \cup {t}
    BY <1>3, PushElems
  <2> QED
    BY <1>3, <1>4, <1>8, <2>1 DEF Start, ThreadsHeld, Exists
<1>9. CASE GetResumeCBK(t)
  BY <1>3, <1>4, <1>9 DEF GetResumeCBK, ThreadsHeld, Exists
<1>10. CASE ResumeByCallback(t)
  <2>1. Elems(PushOnce(pending, t)) = Elems(pending) \cup {t}
    BY <1>3, PushOnceElems
  <2> QED
    BY <1>3, <1>4, <1>10, <2>1 DEF ResumeByCallback, ThreadsHeld, Exists
<1>11. CASE OnThread(t) /\ FinishThread(t)
  BY <1>3, <1>4, <1>11 DEF FinishThread, ThreadsHeld, Exists
<1> QED
  BY <1>2, <1>5, <1>6, <1>7, <1>8, <1>9, <1>10, <1>11

LEMMA HeldStep ==
    ASSUME ThreadsInv, FlowInv, ThreadsHeld, LoopNext
    PROVE  ThreadsHeld'
<1>0. /\ pending \in Seq(Threads) /\ slices \in Seq(Threads)
      /\ \A t \in Threads : Exists(t) => t \in created
      /\ \A t \in Threads : OnThread(t) => run.kind = "thread"
      /\ NoRun.kind = "none" /\ Elems(<<>>) = {}
  BY DEF ThreadsInv, ThreadsTypeOK, FlowInv, FlowTypes, OnThread, NoRun, Elems
<1>1. CASE Quiet
  <2>1. \A t \in Threads : OnThread(t)' => OnThread(t) /\ (yieldReq => yieldReq')
    BY <1>1 DEF Quiet, OnThread
  <2> QED
    BY <1>1, <2>1 DEF Quiet, threadVars, ThreadsHeld, Exists
<1>2. CASE Taken
  <2>1. \A t \in Threads : ~OnThread(t)'
    BY <1>0, <1>2 DEF Taken, OnThread
  <2> QED
    BY <1>0, <1>2, <2>1 DEF Taken, TakePendingThreads, ThreadsHeld
<1>3. CASE GuestThreadCall
  BY <1>3, HeldThreadCall
<1>4. CASE GuestSuspend
  <2>1. PICK h \in Threads : OnThread(h) /\ Suspend(h)
    BY <1>4 DEF GuestSuspend
  <2>2. h \notin finished
    BY <1>4, <2>1, ActiveThread DEF GuestSuspend
  <2>3. UNCHANGED <<run, slices>> /\ yieldReq'
    BY <1>4 DEF GuestSuspend, workVars
  <2>4. \A t \in Threads : OnThread(t)' => t = h /\ OnThread(t)
    BY <2>1, <2>3 DEF OnThread
  <2> QED
    BY <2>1, <2>2, <2>3, <2>4 DEF Suspend, ThreadsHeld, Exists
<1>5. CASE BeginSlice
  <2>1. /\ slices # <<>> /\ slices' = Tail(slices) /\ Runnable(Head(slices))
        /\ WakeThread(Head(slices)) /\ run' = [kind |-> "thread", who |-> Head(slices)]
    BY <1>5 DEF BeginSlice, Enter
  <2>2. Elems(slices') \subseteq Elems(slices)
    BY <1>0, <2>1, TailElems
  <2>3. \A t \in Threads : OnThread(t)' => t = Head(slices)
    BY <2>1 DEF OnThread
  <2> QED
    BY <2>1, <2>2, <2>3 DEF WakeThread, Runnable, ThreadsHeld, Exists
<1>6. CASE SkipSlice
  <2>1. /\ slices # <<>> /\ slices' = Tail(slices) /\ run' = run /\ run = NoRun
        /\ UNCHANGED threadVars
    BY <1>6 DEF SkipSlice, InPass, InGuest
  <2>2. Elems(slices') \subseteq Elems(slices)
    BY <1>0, <2>1, TailElems
  <2>3. \A t \in Threads : ~OnThread(t)'
    BY <1>0, <2>1 DEF OnThread
  <2> QED
    BY <2>1, <2>2, <2>3 DEF threadVars, ThreadsHeld
<1>7. CASE \E o \in Outcomes : EndSlice(o)
  <2>1. PICK o \in Outcomes : EndSlice(o)
    BY <1>7
  <2>2. /\ run.kind = "thread" /\ run' = NoRun /\ slices' = slices
        /\ AfterSlice(run.who, o)
    BY <2>1 DEF EndSlice, Leave, workVars
  <2>3. PICK h \in Threads : h = run.who /\ run = [kind |-> "thread", who |-> h]
    <3>1. run # NoRun
      BY <1>0, <2>2
    <3> QED
      BY <2>2, <3>1 DEF FlowInv, FlowTypes, CallsInPlace
  <2>4. OnThread(h) /\ h \in created
    BY <1>0, <2>3 DEF OnThread, ThreadsHeld
  <2>5. \A t \in Threads : ~OnThread(t)'
    BY <1>0, <2>2 DEF OnThread
  <2>6. Elems(PushOnce(pending, h)) = Elems(pending) \cup {h}
    BY <1>0, PushOnceElems
  <2>7. /\ created' = created /\ cbks' = cbks
        /\ pending' = pending \/ pending' = PushOnce(pending, h)
    BY <2>2, <2>3 DEF AfterSlice, RequeueThread, FinishThread, threadVars
  <2> QED
    BY <2>2, <2>4, <2>5, <2>6, <2>7 DEF ThreadsHeld
<1> QED
  BY <1>1, <1>2, <1>3, <1>4, <1>5, <1>6, <1>7, StepKinds

HeldInv == ThreadsInv /\ FlowInv /\ ThreadsHeld

LEMMA HeldInvariant == LoopSpec => []HeldInv
<1>1. LoopInit => ThreadsHeld
  BY HeldInit
<1>2. LoopInv /\ ThreadsHeld /\ [LoopNext]_vars => ThreadsHeld'
  <2>1. ASSUME LoopInv, ThreadsHeld, UNCHANGED vars PROVE ThreadsHeld'
    BY <2>1 DEF vars, threadVars, loopVars, ctxVars, workVars, ThreadsHeld, OnThread, Exists
  <2> QED
    BY <2>1, HeldStep DEF LoopInv
<1>3. LoopInv /\ ThreadsHeld => HeldInv
  BY DEF LoopInv, HeldInv
<1> QED
  BY <1>1, <1>2, <1>3, LoopInvariant, PTL DEF LoopSpec

-----------------------------------------------------------------------------
(* Wake-ups: the copies of a thread in the queue and in the pass. *)

Count(t) == Cardinality(Copies(t, pending)) + Cardinality(Copies(t, slices))

Queues == pending \in Seq(Threads) /\ slices \in Seq(Threads)

LEMMA CountType ==
    ASSUME Queues, NEW t
    PROVE  /\ Cardinality(Copies(t, pending)) \in Nat /\ Cardinality(Copies(t, slices)) \in Nat
           /\ Count(t) \in Nat
           /\ t \in Elems(pending) \cup Elems(slices) => Count(t) > 0
<1>1. /\ Cardinality(Copies(t, pending)) \in Nat /\ Cardinality(Copies(t, slices)) \in Nat
      /\ Cardinality(Copies(t, pending)) = 0 <=> t \notin Elems(pending)
  BY CopiesFinite DEF Queues
<1>2. Cardinality(Copies(t, slices)) = 0 <=> t \notin Elems(slices)
  BY CopiesFinite DEF Queues
<1> QED
  BY <1>1, <1>2 DEF Count

LEMMA CountSame ==
    ASSUME UNCHANGED <<pending, slices>>, NEW t
    PROVE  Count(t)' = Count(t)
BY DEF Count

LEMMA CountPush ==
    ASSUME Queues, NEW e \in Threads, pending' = Append(pending, e), slices' = slices, NEW t
    PROVE  Count(t)' = Count(t) + IF t = e THEN 1 ELSE 0
<1>1. Cardinality(Copies(t, pending')) = Cardinality(Copies(t, pending)) + IF t = e THEN 1 ELSE 0
  BY CopiesPush DEF Queues
<1> QED
  BY <1>1, CountType DEF Count

LEMMA CountPushOnce ==
    ASSUME Queues, NEW e \in Threads, pending' = PushOnce(pending, e), slices' = slices
    PROVE  \/ \A t : Count(t)' = Count(t) + IF t = e THEN 1 ELSE 0
           \/ e \in Elems(pending) /\ \A t : Count(t)' = Count(t)
<1>1. CASE e \in Elems(pending)
  BY <1>1, CountSame DEF PushOnce
<1>2. CASE e \notin Elems(pending)
  BY <1>2, CountPush DEF PushOnce
<1> QED
  BY <1>1, <1>2

LEMMA CountPop ==
    ASSUME Queues, slices # <<>>, slices' = Tail(slices), pending' = pending, NEW t
    PROVE  /\ Count(t) = Count(t)' + IF t = Head(slices) THEN 1 ELSE 0
           /\ Count(t)' \in Nat
<1>1. Cardinality(Copies(t, slices)) = Cardinality(Copies(t, slices'))
                                         + IF t = Head(slices) THEN 1 ELSE 0
  BY CopiesTail DEF Queues
<1>2. slices' \in Seq(Threads)
  BY DEF Queues
<1>3. Cardinality(Copies(t, slices')) \in Nat
  BY <1>2, CopiesFinite
<1> QED
  BY <1>1, <1>3, CountType DEF Count

LEMMA CountTaken ==
    ASSUME Queues, slices = <<>>, slices' = pending, pending' = <<>>, NEW t
    PROVE  Count(t)' = Count(t)
<1>1. Copies(t, <<>>) = {}
  BY DEF Copies
<1>2. Cardinality(Copies(t, <<>>)) = 0
  BY <1>1, FS_EmptySet
<1> QED
  BY <1>2, CountType DEF Count

LEMMA CountDropped ==
    ASSUME Queues, NEW e, pending' \in Kept(pending, {i \in DOMAIN pending : pending[i] # e}),
           slices' = slices, NEW t, t # e
    PROVE  Count(t)' = Count(t)
<1> DEFINE I == {i \in DOMAIN pending : pending[i] # e}
<1>1. I \in SUBSET DOMAIN pending /\ \A i \in DOMAIN pending : pending[i] = t => i \in I
  OBVIOUS
<1>2. pending' \in Kept(pending, I)
  OBVIOUS
<1> HIDE DEF I
<1>3. Cardinality(Copies(t, pending')) = Cardinality(Copies(t, pending))
  BY <1>1, <1>2, CopiesKept DEF Queues
<1> QED
  BY <1>3 DEF Count

LEMMA ModeCases ==
    ASSUME NEW t
    PROVE  /\ OnThread(t) => /\ ModeOf(t) = IF t \in suspended THEN "blocking" ELSE "running"
                             /\ WakesOf(t) = Count(t) /\ ~Gone(t)
           /\ ~OnThread(t) /\ Gone(t) => ModeOf(t) = "done" /\ WakesOf(t) = 0
           /\ ~OnThread(t) /\ ~Gone(t) => ModeOf(t) = "off" /\ WakesOf(t) = Count(t)
           /\ Gone(t) <=> ~OnThread(t) /\ (t \in finished \/ (t \in created /\ ~Exists(t)))
<1>1. Gone(t) <=> ~OnThread(t) /\ (t \in finished \/ (t \in created /\ ~Exists(t)))
  BY DEF Gone
<1> QED
  BY <1>1 DEF ModeOf, WakesOf, Count

(* Nothing changes for the threads other than t. *)
Others(t) ==
    \A u \in Threads : u # t => ModeOf(u)' = ModeOf(u) /\ WakesOf(u)' = WakesOf(u)

LEMMA OneMapped ==
    ASSUME NEW t \in Threads, Others(t)
    PROVE  /\ modes' = [modes EXCEPT ![t] = ModeOf(t)'] /\ modes[t] = ModeOf(t)
           /\ wakeUps' = [wakeUps EXCEPT ![t] = WakesOf(t)'] /\ wakeUps[t] = WakesOf(t)
           /\ ModeOf(t)' = ModeOf(t) => modes' = modes
           /\ WakesOf(t)' = WakesOf(t) => wakeUps' = wakeUps
BY DEF Others, modes, wakeUps

LEMMA NoneMapped ==
    ASSUME \A t \in Threads : ModeOf(t)' = ModeOf(t) /\ WakesOf(t)' = WakesOf(t),
           crashed' = crashed
    PROVE  UNCHANGED Coop!coopVars
BY DEF modes, wakeUps, Coop!coopVars

(* A thread of which neither flags nor queue entries change. *)
LEMMA SameThread ==
    ASSUME NEW t, OnThread(t)' <=> OnThread(t), t \in finished' <=> t \in finished,
           OnThread(t) => (t \in suspended' <=> t \in suspended),
           t \in created' /\ ~Exists(t)' <=> t \in created /\ ~Exists(t),
           Count(t)' = Count(t)
    PROVE  ModeOf(t)' = ModeOf(t) /\ WakesOf(t)' = WakesOf(t)
BY DEF ModeOf, WakesOf, Gone, Count

(* The operations of IThread: Start and a Resume wake a thread up, the last
   Release finishes one. *)
LEMMA WakeUpMaps ==
    ASSUME HeldInv, NEW t \in Threads, run' = run, slices' = slices, crashed' = crashed,
           UNCHANGED <<created, refs, finished, suspended>>,
           pending' = Append(pending, t) \/ pending' = PushOnce(pending, t)
    PROVE  Coop!CoopNext \/ UNCHANGED Coop!coopVars
<1>1. Queues
  BY DEF HeldInv, ThreadsInv, ThreadsTypeOK, FlowInv, FlowTypes, Queues
<1>2. \/ \A u : Count(u)' = Count(u) + IF u = t THEN 1 ELSE 0
      \/ \A u : Count(u)' = Count(u)
  BY <1>1, CountPush, CountPushOnce
<1>3. \A u \in Threads : /\ OnThread(u)' <=> OnThread(u)
                         /\ Exists(u)' <=> Exists(u)
                         /\ Gone(u)' <=> Gone(u)
                         /\ Count(u) \in Nat
  BY <1>1, CountType DEF OnThread, Exists, Gone
<1>4. \A u \in Threads : u # t => Count(u)' = Count(u)
  <2> SUFFICES ASSUME NEW u \in Threads, u # t
               PROVE  Count(u)' = Count(u)
    OBVIOUS
  <2>1. Count(u) \in Nat
    BY <1>3
  <2> QED
    BY <1>2, <2>1
<1>5. Others(t)
  BY <1>3, <1>4, SameThread DEF Others
<1>6. CASE Gone(t)
  <2>1. ModeOf(t)' = ModeOf(t) /\ WakesOf(t)' = WakesOf(t)
    BY <1>3, <1>6 DEF ModeOf, WakesOf
  <2> QED
    BY <1>5, <2>1, NoneMapped DEF Others
<1>7. CASE ~Gone(t)
  <2>1. ModeOf(t) # "done" /\ ModeOf(t)' = ModeOf(t)
    BY <1>3, <1>7 DEF ModeOf
  <2>2. WakesOf(t) = Count(t) /\ WakesOf(t)' = Count(t)'
    BY <1>3, <1>7 DEF WakesOf, Count
  <2>3. CASE Count(t)' = Count(t)
    BY <1>5, <2>1, <2>2, <2>3, NoneMapped DEF Others
  <2>4. CASE Count(t)' = Count(t) + 1
    <3>1. wakeUps' = [wakeUps EXCEPT ![t] = wakeUps[t] + 1] /\ modes' = modes
      BY <1>5, <2>1, <2>2, <2>4, OneMapped
    <3>2. modes[t] # "done"
      BY <1>5, <2>1, OneMapped
    <3>3. Coop!WakeUp(t)
      BY <3>1, <3>2 DEF Coop!WakeUp
    <3> QED
      BY <3>3 DEF Coop!CoopNext
  <2> QED
    BY <1>2, <2>3, <2>4
<1> QED
  BY <1>6, <1>7

LEMMA FinishMaps ==
    ASSUME NEW t \in Threads, Others(t), crashed' = crashed,
           ModeOf(t) \in {"off", "running"}, ModeOf(t)' = "done", WakesOf(t)' = 0
    PROVE  Coop!CoopNext
<1>1. /\ modes[t] \in {"off", "running"} /\ modes' = [modes EXCEPT ![t] = "done"]
      /\ wakeUps' = [wakeUps EXCEPT ![t] = 0]
  BY OneMapped
<1>2. Coop!Finish(t)
  BY <1>1 DEF Coop!Finish
<1> QED
  BY <1>2 DEF Coop!CoopNext

LEMMA ReleaseMaps ==
    ASSUME HeldInv, NEW t \in Threads, Release(t), OnThread(t) => refs[t] > 1,
           run' = run, slices' = slices, crashed' = crashed
    PROVE  Coop!CoopNext \/ UNCHANGED Coop!coopVars
<1>1. /\ Queues /\ refs \in [Threads -> 0..MaxRefs]
      /\ \A u \in Threads : Exists(u) => u \in created
  BY DEF HeldInv, ThreadsInv, ThreadsTypeOK, FlowInv, FlowTypes, Queues
<1>2. /\ refs[t] > 0 /\ refs[t] \in Nat /\ refs'[t] = refs[t] - 1
      /\ \A u \in Threads : u # t => refs'[u] = refs[u]
      /\ UNCHANGED <<created, started, finished, suspended>>
  BY <1>1, ThreadAssumption DEF Release, Exists
<1>3. \A u \in Threads : OnThread(u)' <=> OnThread(u)
  BY DEF OnThread
<1>4. \A u \in Threads : u # t => (Exists(u)' <=> Exists(u))
  BY <1>2 DEF Exists
<1>5. CASE refs[t] > 1 /\ UNCHANGED <<cbks, pending>>
  <2>1. Exists(t)' /\ Exists(t)
    BY <1>2, <1>5 DEF Exists
  <2>2. \A u : Count(u)' = Count(u)
    BY <1>5, CountSame
  <2>3. \A u \in Threads : ModeOf(u)' = ModeOf(u) /\ WakesOf(u)' = WakesOf(u)
    BY <1>2, <1>3, <1>4, <2>1, <2>2, SameThread
  <2> QED
    BY <2>3, NoneMapped
<1>6. CASE refs[t] = 1 /\ pending' \in Kept(pending, {i \in DOMAIN pending : pending[i] # t})
  <2>1. Exists(t) /\ ~Exists(t)' /\ t \in created /\ ~OnThread(t)
    BY <1>1, <1>2, <1>6 DEF Exists
  <2>2. \A u \in Threads : u # t => Count(u)' = Count(u)
    BY <1>1, <1>6, CountDropped
  <2>3. Others(t)
    BY <1>2, <1>3, <1>4, <2>2, SameThread DEF Others
  <2>4. ~OnThread(t)' /\ Gone(t)'
    BY <1>2, <1>3, <2>1 DEF Gone
  <2>5. ModeOf(t)' = "done" /\ WakesOf(t)' = 0
    BY <2>4 DEF ModeOf, WakesOf
  <2>6. CASE t \in finished
    <3>1. Gone(t)
      BY <2>1, <2>6 DEF Gone
    <3>2. ModeOf(t) = "done" /\ WakesOf(t) = 0
      BY <2>1, <3>1, ModeCases
    <3> QED
      BY <2>3, <2>5, <3>2, NoneMapped DEF Others
  <2>7. CASE t \notin finished
    <3>1. ModeOf(t) = "off"
      BY <2>1, <2>7 DEF ModeOf, Gone
    <3> QED
      BY <2>3, <2>5, <3>1, FinishMaps
  <2> QED
    BY <2>6, <2>7
<1> QED
  BY <1>5, <1>6 DEF Release

LEMMA ThreadCallMaps ==
    ASSUME HeldInv, GuestThreadCall
    PROVE  Coop!CoopNext \/ UNCHANGED Coop!coopVars
<1>1. GuestActive /\ UNCHANGED <<run, slices, crashed>>
  BY DEF GuestThreadCall, workVars, flagVars
<1>2. PICK t \in Threads :
        \/ CreateThreadObject(t) \/ AddRef(t)
        \/ Release(t) /\ (OnThread(t) => refs[t] > 1)
        \/ Start(t) \/ GetResumeCBK(t) \/ ResumeByCallback(t)
        \/ OnThread(t) /\ FinishThread(t)
  BY DEF GuestThreadCall, ThreadCalls
<1>3. /\ refs \in [Threads -> 0..MaxRefs]
      /\ \A u \in Threads : Exists(u) => u \in created
      /\ \A u \in Threads : OnThread(u)' <=> OnThread(u)
  BY <1>1 DEF HeldInv, ThreadsInv, ThreadsTypeOK, OnThread
<1>4. ASSUME UNCHANGED <<pending, finished, suspended>>,
             \A u \in Threads : u \in created' /\ ~Exists(u)' <=> u \in created /\ ~Exists(u)
      PROVE  UNCHANGED Coop!coopVars
  <2>1. \A u \in Threads : Count(u)' = Count(u)
    BY <1>1, <1>4, CountSame
  <2>2. \A u \in Threads : ModeOf(u)' = ModeOf(u) /\ WakesOf(u)' = WakesOf(u)
    BY <1>3, <1>4, <2>1, SameThread
  <2> QED
    BY <1>1, <2>2, NoneMapped
<1>5. CASE CreateThreadObject(t)
  <2>1. /\ refs'[t] = 1 /\ \A u \in Threads : u # t => refs'[u] = refs[u]
        /\ created' = created \cup {t} /\ t \notin created
    BY <1>3, <1>5 DEF CreateThreadObject
  <2>2. \A u \in Threads : u \in created' /\ ~Exists(u)' <=> u \in created /\ ~Exists(u)
    BY <2>1 DEF Exists
  <2> QED
    BY <1>4, <1>5, <2>2 DEF CreateThreadObject
<1>6. CASE AddRef(t)
  <2>1. refs'[t] = refs[t] + 1 /\ \A u \in Threads : u # t => refs'[u] = refs[u]
    BY <1>3, <1>6 DEF AddRef
  <2>2. refs[t] \in Nat /\ refs[t] > 0
    BY <1>3, <1>6, ThreadAssumption DEF AddRef, Exists
  <2>3. \A u \in Threads : Exists(u)' <=> Exists(u)
    BY <2>1, <2>2 DEF Exists
  <2> QED
    BY <1>4, <1>6, <2>3 DEF AddRef
<1>7. CASE Release(t) /\ (OnThread(t) => refs[t] > 1)
  BY <1>1, <1>7, ReleaseMaps
<1>8. CASE Start(t)
  <2>1. CASE UNCHANGED <<started, pending>>
    BY <1>4, <1>8, <2>1 DEF Start, Exists
  <2>2. CASE pending' = Append(pending, t)
    BY <1>1, <1>8, <2>2, WakeUpMaps DEF Start
  <2> QED
    BY <1>8, <2>1, <2>2 DEF Start
<1>9. CASE GetResumeCBK(t)
  BY <1>4, <1>9 DEF GetResumeCBK, Exists
<1>10. CASE ResumeByCallback(t)
  BY <1>1, <1>10, WakeUpMaps DEF ResumeByCallback
<1>11. CASE OnThread(t) /\ FinishThread(t)
  <2>1. t \notin suspended
    BY <1>1, <1>11, ActiveThread DEF HeldInv
  <2>2. \A u \in Threads : u # t => ~OnThread(u)
    BY <1>11 DEF OnThread
  <2>3. /\ finished' = finished \cup {t} /\ suspended' = suspended \ {t}
        /\ UNCHANGED <<created, refs, pending>>
    BY <1>11 DEF FinishThread
  <2>4. \A u \in Threads : Count(u)' = Count(u)
    BY <1>1, <2>3, CountSame
  <2>5. \A u \in Threads : u # t => ModeOf(u)' = ModeOf(u) /\ WakesOf(u)' = WakesOf(u)
    BY <1>3, <2>2, <2>3, <2>4, SameThread DEF Exists
  <2>6. ModeOf(t)' = ModeOf(t) /\ WakesOf(t)' = WakesOf(t)
    BY <1>3, <1>11, <2>1, <2>3, <2>4 DEF ModeOf, WakesOf, Gone, Count
  <2> QED
    BY <1>1, <2>5, <2>6, NoneMapped
<1> QED
  BY <1>2, <1>5, <1>6, <1>7, <1>8, <1>9, <1>10, <1>11

LEMMA SuspendMaps ==
    ASSUME HeldInv, GuestSuspend
    PROVE  Coop!CoopNext
<1>1. PICK t \in Threads : OnThread(t) /\ Suspend(t)
  BY DEF GuestSuspend
<1>2. t \notin suspended
  BY <1>1, ActiveThread DEF GuestSuspend, HeldInv
<1>3. /\ UNCHANGED <<run, slices, crashed, pending, created, refs, finished>>
      /\ suspended' = suspended \cup {t}
  BY <1>1 DEF GuestSuspend, Suspend, workVars, flagVars
<1>4. \A u \in Threads : /\ Count(u)' = Count(u) /\ (OnThread(u)' <=> OnThread(u))
                         /\ u # t => ~OnThread(u)
  BY <1>1, <1>3, CountSame DEF OnThread
<1>5. Others(t)
  BY <1>3, <1>4, SameThread DEF Others, Exists
<1>6. ModeOf(t) = "running" /\ WakesOf(t) = Count(t)
  BY <1>1, <1>2, ModeCases
<1>7. ModeOf(t)' = "blocking" /\ WakesOf(t)' = Count(t)'
  BY <1>1, <1>3, <1>4 DEF ModeOf, WakesOf, Gone, Count
<1>8. /\ modes[t] = "running" /\ modes' = [modes EXCEPT ![t] = "blocking"]
      /\ wakeUps' = wakeUps
  BY <1>4, <1>5, <1>6, <1>7, OneMapped
<1>9. Coop!Block(t)
  BY <1>3, <1>8 DEF Coop!Block
<1> QED
  BY <1>9 DEF Coop!CoopNext

LEMMA BeginMaps ==
    ASSUME HeldInv, BeginSlice
    PROVE  Coop!CoopNext
<1>1. /\ Queues /\ slices # <<>> /\ NoRun.kind = "none"
  BY DEF HeldInv, ThreadsInv, ThreadsTypeOK, FlowInv, FlowTypes, Queues, BeginSlice, NoRun
<1>2. PICK t \in Threads : t = Head(slices)
  BY <1>1, PopElems DEF Queues
<1>3. /\ slices' = Tail(slices) /\ Exists(t) /\ t \notin finished
      /\ run = NoRun /\ run' = [kind |-> "thread", who |-> t]
      /\ suspended' = suspended \ {t}
      /\ UNCHANGED <<created, refs, finished, pending, crashed>>
  BY <1>2 DEF BeginSlice, InPass, InGuest, Runnable, Enter, WakeThread, flagVars
<1>4. \A u \in Threads : ~OnThread(u) /\ (OnThread(u)' <=> u = t)
  BY <1>1, <1>3 DEF OnThread
<1>5. \A u \in Threads : /\ Count(u) = Count(u)' + IF u = t THEN 1 ELSE 0
                         /\ Count(u)' \in Nat
  BY <1>1, <1>2, <1>3, CountPop
<1>6. \A u \in Threads : u # t => Count(u)' = Count(u)
  <2> SUFFICES ASSUME NEW u \in Threads, u # t
               PROVE  Count(u)' = Count(u)
    OBVIOUS
  <2> QED
    BY <1>5
<1>7. Others(t)
  BY <1>3, <1>4, <1>6, SameThread DEF Others, Exists
<1>8. ModeOf(t) = "off" /\ WakesOf(t) = Count(t)
  BY <1>3, <1>4 DEF ModeOf, WakesOf, Gone, Count
<1>9. ModeOf(t)' = "running" /\ WakesOf(t)' = Count(t)'
  BY <1>3, <1>4 DEF ModeOf, WakesOf, Gone, Count
<1>10. Count(t) > 0 /\ Count(t)' = Count(t) - 1
  <2>1. Count(t) = Count(t)' + 1 /\ Count(t)' \in Nat
    BY <1>5
  <2> QED
    BY <2>1
<1>11. \A u \in Threads : modes[u] \in {"off", "done"}
  BY <1>4, ModeCases DEF modes
<1>12. /\ modes[t] = "off" /\ modes' = [modes EXCEPT ![t] = "running"]
       /\ wakeUps[t] > 0 /\ wakeUps' = [wakeUps EXCEPT ![t] = wakeUps[t] - 1]
  BY <1>7, <1>8, <1>9, <1>10, OneMapped
<1>13. Coop!Dispatch(t)
  BY <1>3, <1>11, <1>12 DEF Coop!Dispatch
<1> QED
  BY <1>13 DEF Coop!CoopNext

LEMMA SkipMaps ==
    ASSUME HeldInv, SkipSlice
    PROVE  UNCHANGED Coop!coopVars
<1>1. /\ Queues /\ slices # <<>> /\ NoRun.kind = "none"
  BY DEF HeldInv, ThreadsInv, ThreadsTypeOK, FlowInv, FlowTypes, Queues, SkipSlice, NoRun
<1>2. PICK t \in Threads : t = Head(slices) /\ t \in Elems(slices)
  BY <1>1, PopElems, TailElems DEF Queues
<1>3. /\ slices' = Tail(slices) /\ (t \in finished \/ ~Exists(t))
      /\ run = NoRun /\ run' = run /\ crashed' = crashed
      /\ UNCHANGED <<created, refs, finished, suspended, pending>>
  BY <1>2 DEF SkipSlice, InPass, InGuest, Runnable, flagVars, threadVars
<1>4. \A u \in Threads : ~OnThread(u) /\ ~OnThread(u)'
  BY <1>1, <1>3 DEF OnThread
<1>5. \A u \in Threads : u # t => Count(u)' = Count(u)
  <2> SUFFICES ASSUME NEW u \in Threads, u # t
               PROVE  Count(u)' = Count(u)
    OBVIOUS
  <2>1. Count(u) = Count(u)' + 0 /\ Count(u)' \in Nat
    BY <1>1, <1>2, <1>3, CountPop
  <2> QED
    BY <2>1
<1>6. \A u \in Threads : u # t => ModeOf(u)' = ModeOf(u) /\ WakesOf(u)' = WakesOf(u)
  BY <1>3, <1>4, <1>5, SameThread DEF Exists
<1>7. Gone(t) /\ Gone(t)'
  BY <1>2, <1>3, <1>4 DEF Gone, HeldInv, ThreadsHeld, Exists
<1>8. ModeOf(t)' = ModeOf(t) /\ WakesOf(t)' = WakesOf(t)
  BY <1>7 DEF ModeOf, WakesOf
<1> QED
  BY <1>3, <1>6, <1>8, NoneMapped

LEMMA EndMaps ==
    ASSUME HeldInv, NEW o \in Outcomes, EndSlice(o)
    PROVE  Coop!CoopNext
<1>1. Queues /\ NoRun.kind = "none"
  BY DEF HeldInv, ThreadsInv, ThreadsTypeOK, FlowInv, FlowTypes, Queues, NoRun
<1>2. /\ run.kind = "thread" /\ run' = NoRun /\ slices' = slices
      /\ AfterSlice(run.who, o)
      /\ run.who \notin started \ finished => o = "return"
      /\ o = "yield" <=> Yielding
      /\ crashed' = (IF o = "throw" THEN crashed \cup {run.who} ELSE crashed)
  BY DEF EndSlice, Leave, workVars
<1>3. PICK t \in Threads : t = run.who /\ run = [kind |-> "thread", who |-> t]
  <2>1. run # NoRun
    BY <1>1, <1>2
  <2> QED
    BY <1>2, <2>1 DEF HeldInv, FlowInv, FlowTypes, CallsInPlace
<1>4. /\ OnThread(t) /\ Exists(t)
      /\ t \in suspended => o = "yield" /\ t \notin finished
  BY <1>2, <1>3 DEF OnThread, HeldInv, ThreadsHeld, Yielding, YieldKinds
<1>5. \A u \in Threads : ~OnThread(u)' /\ (u # t => ~OnThread(u))
  BY <1>1, <1>2, <1>3 DEF OnThread
<1>6. ModeOf(t) = (IF t \in suspended THEN "blocking" ELSE "running") /\ WakesOf(t) = Count(t)
  BY <1>4, ModeCases
<1>7. ASSUME \A u \in Threads : u # t => Count(u)' = Count(u), created' = created, refs' = refs,
             finished' \ {t} = finished \ {t}
      PROVE  Others(t)
  BY <1>5, <1>7, SameThread DEF Others, Exists
<1>8. CASE UNCHANGED threadVars
  <2>1. \A u : Count(u)' = Count(u)
    BY <1>2, <1>8, CountSame DEF threadVars
  <2>2. Others(t)
    BY <1>7, <1>8, <2>1 DEF threadVars
  <2>3. CASE t \in finished
    <3>1. ModeOf(t)' = "done" /\ WakesOf(t)' = 0
      BY <1>5, <1>8, <2>3 DEF threadVars, ModeOf, WakesOf, Gone
    <3>2. crashed' = crashed /\ ModeOf(t) = "running"
      BY <1>2, <1>3, <1>4, <1>6, <2>3
    <3> QED
      BY <2>2, <3>1, <3>2, FinishMaps
  <2>4. CASE t \notin finished
    <3>1. ModeOf(t)' = "off" /\ WakesOf(t)' = Count(t)'
      BY <1>4, <1>5, <1>8, <2>4 DEF threadVars, ModeOf, WakesOf, Gone, Exists, Count
    <3>2. modes' = [modes EXCEPT ![t] = "off"] /\ wakeUps' = wakeUps /\ modes[t] = ModeOf(t)
      BY <1>6, <2>1, <2>2, <3>1, OneMapped
    <3>3. CASE o = "throw"
      <4>1. Coop!Crash(t)
        BY <1>2, <1>3, <1>6, <3>2, <3>3 DEF Coop!Crash
      <4> QED
        BY <4>1 DEF Coop!CoopNext
    <3>4. CASE o # "throw" /\ t \in suspended
      <4>1. Coop!Rest(t)
        BY <1>2, <1>6, <3>2, <3>4 DEF Coop!Rest
      <4> QED
        BY <4>1 DEF Coop!CoopNext
    <3>5. CASE o # "throw" /\ t \notin suspended
      <4>1. RequeueThread(t) \/ FinishThread(t)
        BY <1>2, <1>3, <2>4, <3>5 DEF AfterSlice
      <4> QED
        BY <1>8, <2>4, <3>5, <4>1 DEF threadVars, RequeueThread, FinishThread
    <3> QED
      BY <3>3, <3>4, <3>5
  <2> QED
    BY <2>3, <2>4
<1>9. CASE o = "yield" /\ t \notin finished /\ t \notin suspended /\ RequeueThread(t)
  <2>1. /\ pending' = PushOnce(pending, t) /\ crashed' = crashed
        /\ UNCHANGED <<created, refs, started, finished>>
    BY <1>2, <1>9 DEF RequeueThread
  <2>2. \/ \A u : Count(u)' = Count(u) + IF u = t THEN 1 ELSE 0
        \/ t \in Elems(pending) /\ \A u : Count(u)' = Count(u)
    BY <1>1, <1>2, <2>1, CountPushOnce
  <2>3. \A u \in Threads : u # t => Count(u)' = Count(u)
    <3> SUFFICES ASSUME NEW u \in Threads, u # t
                 PROVE  Count(u)' = Count(u)
      OBVIOUS
    <3>1. Count(u) \in Nat
      BY <1>1, CountType
    <3> QED
      BY <2>2, <3>1
  <2>4. Others(t)
    BY <1>7, <2>1, <2>3
  <2>5. ModeOf(t)' = "off" /\ WakesOf(t)' = Count(t)'
    BY <1>4, <1>5, <1>9, <2>1 DEF ModeOf, WakesOf, Gone, Exists, Count
  <2>6. Count(t)' = Count(t) + 1 \/ (Count(t)' = Count(t) /\ Count(t) > 0)
    BY <1>1, <2>2, CountType
  <2>7. modes' = [modes EXCEPT ![t] = "off"] /\ modes[t] = "running"
    BY <1>6, <1>9, <2>4, <2>5, OneMapped
  <2>8. \/ wakeUps' = [wakeUps EXCEPT ![t] = wakeUps[t] + 1]
        \/ wakeUps' = wakeUps /\ wakeUps[t] > 0
    BY <1>6, <2>4, <2>5, <2>6, OneMapped
  <2>9. Coop!Sleep(t)
    BY <2>1, <2>7, <2>8 DEF Coop!Sleep
  <2> QED
    BY <2>9 DEF Coop!CoopNext
<1>10. CASE o # "throw" /\ t \notin suspended /\ FinishThread(t)
  <2>1. /\ finished' = finished \cup {t} /\ crashed' = crashed
        /\ UNCHANGED <<created, refs, pending>>
    BY <1>2, <1>10 DEF FinishThread
  <2>2. Others(t)
    BY <1>2, <1>7, <2>1, CountSame
  <2>3. ModeOf(t)' = "done" /\ WakesOf(t)' = 0
    BY <1>5, <2>1 DEF ModeOf, WakesOf, Gone
  <2> QED
    BY <1>6, <1>10, <2>1, <2>2, <2>3, FinishMaps
<1>11. AfterSlice(t, o)
  BY <1>2, <1>3
<1>12. CASE t \in finished \/ t \in suspended \/ o = "throw"
  BY <1>8, <1>11, <1>12 DEF AfterSlice
<1>13. CASE ~(t \in finished \/ t \in suspended \/ o = "throw") /\ o = "yield"
  BY <1>9, <1>11, <1>13 DEF AfterSlice
<1>14. CASE ~(t \in finished \/ t \in suspended \/ o = "throw") /\ o # "yield"
  BY <1>10, <1>11, <1>14 DEF AfterSlice
<1> QED
  BY <1>12, <1>13, <1>14

LEMMA CoopStep ==
    ASSUME HeldInv, [LoopNext]_vars
    PROVE  [Coop!CoopNext]_(Coop!coopVars)
<1>1. ASSUME UNCHANGED <<run, created, refs, finished, suspended, pending, slices, crashed>>
      PROVE  UNCHANGED Coop!coopVars
  <2>1. \A t \in Threads : Count(t)' = Count(t) /\ (OnThread(t)' <=> OnThread(t))
    BY <1>1, CountSame DEF OnThread
  <2>2. \A t \in Threads : ModeOf(t)' = ModeOf(t) /\ WakesOf(t)' = WakesOf(t)
    BY <1>1, <2>1, SameThread DEF Exists
  <2> QED
    BY <1>1, <2>2, NoneMapped
<1>2. CASE UNCHANGED vars
  BY <1>1, <1>2 DEF vars, threadVars, loopVars, workVars, flagVars
<1>3. CASE Quiet
  <2>1. /\ UNCHANGED <<created, refs, finished, suspended, pending, slices, crashed>>
        /\ \A t \in Threads : OnThread(t)' <=> OnThread(t)
    BY <1>3 DEF Quiet, threadVars, OnThread
  <2>2. \A t \in Threads : ModeOf(t)' = ModeOf(t) /\ WakesOf(t)' = WakesOf(t)
    BY <2>1, CountSame, SameThread DEF Exists
  <2> QED
    BY <2>1, <2>2, NoneMapped
<1>4. CASE Taken
  <2>1. Queues
    BY DEF HeldInv, ThreadsInv, ThreadsTypeOK, FlowInv, FlowTypes, Queues
  <2>2. /\ slices = <<>> /\ slices' = pending /\ pending' = <<>> /\ run' = run /\ crashed' = crashed
        /\ UNCHANGED <<created, refs, finished, suspended>>
    BY <1>4 DEF Taken, TakePendingThreads
  <2>3. \A t \in Threads : Count(t)' = Count(t) /\ (OnThread(t)' <=> OnThread(t))
    BY <2>1, <2>2, CountTaken DEF OnThread
  <2>4. \A t \in Threads : ModeOf(t)' = ModeOf(t) /\ WakesOf(t)' = WakesOf(t)
    BY <2>2, <2>3, SameThread DEF Exists
  <2> QED
    BY <2>2, <2>4, NoneMapped
<1>5. CASE LoopNext /\ ~Quiet /\ ~Taken
  <2>1. \/ GuestThreadCall \/ GuestSuspend
        \/ BeginSlice \/ SkipSlice \/ \E o \in Outcomes : EndSlice(o)
    BY <1>5, StepKinds DEF HeldInv
  <2> QED
    BY <2>1, ThreadCallMaps, SuspendMaps, BeginMaps, SkipMaps, EndMaps
<1> QED
  BY <1>2, <1>3, <1>4, <1>5

LEMMA CoopInitMaps == LoopInit => Coop!CoopInit
<1> SUFFICES ASSUME LoopInit
             PROVE  Coop!CoopInit
  OBVIOUS
<1>1. /\ created = {} /\ finished = {} /\ pending = <<>> /\ slices = <<>> /\ crashed = {}
      /\ run.kind = "host"
  BY DEF LoopInit, ThreadsInit
<1>2. \A t \in Threads : ~OnThread(t) /\ ~Gone(t)
  BY <1>1 DEF OnThread, Gone
<1>3. \A t : Copies(t, pending) = {} /\ Copies(t, slices) = {}
  BY <1>1 DEF Copies
<1>4. \A t \in Threads : ModeOf(t) = "off" /\ WakesOf(t) = 0
  BY <1>2, <1>3, ModeCases, FS_EmptySet DEF Count
<1> QED
  BY <1>1, <1>4 DEF modes, wakeUps, Coop!CoopInit

(* The loop keeps the scheduler's promise: Start, Resume and a sleep each give
   a thread one slice, Suspend gives none, one thread runs at a time, and one
   that returned, exited or was released never runs again. *)
THEOREM ThreadsRefined == LoopSpec => ImplementsCoopThreads
<1>1. HeldInv /\ [LoopNext]_vars => [Coop!CoopNext]_(Coop!coopVars)
  BY CoopStep
<1> QED
  BY <1>1, CoopInitMaps, HeldInvariant, PTL DEF LoopSpec, ImplementsCoopThreads, Coop!CoopSpec
=============================================================================
