----------------------------- MODULE ThreadHle -----------------------------
(***************************************************************************)
(* Cooperative BREW threads: core/brew/thread_hle.cpp.  The state of every *)
(* IThread object and the queue of threads the event loop runs next.       *)
(*                                                                         *)
(* The fields of ThreadState are sets of threads.  The saved registers are *)
(* left out: what matters is which of them the CPU holds (EventLoop.cpu).  *)
(* The probe's heap never reuses an address, so a thread object whose last *)
(* reference is released never comes back.                                 *)
(***************************************************************************)
EXTENDS Vectors

CONSTANTS
    Threads,    \* addresses of IThread objects
    MaxRefs     \* bound: references the guest holds to one object

ASSUME ThreadAssumption == MaxRefs \in Nat \ {0}

VARIABLES
    created,    \* objects CreateThreadObject has returned so far
    refs,       \* ref_count; 0 when the object is not in threads_
    started, finished, suspended,   \* the flags of ThreadState
    cbks,       \* threads whose resume block is in resume_callbacks_
    pending     \* pending_threads_

threadVars == <<created, refs, started, finished, suspended, cbks, pending>>

(* threads_.find(t) != threads_.end() *)
Exists(t) == refs[t] > 0

ThreadsTypeOK ==
    /\ refs \in [Threads -> 0..MaxRefs]
    /\ created \subseteq Threads
    /\ started \subseteq Threads
    /\ finished \subseteq Threads
    /\ suspended \subseteq Threads
    /\ cbks \subseteq Threads
    /\ pending \in Seq(Threads)

ThreadsInit ==
    /\ refs = [t \in Threads |-> 0]
    /\ created = {} /\ started = {} /\ finished = {} /\ suspended = {} /\ cbks = {}
    /\ pending = <<>>

-----------------------------------------------------------------------------
(* The methods of IThread, called by guest code. *)

CreateThreadObject(t) ==
    /\ t \notin created
    /\ created' = created \cup {t}
    /\ refs' = [refs EXCEPT ![t] = 1]
    /\ UNCHANGED <<started, finished, suspended, cbks, pending>>

(* AddRef, and QueryInterface with a non-null out pointer. *)
AddRef(t) ==
    /\ Exists(t) /\ refs[t] < MaxRefs
    /\ refs' = [refs EXCEPT ![t] = @ + 1]
    /\ UNCHANGED <<created, started, finished, suspended, cbks, pending>>

(* Release: the last reference takes the resume block and every queue entry
   of the thread with it. *)
Release(t) ==
    /\ Exists(t)
    /\ refs' = [refs EXCEPT ![t] = @ - 1]
    /\ \/ /\ refs[t] > 1
          /\ UNCHANGED <<cbks, pending>>
       \/ /\ refs[t] = 1
          /\ cbks' = cbks \ {t}
          /\ pending' \in Kept(pending, {i \in DOMAIN pending : pending[i] # t})
    /\ UNCHANGED <<created, started, finished, suspended>>

Start_NotQueued(t) ==
    /\ Exists(t) /\ t \notin started
    /\ started' = started \cup {t}
    /\ UNCHANGED <<created, refs, finished, suspended, cbks, pending>>

(* Start: refused once started; nothing changes when the stack cannot be
   allocated.  The queue entry is pushed without looking for an older one. *)
Start(t) ==
    /\ Exists(t) /\ t \notin started
    /\ \/ /\ started' = started \cup {t}
          /\ pending' = Append(pending, t)
       \/ UNCHANGED <<started, pending>>
    /\ UNCHANGED <<created, refs, finished, suspended, cbks>>

(* FinishThread, and Exit of the running thread. *)
FinishThread(t) ==
    /\ finished' = finished \cup {t}
    /\ suspended' = suspended \ {t}
    /\ UNCHANGED <<created, refs, started, cbks, pending>>

(* Suspend: the caller also asks for a yield (EventLoop). *)
Suspend(t) ==
    /\ suspended' = suspended \cup {t}
    /\ UNCHANGED <<created, refs, started, finished, cbks, pending>>

(* GetResumeCBK: the block is allocated at the first call. *)
GetResumeCBK(t) ==
    /\ Exists(t)
    /\ cbks' = cbks \cup {t}
    /\ UNCHANGED <<created, refs, started, finished, suspended, pending>>

(* ISHELL_Resume of a resume block: IsResumeCallback, then ResumeByCallback. *)
ResumeByCallback(t) ==
    /\ t \in cbks
    /\ pending' = PushOnce(pending, t)
    /\ UNCHANGED <<created, refs, started, finished, suspended, cbks>>

-----------------------------------------------------------------------------
(* What the event loop does to the scheduler's state. *)

TakePendingThreads ==
    /\ pending' = <<>>
    /\ UNCHANGED <<created, refs, started, finished, suspended, cbks>>

(* state->suspended = false, before a slice. *)
WakeThread(t) ==
    /\ suspended' = suspended \ {t}
    /\ UNCHANGED <<created, refs, started, finished, cbks, pending>>

(* A cooperative yield: the context is saved and the thread queued again. *)
RequeueThread(t) ==
    /\ suspended' = suspended \cup {t}
    /\ pending' = PushOnce(pending, t)
    /\ UNCHANGED <<created, refs, started, finished, cbks>>
=============================================================================
