---------------------------- MODULE CoopThreads ----------------------------
(***************************************************************************)
(* What the thread scheduler promises, without queues, passes or registers:*)
(* one thread runs at a time, and a thread gets one slice per wake-up: its *)
(* Start, a Resume, or its own sleep.  Suspend gives no wake-up, so a      *)
(* suspended thread runs again only for a Resume.  A thread that is done   *)
(* never runs again.                                                       *)
(***************************************************************************)
EXTENDS Naturals

CONSTANT Threads

VARIABLES
    mode,       \* off, running, blocking (Suspend was called), done
    wakes,      \* wake-ups not yet turned into a slice
    failed      \* threads whose code threw in some slice

coopVars == <<mode, wakes, failed>>

CoopInit ==
    /\ mode = [t \in Threads |-> "off"]
    /\ wakes = [t \in Threads |-> 0]
    /\ failed = {}

(* Start or Resume of a thread, by guest code on whatever context. *)
WakeUp(t) ==
    /\ mode[t] # "done"
    /\ wakes' = [wakes EXCEPT ![t] = @ + 1]
    /\ UNCHANGED <<mode, failed>>

Dispatch(t) ==
    /\ \A u \in Threads : mode[u] \in {"off", "done"}
    /\ mode[t] = "off" /\ wakes[t] > 0
    /\ mode' = [mode EXCEPT ![t] = "running"]
    /\ wakes' = [wakes EXCEPT ![t] = @ - 1]
    /\ UNCHANGED failed

Block(t) ==
    /\ mode[t] = "running"
    /\ mode' = [mode EXCEPT ![t] = "blocking"]
    /\ UNCHANGED <<wakes, failed>>

(* A sleeping thread is left with a wake-up: its own, or one it already had. *)
Sleep(t) ==
    /\ mode[t] = "running"
    /\ mode' = [mode EXCEPT ![t] = "off"]
    /\ \/ wakes' = [wakes EXCEPT ![t] = @ + 1]
       \/ wakes[t] > 0 /\ UNCHANGED wakes
    /\ UNCHANGED failed

(* The slice of a suspended thread ends with no wake-up of its own. *)
Rest(t) ==
    /\ mode[t] = "blocking"
    /\ mode' = [mode EXCEPT ![t] = "off"]
    /\ UNCHANGED <<wakes, failed>>

Crash(t) ==
    /\ mode[t] \in {"running", "blocking"}
    /\ mode' = [mode EXCEPT ![t] = "off"]
    /\ failed' = failed \cup {t}
    /\ UNCHANGED wakes

(* The thread returns, exits, or its object is released. *)
Finish(t) ==
    /\ mode[t] \in {"off", "running"}
    /\ mode' = [mode EXCEPT ![t] = "done"]
    /\ wakes' = [wakes EXCEPT ![t] = 0]
    /\ UNCHANGED failed

CoopNext ==
    \E t \in Threads :
        WakeUp(t) \/ Dispatch(t) \/ Block(t) \/ Sleep(t) \/ Rest(t) \/ Crash(t) \/ Finish(t)

CoopSpec == CoopInit /\ [][CoopNext]_coopVars
=============================================================================
