---------------------------- MODULE ShellTimers ----------------------------
(***************************************************************************)
(* The one-shot timers of IShellHle (core/brew/ishell.cpp): the vector     *)
(* timers_ and the operations the guest and the event loop apply to it.    *)
(*                                                                         *)
(* A timer is identified by its (callback, user_data) pair.  A guest may   *)
(* also pass one AEECallback structure for both arguments; the pair is     *)
(* then whatever its pfnNotify and pNotifyData fields hold at the time of  *)
(* the call, so the structures' contents are state (aee) that the guest    *)
(* may rewrite between two calls.                                          *)
(*                                                                         *)
(* Time is counted in ticks of the loop (kTickMs).  r0_override is left    *)
(* out: no caller of ScheduleTimer passes one.                             *)
(***************************************************************************)
EXTENDS Vectors

CONSTANTS
    Callbacks,  \* PFNNOTIFY code addresses
    Users,      \* pUser values
    Structs,    \* addresses of AEECallback structures
    NullPtr,    \* the address 0
    MaxDelay    \* bound: the longest delay the guest asks for, in ticks

ASSUME ShellAssumption ==
    /\ MaxDelay \in Nat
    /\ NullPtr \notin Callbacks \cup Users \cup Structs
    /\ Structs \cap (Callbacks \cup Users) = {}
    /\ Callbacks \cap Users = {}

VARIABLES
    timers,     \* timers_: Seq of [id: <<callback, user_data>>, left: ticks]
    aee         \* guest memory: the <<pfnNotify, pNotifyData>> of each structure

Delays == 0..MaxDelay

(* The pairs a timer can be registered under: Resume registers a structure
   without pfnNotify under its own address, and SetTimer takes a null one. *)
TimerIds == (Callbacks \cup Structs \cup {NullPtr}) \X (Users \cup {NullPtr})

Timer == [id : TimerIds, left : Delays]

TimersTypeOK ==
    /\ timers \in Seq(Timer)
    /\ aee \in [Structs -> (Callbacks \cup {NullPtr}) \X Users]

TimersInit ==
    /\ timers = <<>>
    /\ aee \in [Structs -> (Callbacks \cup {NullPtr}) \X Users]

-----------------------------------------------------------------------------
(* The identity named by the two pointers of a SetTimer or CancelTimer. *)
Identity(cb, user) == IF cb # NullPtr /\ cb = user THEN aee[cb] ELSE <<cb, user>>

ScheduleTimer_AlwaysPushes(ms, id) ==
    timers' = Append(timers, [id |-> id, left |-> ms])

(***************************************************************************)
(* ScheduleTimer: the first timer with this identity is rescheduled where  *)
(* it stands in the vector; only an identity not yet pending is appended.  *)
(***************************************************************************)
ScheduleTimer(ms, id) ==
    \/ \E i \in DOMAIN timers :
          /\ timers[i].id = id
          /\ \A j \in DOMAIN timers : j < i => timers[j].id # id
          /\ timers' = [timers EXCEPT ![i] = [id |-> id, left |-> ms]]
    \/ /\ \A i \in DOMAIN timers : timers[i].id # id
       /\ timers' = Append(timers, [id |-> id, left |-> ms])

(* ISHELL_SetTimer. *)
SetTimer(ms, cb, user) ==
    /\ ScheduleTimer(ms, Identity(cb, user))
    /\ UNCHANGED aee

(* The positions a CancelTimer erases: a null callback names every timer of
   the user datum. *)
Cancelled(id) ==
    {i \in DOMAIN timers :
        timers[i].id[2] = id[2] /\ (id[1] = NullPtr \/ timers[i].id[1] = id[1])}

(* ISHELL_CancelTimer. *)
CancelTimer(cb, user) ==
    /\ timers' \in Kept(timers, DOMAIN timers \ Cancelled(Identity(cb, user)))
    /\ UNCHANGED aee

(* ISHELL_Resume of an AEECallback that is no thread's resume block. *)
ResumeCallback(s) ==
    /\ ScheduleTimer(0, IF aee[s][1] # NullPtr THEN aee[s] ELSE <<s, NullPtr>>)
    /\ UNCHANGED aee

(* The guest rewrites a structure it owns. *)
WriteStruct(s, id) ==
    /\ aee' = [aee EXCEPT ![s] = id]
    /\ UNCHANGED timers

-----------------------------------------------------------------------------
(* The timers one tick brings to their deadline. *)
Expiring == {i \in DOMAIN timers : timers[i].left <= 1}

(* What Tick returns: the identities whose deadline is reached, in
   registration order (a set of one sequence, see Kept). *)
Expired == Kept([i \in DOMAIN timers |-> timers[i].id], Expiring)

(* What Tick does to the vector: the expired timers leave, the others age. *)
TickTimers ==
    /\ timers' \in Kept([i \in DOMAIN timers |->
                            [id |-> timers[i].id, left |-> timers[i].left - 1]],
                        DOMAIN timers \ Expiring)
    /\ UNCHANGED aee

(***************************************************************************)
(* No identity is pending twice: a callback that re-arms itself every time *)
(* it fires never multiplies (the comment of ScheduleTimer).               *)
(***************************************************************************)
TimersUnique == \A i, j \in DOMAIN timers : timers[i].id = timers[j].id => i = j
=============================================================================
