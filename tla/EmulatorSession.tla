--------------------------- MODULE EmulatorSession ---------------------------
(***************************************************************************)
(* The emulator the window starts, pauses and stops                        *)
(* (src/frontends/gui/emulator_session.cpp): one child process at a time.  *)
(* Stop runs inside the window's thread: it asks the child to end, waits   *)
(* for it, kills it and waits again, and forgets it either way.            *)
(***************************************************************************)
EXTENDS Integers

CONSTANTS MaxChildren

VARIABLES
  pid,               \* pid_: the child of the session, 0 when there is none
  state,             \* state_
  children,          \* what each process started is
  asked,             \* the signals it has been sent and has not acted on
  stopping           \* where Stop is: "no", "term" or "kill"

sessionVars == <<pid, state, children, asked, stopping>>

Children == 1 .. MaxChildren
Alive == {"running", "stopped"}

SessionInit ==
  /\ pid = 0
  /\ state = "idle"
  /\ children = [c \in Children |-> "unborn"]
  /\ asked = [c \in Children |-> {}]
  /\ stopping = "no"

Forget == pid' = 0 /\ state' = "idle"

(* StartCommand.  A child whose exec fails ends at once.                   *)
MayStart_Always == TRUE
MayStart == state = "idle"
StartCommand ==
  /\ stopping = "no"
  /\ MayStart
  /\ \E c \in Children :
       /\ children[c] = "unborn" /\ \A d \in 1 .. c - 1 : children[d] # "unborn"
       /\ children' = [children EXCEPT ![c] = "running"]
       /\ pid' = c
       /\ state' = "running"
  /\ UNCHANGED <<asked, stopping>>

Reap(c) == children' = [children EXCEPT ![c] = "gone"]

\* once per frame of the window
Poll ==
  /\ stopping = "no" /\ pid # 0
  /\ children[pid] = "zombie"
  /\ Reap(pid)
  /\ Forget
  /\ UNCHANGED <<asked, stopping>>

(* TogglePause: a signal sent to a child that has ended is no error.       *)
TogglePause ==
  /\ stopping = "no" /\ pid # 0
  /\ state' = IF state = "running" THEN "paused" ELSE "running"
  /\ children' = [children EXCEPT ![pid] =
       IF @ \notin Alive THEN @ ELSE IF state = "running" THEN "stopped" ELSE "running"]
  /\ UNCHANGED <<pid, asked, stopping>>

(* Stop, by the button or when the window closes.                          *)
Continued == IF state = "paused" /\ children[pid] = "stopped" THEN "running" ELSE children[pid]
StopAsks ==
  /\ stopping = "no" /\ pid # 0
  /\ stopping' = "term"
  /\ children' = [children EXCEPT ![pid] = Continued]
  /\ asked' = [asked EXCEPT ![pid] = @ \cup {"TERM"}]
  /\ UNCHANGED <<pid, state>>
\* WaitForExit has found the child ended
StopReaps ==
  /\ stopping # "no" /\ children[pid] = "zombie"
  /\ Reap(pid)
  /\ Forget
  /\ stopping' = "no"
  /\ UNCHANGED asked
\* the 1500 ms are over
StopKills ==
  /\ stopping = "term" /\ children[pid] # "zombie"
  /\ stopping' = "kill"
  /\ asked' = [asked EXCEPT ![pid] = @ \cup {"KILL"}]
  /\ UNCHANGED <<pid, state, children>>
\* so are the 1000 ms after the kill
StopGivesUp ==
  /\ stopping = "kill" /\ children[pid] # "zombie"
  /\ Forget
  /\ stopping' = "no"
  /\ UNCHANGED <<children, asked>>

(* The child: it ends when it likes, unless it is stopped; a kill ends it  *)
(* stopped or not, when the kernel gets to it.                             *)
ChildEnds(c) ==
  /\ \/ children[c] = "running"
     \/ children[c] = "stopped" /\ "KILL" \in asked[c]
  /\ children' = [children EXCEPT ![c] = "zombie"]
  /\ UNCHANGED <<pid, state, asked, stopping>>

SessionNext ==
  \/ StartCommand \/ Poll \/ TogglePause
  \/ StopAsks \/ StopReaps \/ StopKills \/ StopGivesUp
  \/ \E c \in Children : ChildEnds(c)

(* The window draws frames, and each polls; Stop goes on; a killed child   *)
(* ends.                                                                   *)
SessionFairness ==
  /\ WF_sessionVars(Poll)
  /\ WF_sessionVars(StopReaps \/ StopKills \/ StopGivesUp)
  /\ \A c \in Children : WF_sessionVars("KILL" \in asked[c] /\ ChildEnds(c))
SessionSpec == SessionInit /\ [][SessionNext]_sessionVars /\ SessionFairness

SessionTypeOK ==
  /\ pid \in 0 .. MaxChildren
  /\ state \in {"idle", "running", "paused"} /\ (state = "idle" <=> pid = 0)
  /\ children \in [Children -> {"unborn", "running", "stopped", "zombie", "gone"}]
  /\ stopping \in {"no", "term", "kill"}

(* Requirement RF-6 (emulator_session.cpp:38): no emulator is left running *)
(* behind the window.  A process the session no longer holds has ended or  *)
(* is being killed, and the state shown is the process's own: a session    *)
(* said to run is never left stopped.                                      *)
NoOrphans ==
  /\ \A c \in Children : c # pid /\ children[c] \in Alive => "KILL" \in asked[c]
  /\ stopping = "no" /\ pid # 0 /\ children[pid] \in Alive =>
       (state = "paused" <=> children[pid] = "stopped")

Unreaped(c) == pid = c /\ children[c] = "zombie"

(* A child that ends while the session holds it is reaped, by the next     *)
(* frame or by the Stop that asked for its end.                            *)
ChildrenReaped ==
  \A c \in Children : Unreaped(c) ~> children[c] = "gone"

-----------------------------------------------------------------------------
(* Why NoOrphans holds, for any number of children.                        *)

(* Stop forgets a child that has not ended only after the kill, and a      *)
(* session is idle exactly when it holds no child.                         *)
SessionInv ==
  /\ pid \in Children \cup {0}
  /\ state \in {"idle", "running", "paused"} /\ (state = "idle" <=> pid = 0)
  /\ children \in [Children -> {"unborn", "running", "stopped", "zombie", "gone"}]
  /\ asked \in [Children -> SUBSET {"TERM", "KILL"}]
  /\ stopping \in {"no", "term", "kill"} /\ (stopping # "no" => pid # 0)
  /\ stopping = "kill" => "KILL" \in asked[pid]
  /\ NoOrphans
=============================================================================
