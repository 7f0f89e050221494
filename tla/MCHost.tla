------------------------------- MODULE MCHost -------------------------------
(***************************************************************************)
(* What runs beside the guest, checked in one run: the control server and  *)
(* its two ends, the mirror's threads, the emulator processes of the GUI   *)
(* and the streams whose notices wait for a turn of the loop.              *)
(*                                                                         *)
(* ControlServer has its own variables; of every other module a behaviour  *)
(* here is a behaviour on a small instance, when `subject' names it, and   *)
(* w1, w2, ... are its variables in their order of declaration.            *)
(***************************************************************************)
EXTENDS ControlServer

CONSTANTS
    MaxTimes,       \* bound: frames left, emulators started, notices asked for
    MaxClients,     \* bound: connections to the mirror
    Streams, Sizes  \* the streams, and what they are read and set by

ASSUME HostAssumption ==
    /\ MaxTimes \in Nat
    /\ Sizes \subseteq Nat

VARIABLES subject, w1, w2, w3, w4, w5, w6, w7, w8, w9, w10

partVars == <<w1, w2, w3, w4, w5, w6, w7, w8, w9, w10>>
hostVars == <<controlVars, subject, partVars>>

\* the variables from the n-th on, which a part of n - 1 variables does not use
Fixed10 == w10 = 0
Fixed9 == w9 = 0 /\ Fixed10
Fixed8 == w8 = 0 /\ Fixed9
Fixed7 == w7 = 0 /\ Fixed8
Fixed6 == w6 = 0 /\ Fixed7
Fixed == w1 = 0 /\ w2 = 0 /\ w3 = 0 /\ w4 = 0 /\ w5 = 0 /\ Fixed6

Same10 == UNCHANGED w10 /\ UNCHANGED <<subject, controlVars>>
Same9 == UNCHANGED w9 /\ Same10
Same8 == UNCHANGED w8 /\ Same9
Same7 == UNCHANGED w7 /\ Same8
Same6 == UNCHANGED w6 /\ Same7
Same11 == UNCHANGED <<subject, controlVars>>

-----------------------------------------------------------------------------
Mirror == INSTANCE MirrorServer WITH
    MaxFrames <- MaxTimes,
    running <- w1, box <- w2, encoder <- w3, coding <- w4, shown <- w5,
    published <- w6, server <- w7, client <- w8, clients <- w9, stop <- w10

Session == INSTANCE EmulatorSession WITH
    MaxChildren <- MaxTimes,
    pid <- w1, state <- w2, children <- w3, asked <- w4, stopping <- w5

Notices == INSTANCE Streams WITH
    MaxNotices <- MaxTimes,
    streams <- w1, pending <- w2, batch <- w3, inside <- w4, notices <- w5,
    last <- w6

-----------------------------------------------------------------------------
HostInit ==
  /\ ControlInit
  /\ \/ subject = "Control" /\ Fixed
     \/ subject = "Mirror" /\ Mirror!MirrorInit
     \/ subject = "Session" /\ Session!SessionInit /\ Fixed6
     \/ subject = "Notices" /\ Notices!StreamInit /\ Fixed7

ControlDoes(A) == subject = "Control" /\ UNCHANGED <<subject, partVars>> /\ A
MirrorDoes(A) == subject = "Mirror" /\ Same11 /\ A
SessionDoes(A) == subject = "Session" /\ Same6 /\ A
NoticesDo(A) == subject = "Notices" /\ Same7 /\ A

ControlSteps == ControlDoes(ControlNext)
MirrorSteps == MirrorDoes(Mirror!MirrorNext)
SessionSteps == SessionDoes(Session!SessionNext)
NoticesSteps == NoticesDo(Notices!StreamNext)

\* only the control server is asked not to stop short: the others end at a bound
AtItsBound == subject # "Control" /\ UNCHANGED hostVars

HostNext == ControlSteps \/ MirrorSteps \/ SessionSteps \/ NoticesSteps \/ AtItsBound

HostSpec == HostInit /\ [][HostNext]_hostVars

(* The fairness of each part: threads that run whenever they can, the turns of
   the loop, the frames of the window, the death of a killed child.  Nobody makes
   a controller, a client, the guest or the user do anything.  `subject' never
   changes, so that WF of a disjunction over the parts is the WF of each; and a
   child ends once, so that WF of some child's end is the WF of each. *)
Threads ==
  \/ ControlDoes(ServerThread) \/ MirrorDoes(Mirror!Encoder)
  \/ SessionDoes(Session!Poll) \/ NoticesDo(Notices!StreamTick)
Loops ==
  \/ ControlDoes(MainLoop) \/ MirrorDoes(Mirror!Server)
  \/ SessionDoes(Session!StopReaps \/ Session!StopKills \/ Session!StopGivesUp)
Ends ==
  \/ MirrorDoes(Mirror!Stop)
  \/ \E c \in 1..MaxTimes : SessionDoes("KILL" \in w4[c] /\ Session!ChildEnds(c))

FairHostSpec ==
  /\ HostSpec
  /\ WF_hostVars(Threads) /\ WF_hostVars(Loops) /\ WF_hostVars(Ends)

-----------------------------------------------------------------------------
(* Properties. *)

(* Every part's variables keep their types. *)
HostTypeOK ==
  /\ ControlTypeOK
  /\ subject = "Mirror" => Mirror!MirrorTypeOK
  /\ subject = "Session" => Session!SessionTypeOK
  /\ subject = "Notices" => Notices!StreamTypeOK

(* An encoder of the mirror that has nothing to do has shown the newest frame
   (MirrorServer::EncodeLoop, PublishFrame). *)
NewestShown == subject = "Mirror" => Mirror!NewestShown

(* No emulator outlives its window and the state shown is the process's; and a
   stream's notice reaches its callback once, none after its end
   (EmulatorSession::Stop, MemAStreamHle::Tick). *)
NobodyForgotten ==
  /\ subject = "Session" => Session!NoOrphans
  /\ subject = "Notices" => Notices!AnsweredOnce

(* What waits is served: the newest frame is shown or a newer one left, an
   ended child is reaped, a stream's notice is called or cancelled
   (EncodeLoop, EmulatorSession::Poll, MemAStreamHle::Tick). *)
Waits(n) ==
  \/ subject = "Mirror" /\ w6 = n
  \/ subject = "Session" /\ Session!Unreaped(n)
  \/ subject = "Notices" /\ Notices!Waiting(n)
Served(n) ==
  \/ subject = "Mirror" /\ Mirror!ShownOrNewer(n)
  \/ subject = "Session" /\ w3[n] = "gone"
  \/ subject = "Notices" /\ Notices!Settled(n)
PartsServed == \A n \in 1..MaxTimes : Waits(n) ~> Served(n)
=============================================================================
