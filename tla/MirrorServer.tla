---------------------------- MODULE MirrorServer ----------------------------
(***************************************************************************)
(* The HTTP mirror of the screen (src/core/control/mirror_server.h): the   *)
(* main loop leaves each frame in a box, the encoder's thread takes it and *)
(* publishes the picture, the server's thread answers one client at a      *)
(* time.  Stop is called by the main loop, which then leaves no more       *)
(* frames.  The encoder falls asleep in two steps, as a condition variable *)
(* does: it tests its predicate, and then it waits.                        *)
(***************************************************************************)
EXTENDS Integers

CONSTANTS MaxFrames, MaxClients

VARIABLES
  running,           \* running_
  box,               \* pending_raw_ and pending_ready_; frames are numbered
  encoder,           \* where EncodeLoop is
  coding,            \* the frame it encodes
  shown,             \* latest_png_, w_ and h_
  published,         \* the frames the main loop has left
  server,            \* where ServeLoop is
  client,            \* the connection it holds or would accept
  clients,
  stop               \* where Stop is

mirrorVars == <<running, box, encoder, coding, shown, published, server, client,
                clients, stop>>

MirrorInit ==
  /\ running = TRUE
  /\ box = [frame |-> 0, ready |-> FALSE]
  /\ encoder = "test"
  /\ coding = 0
  /\ shown = 0
  /\ published = 0
  /\ server = "accept"
  /\ client = "none"
  /\ clients = 0
  /\ stop = "no"

KeepServer == UNCHANGED <<server, client, clients>>
Wakes(state) == IF state = "waiting" THEN "locked" ELSE state

(* PublishFrame: the box is written under its mutex, which the encoder     *)
(* holds from the test of its predicate until it sleeps.                   *)
PublishFrame ==
  /\ stop = "no" /\ published < MaxFrames
  /\ encoder # "falling"
  /\ published' = published + 1
  /\ box' = [frame |-> published + 1, ready |-> TRUE]
  /\ encoder' = Wakes(encoder)
  /\ UNCHANGED <<running, coding, shown, stop>> /\ KeepServer

EncoderTests ==
  /\ encoder = "test"
  /\ encoder' = IF running THEN "locked" ELSE "exited"
  /\ UNCHANGED <<running, box, coding, shown, published, stop>> /\ KeepServer

(* The predicate of the wait, and what follows it under the same mutex.    *)
EncoderLocked ==
  /\ encoder = "locked"
  /\ IF ~box.ready /\ running
     THEN encoder' = "falling" /\ UNCHANGED <<box, coding>>
     ELSE IF ~running THEN encoder' = "exited" /\ UNCHANGED <<box, coding>>
     ELSE /\ encoder' = "encoding"
          /\ coding' = box.frame
          /\ box' = [box EXCEPT !.ready = FALSE]
  /\ UNCHANGED <<running, shown, published, stop>> /\ KeepServer

EncoderSleeps ==
  /\ encoder = "falling"
  /\ encoder' = "waiting"
  /\ UNCHANGED <<running, box, coding, shown, published, stop>> /\ KeepServer

ReadyAfterEncoding_Cleared == FALSE
ReadyAfterEncoding == box.ready
EncoderShows ==
  /\ encoder = "encoding"
  /\ encoder' = "test"
  /\ shown' = coding
  /\ box' = [box EXCEPT !.ready = ReadyAfterEncoding]
  /\ UNCHANGED <<running, coding, published, stop>> /\ KeepServer

(* One client at a time: HandleClient returns when a request has come, and *)
(* its answer is sent, or when the client has gone.                        *)
ClientConnects ==
  /\ client = "none" /\ clients < MaxClients /\ stop # "done"
  /\ client' = "silent" /\ clients' = clients + 1
  /\ UNCHANGED <<running, box, encoder, coding, shown, published, server, stop>>
ClientMoves(to) ==
  /\ client = "silent"
  /\ client' = to
  /\ UNCHANGED <<running, box, encoder, coding, shown, published, server, clients, stop>>
Accept ==
  /\ server = "accept"
  /\ \/ client # "none" /\ stop \in {"no", "notify", "encoder"} /\ server' = "recv"
     \/ stop = "server" /\ server' = "exited"
  /\ UNCHANGED <<running, box, encoder, coding, shown, published, client, clients, stop>>
HandleClient ==
  /\ server = "recv" /\ client # "silent"
  /\ client' = "none"
  /\ server' = IF running THEN "accept" ELSE "exited"
  /\ UNCHANGED <<running, box, encoder, coding, shown, published, clients, stop>>

(* Stop: the flag, the notification, and the two joins.                    *)
StopAsked ==
  /\ stop = "no"
  /\ running' = FALSE
  /\ stop' = "notify"
  /\ UNCHANGED <<box, encoder, coding, shown, published>> /\ KeepServer
StopNotifies ==
  /\ stop = "notify"
  /\ encoder' = Wakes(encoder)
  /\ stop' = "encoder"
  /\ UNCHANGED <<running, box, coding, shown, published>> /\ KeepServer
StopJoins ==
  /\ \/ stop = "encoder" /\ encoder = "exited" /\ stop' = "server"
     \/ stop = "server" /\ server = "exited" /\ stop' = "done"
  /\ UNCHANGED <<running, box, encoder, coding, shown, published>> /\ KeepServer

Encoder == EncoderTests \/ EncoderLocked \/ EncoderSleeps \/ EncoderShows
Server  == Accept \/ HandleClient
Stop    == StopNotifies \/ StopJoins
MirrorNext ==
  \/ PublishFrame \/ StopAsked \/ Encoder \/ Server \/ Stop
  \/ ClientConnects \/ ClientMoves("sent") \/ ClientMoves("gone")

(* The threads run, and Stop goes on once it is called; nobody makes the   *)
(* main loop draw, stop, or the client speak.                              *)
MirrorFairness ==
  /\ WF_mirrorVars(Encoder) /\ WF_mirrorVars(Server) /\ WF_mirrorVars(Stop)
MirrorSpec == MirrorInit /\ [][MirrorNext]_mirrorVars /\ MirrorFairness

MirrorTypeOK ==
  /\ running \in BOOLEAN /\ box.ready \in BOOLEAN
  /\ {box.frame, coding, shown, published} \subseteq 0 .. MaxFrames
  /\ encoder \in {"test", "locked", "falling", "waiting", "encoding", "exited"}
  /\ server \in {"accept", "recv", "exited"}
  /\ client \in {"none", "silent", "sent", "gone"}
  /\ stop \in {"no", "notify", "encoder", "server", "done"}

(* Latest wins (mirror_server.h:205): frames are dropped only for newer    *)
(* ones, so an encoder with nothing to do has shown the newest frame.      *)
NewestShown == encoder = "waiting" /\ ~box.ready => shown = published

ShownOrNewer(n) == shown = n \/ published > n \/ ~running

(* While the main loop does not stop, the newest frame is shown in the end *)
(* or a newer one is left.                                                 *)
FramesServed == \A n \in 1 .. MaxFrames : published = n ~> ShownOrNewer(n)

(* What the comment of Stop promises (mirror_server.h:180): woken, the     *)
(* encoder sees running_ cleared and exits.                                *)
EncoderExits == ~running ~> encoder = "exited"

-----------------------------------------------------------------------------
(* Why NewestShown holds, for any number of frames and clients.            *)

(* The box holds the newest frame; once it is taken, the newest frame is   *)
(* the one being encoded or the one shown, since only PublishFrame leaves a *)
(* newer one and it marks the box again.                                   *)
NewestOnItsWay ==
  /\ box.frame = published
  /\ box = [frame |-> box.frame, ready |-> box.ready]
  /\ ~box.ready => IF encoder = "encoding" THEN coding = published
                   ELSE shown = published

(* The types, with what the frames are.                                    *)
MirrorInv == MirrorTypeOK /\ NewestOnItsWay
=============================================================================
