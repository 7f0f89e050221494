--------------------------- MODULE ControlServer ---------------------------
(***************************************************************************)
(* The control channel: core/control/control_server.h and its two ends.  A *)
(* controller sends lines over a TCP connection; the server's own thread   *)
(* accepts, receives, queues each request and blocks on its promise for at *)
(* most 30 s; the main loop drains the queue once per iteration, executes  *)
(* the requests and fulfils the promises (tools/game_probe.cpp).           *)
(*                                                                         *)
(* Commands are told apart by what they do to the loop: `now' is any that  *)
(* is answered at once, `step' is answered when the guest has ticked,      *)
(* `quit' ends the loop, `bad' does not parse.                             *)
(***************************************************************************)
EXTENDS Integers, Sequences

CONSTANTS
    MaxRequests,    \* bound: requests queued in one session
    MaxTicks,       \* bound: ticks one step asks for
    MaxLines        \* bound: lines sent and not yet dispatched

ASSUME ControlAssumption ==
    /\ {MaxRequests, MaxLines} \subseteq Nat \ {0}
    /\ MaxTicks \in Nat \ {0}

Commands == {"now", "step", "quit", "bad"}

Requests == 1..MaxRequests

None == 0

VARIABLES
    up,         \* running_
    server,     \* where the server's thread is
    client,     \* the connection, as the controller sees it
    wire,       \* lines sent, not received
    buf,        \* lines received, not dispatched
    req,        \* the request the thread waits for
    sent,       \* requests queued so far
    queue,      \* queue_, of <<request, command>>
    main,       \* where the main loop is
    batch,      \* drained requests not yet executed
    step,       \* ctl_step_req
    ticksLeft,  \* ctl_step_target - tick_count
    quit,       \* control_wants_quit
    running,    \* running of the main loop
    executed,   \* history: how often each request was executed
    fulfilled   \* how often each promise was set

threadVars == <<server, buf, req>>
peerVars   == <<client, wire>>
loopVars   == <<main, batch, step, ticksLeft, quit, running, executed>>
controlVars == <<up, threadVars, peerVars, sent, queue, loopVars, fulfilled>>

Request == Requests \X (Commands \ {"bad"})

ControlTypeOK ==
    /\ up \in BOOLEAN /\ quit \in BOOLEAN /\ running \in BOOLEAN
    /\ server \in {"accept", "top", "lines", "recv", "wait", "write", "exited"}
    /\ client \in {"none", "open", "closed"}
    /\ wire \in Seq(Commands) /\ buf \in Seq(Commands)
    /\ Len(wire) + Len(buf) <= MaxLines
    /\ req \in Requests \cup {None} /\ step \in Requests \cup {None}
    /\ sent \in 0..MaxRequests
    /\ queue \in Seq(Request) /\ batch \in Seq(Request)
    /\ main \in {"drain", "exec", "guest", "finish", "stop", "joining", "done"}
    /\ ticksLeft \in 0..MaxTicks
    /\ executed \in [Requests -> Nat] /\ fulfilled \in [Requests -> Nat]

(* Start has bound the port. *)
ControlInit ==
    /\ up = TRUE /\ server = "accept" /\ client = "none"
    /\ wire = <<>> /\ buf = <<>> /\ req = None /\ sent = 0 /\ queue = <<>>
    /\ main = "drain" /\ batch = <<>> /\ step = None /\ ticksLeft = 0
    /\ quit = FALSE /\ running = TRUE
    /\ executed = [r \in Requests |-> 0] /\ fulfilled = [r \in Requests |-> 0]

-----------------------------------------------------------------------------
(* The controller. *)

Connect ==
    /\ client = "none" /\ up
    /\ client' = "open"
    /\ UNCHANGED <<up, threadVars, wire, sent, queue, loopVars, fulfilled>>

SendLine ==
    /\ client = "open" /\ Len(wire) + Len(buf) < MaxLines
    /\ \E c \in Commands : wire' = Append(wire, c)
    /\ UNCHANGED <<up, threadVars, client, sent, queue, loopVars, fulfilled>>

Close ==
    /\ client = "open"
    /\ client' = "closed"
    /\ UNCHANGED <<up, threadVars, wire, sent, queue, loopVars, fulfilled>>

Controller == Connect \/ SendLine \/ Close

-----------------------------------------------------------------------------
(* The server's thread: AcceptLoop, HandleConnection, Dispatch. *)

At(l) == server = l

ThreadGoes(l) == server' = l

Accept ==
    /\ At("accept") /\ client # "none"
    /\ ThreadGoes("top")
    /\ UNCHANGED <<up, buf, req, peerVars, sent, queue, loopVars, fulfilled>>

AcceptLoopEnds_Retries == FALSE

(* The loop's test, or accept on the socket that Stop shut down. *)
AcceptLoopEnds ==
    /\ At("accept") /\ ~up
    /\ ThreadGoes("exited")
    /\ UNCHANGED <<up, buf, req, peerVars, sent, queue, loopVars, fulfilled>>

(* HandleConnection returns and the socket is closed. *)
Hangup ==
    /\ ThreadGoes("accept")
    /\ client' = "none" /\ wire' = <<>> /\ buf' = <<>>
    /\ UNCHANGED <<up, req, sent, queue, loopVars, fulfilled>>

(* while (running_.load()) of HandleConnection: looked at before each batch of
   lines, not between them. *)
Top ==
    /\ At("top")
    /\ \/ ~up /\ Hangup
       \/ /\ up /\ ThreadGoes("lines")
          /\ UNCHANGED <<up, buf, req, peerVars, sent, queue, loopVars, fulfilled>>

Enqueue_Front(r) == queue' = <<r>> \o queue

Enqueue(r) == queue' = Append(queue, r)

Dispatch_Unparsed ==
    /\ At("lines") /\ buf # <<>> /\ sent < MaxRequests
    /\ buf' = Tail(buf)
    /\ sent' = sent + 1 /\ req' = sent + 1
    /\ Enqueue(<<sent + 1, Head(buf)>>)
    /\ ThreadGoes("wait")
    /\ UNCHANGED <<up, peerVars, loopVars, fulfilled>>

Dispatch ==
    /\ At("lines") /\ buf # <<>>
    /\ buf' = Tail(buf)
    /\ \/ /\ Head(buf) = "bad"
          /\ ThreadGoes("write")
          /\ UNCHANGED <<req, sent, queue>>
       \/ /\ Head(buf) # "bad" /\ sent < MaxRequests
          /\ sent' = sent + 1 /\ req' = sent + 1
          /\ Enqueue(<<sent + 1, Head(buf)>>)
          /\ ThreadGoes("wait")
    /\ UNCHANGED <<up, peerVars, loopVars, fulfilled>>

(* The bound on requests: the controller sends no more. *)
NoMoreRequests ==
    /\ At("lines") /\ buf # <<>> /\ Head(buf) # "bad" /\ sent = MaxRequests
    /\ buf' = <<>> /\ wire' = <<>> /\ client' = "closed"
    /\ UNCHANGED <<up, server, req, sent, queue, loopVars, fulfilled>>

LinesDone ==
    /\ At("lines") /\ buf = <<>>
    /\ ThreadGoes("recv")
    /\ UNCHANGED <<up, buf, req, peerVars, sent, queue, loopVars, fulfilled>>

(* recv blocks as long as an open connection is silent. *)
Receive ==
    /\ At("recv")
    /\ \/ \E n \in 1..Len(wire) :
             /\ buf' = buf \o SubSeq(wire, 1, n) /\ wire' = SubSeq(wire, n + 1, Len(wire))
             /\ ThreadGoes("top")
             /\ UNCHANGED <<up, req, client, sent, queue, loopVars, fulfilled>>
       \/ client = "closed" /\ wire = <<>> /\ Hangup

(* The promise is fulfilled, or 30 s have passed. *)
WaitEnds ==
    /\ At("wait")
    /\ req' = None
    /\ ThreadGoes("write")
    /\ UNCHANGED <<up, buf, peerVars, sent, queue, loopVars, fulfilled>>

(* To a closed connection a reply may still be written once. *)
Write ==
    /\ At("write")
    /\ \/ /\ ThreadGoes("lines")
          /\ UNCHANGED <<up, buf, req, peerVars, sent, queue, loopVars, fulfilled>>
       \/ client = "closed" /\ Hangup

ServerThread ==
    Accept \/ AcceptLoopEnds \/ Top \/ Dispatch \/ NoMoreRequests \/ LinesDone \/ Receive
    \/ WaitEnds \/ Write

-----------------------------------------------------------------------------
(* The main loop. *)

Fulfil(r) == fulfilled' = [fulfilled EXCEPT ![r] = @ + 1]

Drain_First ==
    /\ batch' = (IF queue = <<>> THEN <<>> ELSE <<Head(queue)>>)
    /\ queue' = <<>>

(* Drain: the whole queue moves out under the lock. *)
Drain ==
    /\ batch' = queue
    /\ queue' = <<>>

DrainRequests ==
    /\ main = "drain"
    /\ Drain
    /\ main' = "exec"
    /\ UNCHANGED <<up, threadVars, peerVars, sent, step, ticksLeft, quit, running, executed,
                   fulfilled>>

Exec ==
    /\ main = "exec" /\ batch # <<>>
    /\ batch' = Tail(batch)
    /\ LET r == Head(batch)[1]  c == Head(batch)[2] IN
          /\ executed' = [executed EXCEPT ![r] = @ + 1]
          /\ \/ /\ c = "step"
                /\ step' = r /\ ticksLeft' \in 1..MaxTicks
                /\ UNCHANGED <<quit, fulfilled>>
             \/ /\ c \in {"now", "quit"}
                /\ Fulfil(r)
                /\ quit' = (quit \/ c = "quit")
                /\ UNCHANGED <<step, ticksLeft>>
    /\ UNCHANGED <<up, threadVars, peerVars, sent, queue, main, running>>

ExecDone ==
    /\ main = "exec" /\ batch = <<>>
    /\ running' = (running /\ ~quit)
    /\ main' = "guest"
    /\ UNCHANGED <<up, threadVars, peerVars, sent, queue, batch, step, ticksLeft, quit, executed,
                   fulfilled>>

(* The rest of the iteration: some ticks, or none; it may clear running. *)
GuestAdvances ==
    /\ main = "guest"
    /\ ticksLeft' \in 0..ticksLeft
    /\ running' \in {running, FALSE}
    /\ main' = "finish"
    /\ UNCHANGED <<up, threadVars, peerVars, sent, queue, batch, step, quit, executed, fulfilled>>

FinishStep_Kept ==
    \/ /\ step # None /\ (ticksLeft = 0 \/ ~running)
       /\ Fulfil(step) /\ UNCHANGED step
    \/ /\ step = None \/ (ticksLeft # 0 /\ running)
       /\ UNCHANGED <<step, fulfilled>>

FinishStep_OnlyInTime ==
    \/ /\ step # None /\ ticksLeft = 0
       /\ Fulfil(step) /\ step' = None
    \/ /\ step = None \/ ticksLeft # 0
       /\ UNCHANGED <<step, fulfilled>>

(* The pending step is answered when its ticks are done or the loop ends. *)
FinishStep ==
    \/ /\ step # None /\ (ticksLeft = 0 \/ ~running)
       /\ Fulfil(step) /\ step' = None
    \/ /\ step = None \/ (ticksLeft # 0 /\ running)
       /\ UNCHANGED <<step, fulfilled>>

IterationEnds ==
    /\ main = "finish"
    /\ FinishStep
    /\ main' = (IF running THEN "drain" ELSE "stop")
    /\ UNCHANGED <<up, threadVars, peerVars, sent, queue, batch, ticksLeft, quit, running,
                   executed>>

(* Stop: running_ is cleared and the listening socket shut down, then join. *)
Stop ==
    /\ main = "stop"
    /\ up' = FALSE
    /\ main' = "joining"
    /\ UNCHANGED <<threadVars, peerVars, sent, queue, batch, step, ticksLeft, quit, running,
                   executed, fulfilled>>

Join ==
    /\ main = "joining" /\ At("exited")
    /\ main' = "done"
    /\ UNCHANGED <<up, threadVars, peerVars, sent, queue, batch, step, ticksLeft, quit, running,
                   executed, fulfilled>>

MainLoop ==
    DrainRequests \/ Exec \/ ExecDone \/ GuestAdvances \/ IterationEnds \/ Stop \/ Join

Done == main = "done" /\ UNCHANGED controlVars

ControlNext == Controller \/ ServerThread \/ MainLoop \/ Done

ControlSpec == ControlInit /\ [][ControlNext]_controlVars

(* Two threads that run whenever they can.  Of the controller nothing is
   assumed: it may stay connected and silent for ever. *)
FairControlSpec ==
    ControlSpec /\ WF_controlVars(ServerThread) /\ WF_controlVars(MainLoop)

-----------------------------------------------------------------------------
(* Properties. *)

In(r, s) == \E i \in DOMAIN s : s[i][1] = r

(* No promise is set twice: the second set_value would throw out of the main
   loop (ControlExec, and the end of the iteration that answers a step). *)
FulfilledOnce == \A r \in Requests : fulfilled[r] <= 1

(* The request the thread waits for is never forgotten while the loop runs: it
   is queued, drained, the pending step, or answered.  A later step overwrites
   ctl_step_req, but only when nobody waits for the earlier one any more. *)
WaiterRemembered ==
    At("wait") /\ main \notin {"stop", "joining", "done"} =>
        fulfilled[req] > 0 \/ In(req, queue) \/ In(req, batch) \/ step = req

(* Commands run in the order the controller sent them, also those of a request
   that timed out (Enqueue, Drain and the batch loop keep the order). *)
ExecutedInOrder ==
    \A r, q \in Requests : executed[r] > 0 /\ q < r => executed[q] > 0

(* Stop waits for nothing but a connection that stays open and silent: not for
   a request nobody will answer, nor for the accept it interrupted. *)
StopReturns == main = "joining" ~> (main = "done" \/ (At("recv") /\ client = "open"))

(* A step is answered when the loop ends, whether or not the ticks came. *)
StepAnswered == step # None /\ ~running ~> step = None

-----------------------------------------------------------------------------
(* Why the safety properties hold, for any number of requests, lines and ticks. *)

(* How many requests the main loop has taken up: those sent, but for the ones
   that are drained or queued. *)
Taken == sent - Len(batch) - Len(queue)

(* What is drained and what is queued are the requests after those, one after
   the other; those are executed, each once. *)
InLine ==
    /\ Taken >= 0
    /\ \A i \in 1..Len(batch) : batch[i][1] = Taken + i
    /\ \A i \in 1..Len(queue) : queue[i][1] = Taken + Len(batch) + i
    /\ \A r \in Requests : executed[r] = IF r <= Taken THEN 1 ELSE 0

(* A promise is set at most once, of a request taken up that is not the pending
   step; the last request is neither lost nor unanswered. *)
Answered ==
    /\ step <= Taken
    /\ \A r \in Requests : fulfilled[r] \in 0..1
    /\ \A r \in Requests : fulfilled[r] = 1 => r <= Taken /\ r # step
    /\ sent > 0 /\ Taken = sent => fulfilled[sent] = 1 \/ step = sent
    /\ At("wait") => sent > 0 /\ req = sent
    /\ main # "exec" => batch = <<>>

ControlInv == ControlTypeOK /\ InLine /\ Answered
=============================================================================
