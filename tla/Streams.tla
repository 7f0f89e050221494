------------------------------- MODULE Streams -------------------------------
(***************************************************************************)
(* The streams of the title: IMemAStream over a buffer                     *)
(* (src/core/brew/mem_astream_hle.cpp) and IUnzipAStream over another      *)
(* stream (src/core/brew/unzip_stream_hle.cpp).  Readable asks for a       *)
(* callback; Tick, which the main loop calls, takes the callbacks asked    *)
(* for so far and runs them one by one; a callback may itself ask again,   *)
(* cancel, or release any stream.                                          *)
(*                                                                         *)
(* Memory streams are the odd numbers and unzip streams the even ones: the *)
(* classes number their objects and queue their callbacks apart, and in    *)
(* the same way.                                                           *)
(***************************************************************************)
EXTENDS Integers, Vectors

CONSTANTS
  Streams,           \* the stream objects
  Sizes,             \* the sizes of buffers and of expanded data
  MaxNotices

VARIABLES
  streams,           \* the live streams
  pending,           \* pending_readable_: the notices asked for and not taken
  batch,             \* deferred: those Tick has taken and not yet passed
  inside,            \* the notice whose callback runs, or 0
  notices,           \* for each notice: its stream, its user and what became of it
  last               \* the last Read: what was asked, left and answered

streamVars == <<streams, pending, batch, inside, notices, last>>

IsUnzip(s) == s % 2 = 0
NoRead == [want |-> 0, left |-> 0, got |-> 0]
Fresh == [refs |-> 1, size |-> 0, position |-> 0, source |-> 0,
          attempted |-> FALSE, expanded |-> FALSE]

StreamInit ==
  /\ streams = [s \in Streams |-> Fresh]
  /\ pending = <<>>
  /\ batch = <<>>
  /\ inside = 0
  /\ notices = <<>>
  /\ last = NoRead

Live == DOMAIN streams
Without(s) == [t \in Live \ {s} |-> streams[t]]
Fate(ns, fate) == [n \in DOMAIN notices |->
                     IF n \in ns THEN [notices[n] EXCEPT !.fate = fate] ELSE notices[n]]

AddRef(s) ==
  /\ s \in Live
  /\ streams[s].refs < 2           \* a bound of the model
  /\ streams' = [streams EXCEPT ![s].refs = @ + 1]
  /\ UNCHANGED <<pending, batch, inside, notices, last>>

(* The last release takes the stream's notices out of the queue; those a   *)
(* Tick has already taken are passed over when their turn comes.           *)
Release(s) ==
  /\ s \in Live
  /\ IF streams[s].refs > 1
     THEN /\ streams' = [streams EXCEPT ![s].refs = @ - 1]
          /\ UNCHANGED <<pending, notices>>
     ELSE /\ streams' = Without(s)
          /\ pending' \in Kept(pending, {i \in DOMAIN pending :
                                            notices[pending[i]].stream # s})
          /\ notices' = Fate({n \in DOMAIN notices :
                                notices[n].stream = s /\ notices[n].fate = "asked"}, "released")
  /\ UNCHANGED <<batch, inside, last>>

\* queued whether the stream is live or not
Readable(s, user) ==
  /\ Len(notices) < MaxNotices
  /\ notices' = Append(notices, [stream |-> s, user |-> user,
                                 fate |-> IF s \in Live THEN "asked" ELSE "released"])
  /\ pending' = Append(pending, Len(notices) + 1)
  /\ UNCHANGED <<streams, batch, inside, last>>

(* Cancel: one callback, or with none named all of the stream's.  It       *)
(* reaches only the queue, not what a Tick in progress has taken.          *)
Named(n, s, user) == notices[n].stream = s /\ user \in {"any", notices[n].user}
Cancel(s, user) ==
  /\ pending' \in Kept(pending, {i \in DOMAIN pending : ~Named(pending[i], s, user)})
  /\ notices' = Fate({n \in Elems(pending) : Named(n, s, user)}, "cancelled")
  /\ UNCHANGED <<streams, batch, inside, last>>

(* Set: the position given is cut to the size.                             *)
Set(s, size, offset) ==
  /\ s \in Live /\ ~IsUnzip(s)
  /\ streams' = [streams EXCEPT ![s].size = size,
                                ![s].position = IF offset < size THEN offset ELSE size]
  /\ UNCHANGED <<pending, batch, inside, notices, last>>

SetStream(s, source) ==
  /\ s \in Live /\ IsUnzip(s)
  /\ streams' = [streams EXCEPT ![s] = [Fresh EXCEPT !.refs = streams[s].refs,
                                                     !.source = source]]
  /\ UNCHANGED <<pending, batch, inside, notices, last>>

(* Expand: tried once for each source.  It drains the source (here always  *)
(* a memory stream), whether or not the data inflate afterwards.           *)
CanExpand(s) == ~streams[s].attempted
Drained(s) ==
  LET source == streams[s].source
  IN  IF source \in Live
      THEN [streams EXCEPT ![source].position = streams[source].size] ELSE streams
HasData(s) ==
  LET source == streams[s].source
  IN  source \in Live /\ streams[source].position < streams[source].size

(* Read: what is left, at most what is wanted; -1 from an unzip stream     *)
(* that could not expand.                                                  *)
Got_Wanted(want, left) == want
Got(want, left) == IF want < left THEN want ELSE left
Reading(from, s, want) ==
  LET left == from[s].size - from[s].position
  IN  /\ last' = [want |-> want, left |-> left, got |-> Got(want, left)]
      /\ streams' = [from EXCEPT ![s].position = @ + Got(want, left)]
Read(s, want) ==
  /\ s \in Live
  /\ IF ~IsUnzip(s) \/ streams[s].expanded THEN Reading(streams, s, want)
     ELSE IF ~CanExpand(s) THEN last' = [NoRead EXCEPT !.got = 0 - 1] /\ UNCHANGED streams
     ELSE \/ /\ HasData(s)
             /\ \E size \in Sizes :
                  Reading([Drained(s) EXCEPT ![s].attempted = TRUE, ![s].expanded = TRUE,
                                             ![s].size = size], s, want)
          \/ /\ streams' = [Drained(s) EXCEPT ![s].attempted = TRUE]
             /\ last' = [NoRead EXCEPT !.got = 0 - 1]
  /\ UNCHANGED <<pending, batch, inside, notices>>

(* Tick: the queue is taken whole before the first callback runs.          *)
BeginTick ==
  /\ inside = 0 /\ batch = <<>> /\ pending # <<>>
  /\ batch' = pending
  /\ pending' = <<>>
  /\ UNCHANGED <<streams, inside, notices, last>>
NextNotice ==
  /\ inside = 0 /\ batch # <<>>
  /\ LET n == Head(batch)
         calls == notices[n].stream \in Live
     IN  /\ batch' = Tail(batch)
         /\ inside' = IF calls THEN n ELSE 0
         /\ notices' = IF calls /\ notices[n].fate = "asked" THEN Fate({n}, "called")
                       ELSE IF calls THEN Fate({n}, "again") ELSE notices
  /\ UNCHANGED <<streams, pending, last>>
CallbackReturns_ClearsQueue ==
  /\ inside # 0
  /\ inside' = 0
  /\ pending' = IF batch = <<>> THEN <<>> ELSE pending
  /\ UNCHANGED <<streams, batch, notices, last>>
CallbackReturns ==
  /\ inside # 0
  /\ inside' = 0
  /\ UNCHANGED <<streams, pending, batch, notices, last>>

Guest ==
  \E s \in Streams :
    \/ AddRef(s) \/ Release(s)
    \/ \E user \in {"x", "y"} : Readable(s, user)
    \/ \E user \in {"x", "any"} : Cancel(s, user)
    \/ \E size, offset \in Sizes : Set(s, size, offset)
    \/ \E source \in {t \in Streams : ~IsUnzip(t)} : SetStream(s, source)
    \/ \E want \in Sizes : Read(s, want)
\* the guest runs between two ticks, and inside a callback
StreamTick == BeginTick \/ NextNotice \/ CallbackReturns
StreamNext == ((batch = <<>> \/ inside # 0) /\ Guest) \/ StreamTick
StreamSpec == StreamInit /\ [][StreamNext]_streamVars /\ WF_streamVars(StreamTick)

StreamTypeOK ==
  /\ Live \subseteq Streams
  /\ \A s \in Live : streams[s].position \in 0 .. streams[s].size
  /\ Elems(pending) \cup Elems(batch) \subseteq DOMAIN notices
  /\ inside \in {0} \cup DOMAIN notices

(* Each Readable is answered by at most one callback, none after a Cancel  *)
(* that found it waiting, and none once its stream is gone; and a Read     *)
(* never gives more than is left (mem_astream_hle.cpp:100).                *)
AnsweredOnce ==
  /\ \A n \in DOMAIN notices : notices[n].fate # "again"
  /\ last.got <= last.left /\ last.got <= last.want

Waiting(n) == n \in DOMAIN notices /\ notices[n].fate = "asked"
Settled(n) == n \in DOMAIN notices /\ notices[n].fate # "asked"

(* Every Readable is answered in the end, unless it is cancelled or its    *)
(* stream is released: also those asked for inside a callback, which the   *)
(* Tick in progress must not drop.                                         *)
NoticesServed ==
  \A n \in 1 .. MaxNotices : Waiting(n) ~> Settled(n)

-----------------------------------------------------------------------------
(* Why AnsweredOnce holds: a notice waits at one place only, queued or taken by
   a Tick; one that waits is still asked for, or its stream is gone, and a stream
   that is gone does not come back; and a stream that could not expand has no
   bytes to stand in.  *)
StreamObject == [refs : Nat, size : Nat, position : Nat, source : Streams \cup {0},
                 attempted : BOOLEAN, expanded : BOOLEAN]
Notice == [stream : Streams, user : {"x", "y"},
           fate : {"asked", "called", "cancelled", "released"}]

StreamsInside ==
  /\ Live \subseteq Streams /\ streams \in [Live -> StreamObject]
  /\ \A s \in Live : /\ streams[s].position <= streams[s].size
                     /\ IsUnzip(s) /\ ~streams[s].expanded => streams[s].size = 0
NoticesApart ==
  /\ pending \in Seq(DOMAIN notices) /\ batch \in Seq(DOMAIN notices)
  /\ Distinct(pending) /\ Distinct(batch)
  /\ Elems(pending) \cap Elems(batch) = {}
  /\ inside \in {0} \cup DOMAIN notices
StillAsked(n) == notices[n].fate = "asked" \/ notices[n].stream \notin Live
ReadsWithin ==
  /\ last \in [want : Nat, left : Nat, got : Int]
  /\ last.got <= last.left /\ last.got <= last.want

StreamInv ==
  /\ StreamsInside
  /\ notices \in Seq(Notice)
  /\ NoticesApart
  /\ \A n \in Elems(pending) \cup Elems(batch) : StillAsked(n)
  /\ ReadsWithin
=============================================================================
