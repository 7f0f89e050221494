------------------------------ MODULE MediaHle -----------------------------
(***************************************************************************)
(* IMedia objects over the mixer: core/brew/media_hle.cpp and              *)
(* core/audio/mixer.cpp.  Guest code calls the methods of IMedia, from the *)
(* event loop and from inside the notifications MediaHle::Tick delivers;   *)
(* the loop mixes between ticks.  Save states are in MediaSaves.           *)
(*                                                                         *)
(* Samples, volume and formats are left out.  A clip is a sound, or empty: *)
(* the mixer never advances a voice without frames.  Positions are left    *)
(* out too: a playing voice may come to its end in any call of Mix.        *)
(***************************************************************************)
EXTENDS Vectors, FiniteSets

CONSTANTS
    Notifies,       \* (pfnNotify, pUser) pairs the guest registers
    NoNotify,       \* notify_fn = 0
    Sounds,         \* clips the guest has: "sound", "empty"
    Loops,          \* values of the loop flag the guest sets
    MaxObjects,     \* bound: object addresses 1..MaxObjects
    MaxVoices,      \* bound: voices 1..MaxVoices
    MaxGenerations, \* bound: objects ever created or restored
    MaxRefs         \* bound: references to one object

ASSUME MediaAssumption ==
    /\ {MaxObjects, MaxVoices, MaxGenerations, MaxRefs} \subseteq Nat /\ MaxRefs > 0
    /\ NoNotify \notin Notifies
    /\ Sounds \subseteq {"sound", "empty"} /\ Loops \subseteq BOOLEAN

Addresses == 1..MaxObjects
Voices == 1..MaxVoices
Clips == {"none"} \cup Sounds

VARIABLES
    media,      \* media_by_object_: live address -> Media
    nextObject, \* next_object_address_
    free,       \* free_object_addresses_
    nextGen,    \* next_generation_
    queue,      \* pending_notifications_
    nextVoice,  \* next_id_ of the mixer
    voices,     \* voices_: active voice -> [paused, loop, clip]
    phase,      \* where Tick is
    batch,      \* the notifications Tick still has to look at
    inCallback, \* a notification's guest code runs
    held,       \* references the guest holds, part of its own memory
    told,       \* history: how often a notification about a voice was delivered
    owners      \* history: the generation that played each voice

objectVars == <<media, nextObject, free, nextGen>>
mixerVars  == <<nextVoice, voices>>
tickVars   == <<phase, batch, inCallback>>
histVars   == <<told, owners>>
mediaVars  == <<objectVars, queue, mixerVars, tickVars, held, histVars>>

Media == [gen : 1..MaxGenerations, clip : Clips, voice : 0..MaxVoices, hasVoice : BOOLEAN,
          loop : BOOLEAN, state : {"idle", "ready", "play", "pause"},
          notify : Notifies \cup {NoNotify}, refs : 1..MaxRefs]

Voice == [paused : BOOLEAN, loop : BOOLEAN, clip : Sounds]

(* A queued notification; voice is what it is about (history). *)
Notice == [obj : Addresses, gen : 1..MaxGenerations, notify : Notifies, voice : Voices]

Live == DOMAIN media

MediaTypeOK ==
    /\ Live \subseteq Addresses /\ media \in [Live -> Media]
    /\ nextObject \in 1..MaxObjects + 1
    /\ free \in Seq(Addresses)
    /\ nextGen \in 1..MaxGenerations + 1
    /\ queue \in Seq(Notice)
    /\ nextVoice \in 1..MaxVoices + 1
    /\ DOMAIN voices \subseteq Voices /\ voices \in [DOMAIN voices -> Voice]
    /\ phase \in {"out", "deferred", "done"}
    /\ batch \in Seq(Notice)
    /\ inCallback \in BOOLEAN
    /\ held \in [Addresses -> 0..MaxRefs]
    /\ told \in [Voices -> Nat]
    /\ owners \in [Voices -> 0..MaxGenerations]

MediaInit ==
    /\ media = <<>> /\ nextObject = 1 /\ free = <<>> /\ nextGen = 1
    /\ queue = <<>>
    /\ nextVoice = 1 /\ voices = <<>>
    /\ phase = "out" /\ batch = <<>> /\ inCallback = FALSE
    /\ held = [a \in Addresses |-> 0]
    /\ told = [v \in Voices |-> 0] /\ owners = [v \in Voices |-> 0]

-----------------------------------------------------------------------------
(* The mixer. *)

IsPlaying(v) == v \in DOMAIN voices

Without(f, S) == [x \in DOMAIN f \ S |-> f[x]]

(* Mix: the voices that come to their end leave in the same critical section.
   Several objects' voices may end in one call. *)
Mix ==
    /\ phase = "out"
    /\ \E V \in SUBSET {v \in DOMAIN voices :
                           voices[v] = [paused |-> FALSE, loop |-> FALSE, clip |-> "sound"]} :
          /\ V # {}
          /\ voices' = Without(voices, V)
    /\ UNCHANGED <<objectVars, queue, nextVoice, tickVars, held, histVars>>

SetPaused(v, p) == voices' = [w \in DOMAIN voices |->
    IF w = v THEN [voices[w] EXCEPT !.paused = p] ELSE voices[w]]

-----------------------------------------------------------------------------
(* The methods of IMedia, called by guest code: from the loop, or from inside
   a notification. *)

GuestRuns == phase = "out" \/ inCallback

With(a, m) == [x \in Live \cup {a} |-> IF x = a THEN m ELSE media[x]]

Allocate_NoPop(a) ==
    \/ free # <<>> /\ a = free[Len(free)] /\ UNCHANGED <<free, nextObject>>
    \/ free = <<>> /\ a = nextObject /\ nextObject' = nextObject + 1 /\ UNCHANGED free

(* The address freed last is used again first. *)
Allocate(a) ==
    \/ /\ free # <<>> /\ a = free[Len(free)]
       /\ free' = SubSeq(free, 1, Len(free) - 1)
       /\ UNCHANGED nextObject
    \/ /\ free = <<>> /\ a = nextObject
       /\ nextObject' = nextObject + 1
       /\ UNCHANGED free

(* AllocateMediaObject: the object is born with one reference. *)
CreateMediaObject ==
    /\ GuestRuns /\ nextGen <= MaxGenerations
    /\ \E a \in Addresses :
          /\ Allocate(a)
          /\ media' = With(a, [gen |-> nextGen, clip |-> "none", voice |-> 0, hasVoice |-> FALSE,
                               loop |-> FALSE, state |-> "idle", notify |-> NoNotify, refs |-> 1])
          /\ held' = [held EXCEPT ![a] = 1]
    /\ nextGen' = nextGen + 1
    /\ UNCHANGED <<queue, mixerVars, tickVars, histVars>>

AddRef(a) ==
    /\ media[a].refs < MaxRefs /\ held[a] < MaxRefs
    /\ media' = [media EXCEPT ![a].refs = @ + 1]
    /\ held' = [held EXCEPT ![a] = @ + 1]
    /\ UNCHANGED <<nextObject, free, nextGen, queue, mixerVars, histVars>>

(* The voice the object has. *)
VoiceOf(a) == IF media[a].hasVoice THEN {media[a].voice} ELSE {}

OneLess_OffByOne(a) ==
    /\ media[a].refs >= 1
    /\ media' = [media EXCEPT ![a].refs = @ - 1]
    /\ UNCHANGED <<free, queue, voices>>

OneLess(a) ==
    /\ media[a].refs > 1
    /\ media' = [media EXCEPT ![a].refs = @ - 1]
    /\ UNCHANGED <<free, queue, voices>>

LastRelease_KeepsVoice(a) ==
    /\ media[a].refs = 1
    /\ voices' = voices
    /\ queue' \in Kept(queue, {i \in DOMAIN queue :
                          ~(queue[i].obj = a /\ queue[i].gen = media[a].gen)})
    /\ media' = Without(media, {a})
    /\ free' = Append(free, a)

(* The last reference stops the voice, drops the object's queued
   notifications and returns its address. *)
LastRelease(a) ==
    /\ media[a].refs = 1
    /\ voices' = Without(voices, VoiceOf(a))
    /\ queue' \in Kept(queue, {i \in DOMAIN queue :
                          ~(queue[i].obj = a /\ queue[i].gen = media[a].gen)})
    /\ media' = Without(media, {a})
    /\ free' = Append(free, a)

Release(a) ==
    /\ held[a] > 0
    /\ held' = [held EXCEPT ![a] = @ - 1]
    /\ OneLess(a) \/ LastRelease(a)
    /\ UNCHANGED <<nextObject, nextGen, nextVoice, histVars>>

RegisterNotify(a, n) ==
    /\ media' = [media EXCEPT ![a].notify = n]
    /\ UNCHANGED <<nextObject, free, nextGen, queue, mixerVars, held, histVars>>

(* SetMediaParm with MM_PARM_MEDIA_DATA, when the data decodes; a voice that
   plays goes on playing. *)
SetMediaData(a, c) ==
    /\ media' = [media EXCEPT ![a].clip = c, ![a].state = "ready"]
    /\ UNCHANGED <<nextObject, free, nextGen, queue, mixerVars, held, histVars>>

(* MM_PARM_PLAY_REPEAT: for the next Play. *)
SetRepeat(a, l) ==
    /\ media' = [media EXCEPT ![a].loop = l]
    /\ UNCHANGED <<nextObject, free, nextGen, queue, mixerVars, held, histVars>>

Abort_OnlyStarted(a) ==
    IF media[a].notify = NoNotify \/ ~IsPlaying(media[a].voice) THEN queue
    ELSE Append(queue, [obj |-> a, gen |-> media[a].gen, notify |-> media[a].notify,
                        voice |-> media[a].voice])

(* The ABORT notification of the voice the object plays. *)
Abort(a) ==
    IF media[a].notify = NoNotify THEN queue
    ELSE Append(queue, [obj |-> a, gen |-> media[a].gen, notify |-> media[a].notify,
                        voice |-> media[a].voice])

(* Play: a voice the object still has is cut off and its end announced. *)
Play(a) ==
    /\ media[a].clip # "none" /\ nextVoice <= MaxVoices
    /\ queue' = (IF media[a].hasVoice THEN Abort(a) ELSE queue)
    /\ voices' = [v \in (DOMAIN voices \ VoiceOf(a)) \cup {nextVoice} |->
                     IF v = nextVoice
                     THEN [paused |-> FALSE, loop |-> media[a].loop, clip |-> media[a].clip]
                     ELSE voices[v]]
    /\ nextVoice' = nextVoice + 1
    /\ media' = [media EXCEPT ![a].voice = nextVoice, ![a].hasVoice = TRUE, ![a].state = "play"]
    /\ owners' = [owners EXCEPT ![nextVoice] = media[a].gen]
    /\ UNCHANGED <<nextObject, free, nextGen, held, told>>

Stop(a) ==
    /\ queue' = (IF media[a].hasVoice THEN Abort(a) ELSE queue)
    /\ voices' = Without(voices, VoiceOf(a))
    /\ media' = [media EXCEPT ![a].hasVoice = FALSE,
                              ![a].state = IF media[a].clip # "none" THEN "ready" ELSE "idle"]
    /\ UNCHANGED <<nextObject, free, nextGen, nextVoice, held, histVars>>

Pause(a) ==
    /\ media[a].hasVoice
    /\ SetPaused(media[a].voice, TRUE)
    /\ media' = [media EXCEPT ![a].state = "pause"]
    /\ UNCHANGED <<nextObject, free, nextGen, queue, nextVoice, held, histVars>>

Resume(a) ==
    /\ media[a].hasVoice
    /\ SetPaused(media[a].voice, FALSE)
    /\ media' = [media EXCEPT ![a].state = "play"]
    /\ UNCHANGED <<nextObject, free, nextGen, queue, nextVoice, held, histVars>>

(* GetState takes note of a voice that came to its end. *)
GetState(a) ==
    /\ media[a].hasVoice /\ ~IsPlaying(media[a].voice)
    /\ media' = [media EXCEPT ![a].hasVoice = FALSE, ![a].state = "ready"]
    /\ UNCHANGED <<nextObject, free, nextGen, queue, mixerVars, held, histVars>>

MediaCall ==
    /\ GuestRuns
    /\ \E a \in Live :
          \/ AddRef(a) \/ Release(a)
          \/ \E n \in Notifies \cup {NoNotify} : RegisterNotify(a, n)
          \/ \E c \in Sounds : SetMediaData(a, c)
          \/ \E l \in Loops : SetRepeat(a, l)
          \/ Play(a) \/ Stop(a) \/ Pause(a) \/ Resume(a) \/ GetState(a)
    /\ UNCHANGED tickVars

-----------------------------------------------------------------------------
(* MediaHle::Tick. *)

(* Deferred notifications first: the queue is taken as it stands. *)
TickBegin ==
    /\ phase = "out"
    /\ batch' = queue /\ queue' = <<>>
    /\ phase' = "deferred"
    /\ UNCHANGED <<objectVars, mixerVars, inCallback, held, histVars>>

Current_AnyGeneration(n) ==
    n.obj \in Live /\ media[n.obj].notify = n.notify

(* The object is the one that queued the notification and still asks for it. *)
Current(n) ==
    n.obj \in Live /\ media[n.obj].gen = n.gen /\ media[n.obj].notify = n.notify

Deliver ==
    /\ phase \in {"deferred", "done"} /\ ~inCallback /\ batch # <<>>
    /\ Current(Head(batch))
    /\ inCallback' = TRUE
    /\ told' = [told EXCEPT ![Head(batch).voice] = @ + 1]
    /\ batch' = Tail(batch)
    /\ UNCHANGED <<objectVars, queue, mixerVars, phase, held, owners>>

Discard ==
    /\ phase \in {"deferred", "done"} /\ ~inCallback /\ batch # <<>>
    /\ ~Current(Head(batch))
    /\ batch' = Tail(batch)
    /\ UNCHANGED <<objectVars, queue, mixerVars, phase, inCallback, held, histVars>>

CallbackReturns ==
    /\ inCallback
    /\ inCallback' = FALSE
    /\ UNCHANGED <<objectVars, queue, mixerVars, phase, batch, held, histVars>>

Finished_InPlay ==
    {a \in Live : /\ media[a].hasVoice /\ media[a].notify # NoNotify
                  /\ media[a].state = "play" /\ ~IsPlaying(media[a].voice)}

(* The objects whose voice came to its end since the last look. *)
Finished ==
    {a \in Live : /\ media[a].hasVoice /\ media[a].notify # NoNotify
                  /\ ~IsPlaying(media[a].voice)}

(* Then the voices that came to their end, in the map's own order; they are
   marked before the first of them is announced. *)
Scan ==
    /\ phase = "deferred" /\ ~inCallback /\ batch = <<>>
    /\ \E order \in [1..Cardinality(Finished) -> Finished] :
          /\ \A a \in Finished : \E i \in DOMAIN order : order[i] = a
          /\ batch' = [i \in DOMAIN order |->
                          [obj |-> order[i], gen |-> media[order[i]].gen,
                           notify |-> media[order[i]].notify, voice |-> media[order[i]].voice]]
    /\ media' = [a \in Live |->
                    IF a \in Finished THEN [media[a] EXCEPT !.hasVoice = FALSE, !.state = "ready"]
                    ELSE media[a]]
    /\ phase' = "done"
    /\ UNCHANGED <<nextObject, free, nextGen, queue, mixerVars, inCallback, held, histVars>>

TickEnd ==
    /\ phase = "done" /\ ~inCallback /\ batch = <<>>
    /\ phase' = "out"
    /\ UNCHANGED <<objectVars, queue, mixerVars, batch, inCallback, held, histVars>>

Tick == TickBegin \/ Deliver \/ Discard \/ CallbackReturns \/ Scan \/ TickEnd

MediaNext == CreateMediaObject \/ MediaCall \/ Tick \/ Mix

MediaSpec == MediaInit /\ [][MediaNext]_mediaVars

(* The loop calls Tick again and again, and a notification's guest code
   returns. *)
FairMediaSpec == MediaSpec /\ WF_mediaVars(Tick)

-----------------------------------------------------------------------------
(* Properties. *)

(* No sound without an owner: whatever the mixer adds up was played by exactly
   one object that is still there (Release stops the voice, Play and Stop
   replace it). *)
NoGhostVoice ==
    \A v \in DOMAIN voices :
        \E a \in Live : /\ media[a].hasVoice /\ media[a].voice = v
                        /\ \A b \in Live : media[b].hasVoice /\ media[b].voice = v => a = b

(* An address is handed out again only when nobody has it: the free list and
   the live objects never meet. *)
AddressesApart ==
    /\ Distinct(free)
    /\ Elems(free) \cap Live = {}
    /\ \A a \in Live \cup Elems(free) : a < nextObject

(* The object that played v is still there. *)
OwnerLives(v) == \E a \in Live : media[a].gen = owners[v]

Owner(v) == CHOOSE a \in Live : media[a].gen = owners[v]

Queued(v) == \E n \in Elems(queue) \cup Elems(batch) : n.voice = v

(* What has become of a voice. *)
Fate(v) ==
    CASE v >= nextVoice -> "unused"
      [] told[v] = 1 -> "told"
      [] told[v] > 1 -> "told again"
      [] IsPlaying(v) -> "playing"
      [] /\ v < nextVoice /\ told[v] = 0 /\ ~IsPlaying(v)
         /\ OwnerLives(v)
         /\ Queued(v) \/ (media[Owner(v)].hasVoice /\ media[Owner(v)].voice = v) -> "owed"
      [] OTHER -> "void"

fates == [v \in Voices |-> Fate(v)]

Notices == INSTANCE PlayNotices
             WITH Owners <- 0..MaxGenerations, fate <- fates, owner <- owners

(* Queue, batch, generations and has_voice together announce each sound at
   most once, after it ended, to the incarnation of the object that played it,
   and the sounds of one object in the order they were played. *)
ImplementsPlayNotices == Notices!NoticesSpec

(* The guest asked for something else than what a notice of v would tell it:
   it registered nothing, or something new since the notice was queued. *)
AsksNoMore(v) ==
    OwnerLives(v) =>
        \/ media[Owner(v)].notify = NoNotify
        \/ \E n \in Elems(queue) \cup Elems(batch) :
              n.voice = v /\ n.notify # media[Owner(v)].notify

(* The notice of v is lost in a step although its object is still there and
   wants it. *)
Loses(v) ==
    /\ Fate(v) \in {"playing", "owed"} /\ ~AsksNoMore(v)
    /\ Fate(v)' = "void" /\ OwnerLives(v)'

(* A sound that ended or was cut off by Play or Stop is announced unless the
   object was released, asks for something else or learnt of the end from
   GetState. *)
NoticeKept ==
    [][(\A v \in Voices : ~Loses(v)) \/ (\E a \in Live : GetState(a))]_mediaVars

(* The same without the exception for GetState (class comment in media_hle.h:
   Tick announces every voice that finished since the last Tick). *)
EveryFinishAnnounced == [][\A v \in Voices : ~Loses(v)]_mediaVars

(* What is owed is told, or nobody wants it any more: a notice does not wait
   for ever in the queue or in has_voice. *)
NoticeArrives ==
    \A v \in Voices : Fate(v) = "owed" ~> (Fate(v) # "owed" \/ AsksNoMore(v))
=============================================================================
