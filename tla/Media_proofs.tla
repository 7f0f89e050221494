----------------------------- MODULE Media_proofs ---------------------------
(***************************************************************************)
(* The media objects and their save states, for any number of objects,     *)
(* voices, references and sounds: types, one owner for every voice, no     *)
(* address handed out twice, the notifications and what they promise, and  *)
(* what is left of all that when a state is loaded.                        *)
(***************************************************************************)
EXTENDS MediaSaves, Vectors_proofs, FiniteSetTheorems

(* The voice an object has is one the mixer gave out, and no other object's. *)
VoicesGiven ==
    /\ \A a \in Live : media[a].hasVoice => media[a].voice \in 1..nextVoice - 1
    /\ \A a, b \in Live : /\ media[a].hasVoice /\ media[b].hasVoice
                          /\ media[a].voice = media[b].voice
                          => a = b
    /\ DOMAIN voices \subseteq 1..nextVoice - 1

(* Every voice the mixer adds up is some object's. *)
VoicesOwned ==
    \A v \in DOMAIN voices : \E a \in Live : media[a].hasVoice /\ media[a].voice = v

(* What also holds after a state was loaded, and what only a session without
   one keeps: the free list of the boot may name objects of the file. *)
MediaCore == MediaTypeOK /\ VoicesGiven

Tidy == VoicesOwned /\ AddressesApart

MediaInv == MediaCore /\ Tidy

-----------------------------------------------------------------------------
LEMMA MediaBounds ==
    /\ MaxObjects \in Nat /\ MaxVoices \in Nat /\ MaxGenerations \in Nat /\ MaxRefs \in Nat
    /\ MaxRefs > 0
    /\ NoNotify \notin Notifies
    /\ Clips \ {"none"} \subseteq Sounds /\ Sounds \subseteq Clips
    /\ Loops \subseteq BOOLEAN
  BY MediaAssumption DEF Clips

LEMMA MediaInitially == MediaInit => MediaInv
<1> SUFFICES ASSUME MediaInit
             PROVE  MediaInv
  OBVIOUS
<1>1. Live = {} /\ DOMAIN voices = {} /\ Elems(free) = {} /\ Distinct(free)
  BY DEF MediaInit, Live, Elems, Distinct
<1>2. media \in [Live -> Media] /\ voices \in [DOMAIN voices -> Voice]
  BY <1>1 DEF MediaInit
<1>3. free \in Seq(Addresses) /\ queue \in Seq(Notice) /\ batch \in Seq(Notice)
  BY DEF MediaInit
<1>4. nextObject \in 1..MaxObjects + 1 /\ nextGen \in 1..MaxGenerations + 1
      /\ nextVoice \in 1..MaxVoices + 1
  BY MediaBounds DEF MediaInit
<1>5. /\ held \in [Addresses -> 0..MaxRefs] /\ told \in [Voices -> Nat]
      /\ owners \in [Voices -> 0..MaxGenerations]
  BY MediaBounds DEF MediaInit
<1>6. MediaTypeOK
  BY <1>1, <1>2, <1>3, <1>4, <1>5 DEF MediaTypeOK, MediaInit
<1> QED
  BY <1>1, <1>6 DEF MediaInv, MediaCore, Tidy, VoicesGiven, VoicesOwned, AddressesApart

-----------------------------------------------------------------------------
(* The addresses stay apart while nothing is handed out or returned. *)
LEMMA AddressesStay ==
    ASSUME AddressesApart, UNCHANGED <<free, nextObject>>, Live' \subseteq Live
    PROVE  AddressesApart'
  BY DEF AddressesApart, Elems, Distinct

-----------------------------------------------------------------------------
(* One object changes. *)

LEMMA OneObject ==
    ASSUME MediaCore, NEW a \in Live, NEW m \in Media,
           media' = [media EXCEPT ![a] = m],
           nextVoice' = nextVoice, DOMAIN voices' \subseteq DOMAIN voices,
           m.hasVoice => media[a].hasVoice /\ m.voice = media[a].voice,
           media[a].hasVoice /\ ~m.hasVoice => media[a].voice \notin DOMAIN voices'
    PROVE  /\ Live' = Live /\ media' \in [Live -> Media]
           /\ VoicesGiven' /\ (VoicesOwned => VoicesOwned')
<1>1. media \in [Live -> Media]
  BY DEF MediaCore, MediaTypeOK
<1>2. Live' = Live /\ media' \in [Live -> Media]
  BY <1>1 DEF Live
<1>3. \A b \in Live : media'[b] = IF b = a THEN m ELSE media[b]
  BY <1>1 DEF Live
<1>4. \A b \in Live : media'[b].hasVoice => media[b].hasVoice /\ media'[b].voice = media[b].voice
  BY <1>3
<1>5. VoicesGiven'
  BY <1>2, <1>4 DEF MediaCore, VoicesGiven
<1>6. VoicesOwned => VoicesOwned'
  <2> SUFFICES ASSUME VoicesOwned, NEW v \in DOMAIN voices'
               PROVE  \E b \in Live : media'[b].hasVoice /\ media'[b].voice = v
    BY <1>2 DEF VoicesOwned
  <2>1. PICK b \in Live : media[b].hasVoice /\ media[b].voice = v
    BY DEF VoicesOwned
  <2>2. media'[b].hasVoice
    BY <1>3, <2>1
  <2> QED
    BY <1>4, <2>1, <2>2
<1> QED
  BY <1>2, <1>5, <1>6

LEMMA AbortType ==
    ASSUME MediaCore, NEW a \in Live, media[a].hasVoice
    PROVE  Abort(a) \in Seq(Notice)
<1>1. /\ a \in Addresses /\ media[a] \in Media /\ queue \in Seq(Notice)
      /\ nextVoice \in 1..MaxVoices + 1
  BY DEF MediaCore, MediaTypeOK
<1>2. media[a].voice \in Voices
  BY <1>1, MediaBounds DEF MediaCore, VoicesGiven, Voices
<1>3. media[a].notify # NoNotify =>
        [obj |-> a, gen |-> media[a].gen, notify |-> media[a].notify,
         voice |-> media[a].voice] \in Notice
  BY <1>1, <1>2 DEF Media, Notice
<1> QED
  BY <1>1, <1>3, PushElems DEF Abort

-----------------------------------------------------------------------------
(* The calls that leave the mixer and the lists alone. *)

LEMMA QuietCalls ==
    ASSUME MediaCore, NEW a \in Live, UNCHANGED tickVars,
           \/ AddRef(a)
           \/ \E n \in Notifies \cup {NoNotify} : RegisterNotify(a, n)
           \/ \E c \in Sounds : SetMediaData(a, c)
           \/ \E l \in Loops : SetRepeat(a, l)
           \/ GetState(a)
    PROVE  MediaCore' /\ (Tidy => Tidy')
<1>1. /\ a \in Addresses /\ media[a] \in Media /\ held \in [Addresses -> 0..MaxRefs]
      /\ media \in [Live -> Media]
  BY DEF MediaCore, MediaTypeOK
<1>f. UNCHANGED <<nextObject, free, nextGen, queue, nextVoice, voices, phase, batch, inCallback,
                  told, owners>>
  BY DEF tickVars, AddRef, RegisterNotify, SetMediaData, SetRepeat, GetState, mixerVars, histVars
<1>2. /\ held' \in [Addresses -> 0..MaxRefs]
      /\ \E m \in Media : /\ media' = [media EXCEPT ![a] = m]
                          /\ m.hasVoice => media[a].hasVoice /\ m.voice = media[a].voice
                          /\ media[a].hasVoice /\ ~m.hasVoice => media[a].voice \notin DOMAIN voices
  <2>1. CASE AddRef(a)
    <3> DEFINE m == [media[a] EXCEPT !.refs = @ + 1]
    <3>1. m \in Media /\ m.hasVoice = media[a].hasVoice /\ m.voice = media[a].voice
      BY <1>1, <2>1, MediaBounds DEF AddRef, Media
    <3>2. held' \in [Addresses -> 0..MaxRefs]
      BY <1>1, <2>1, MediaBounds DEF AddRef
    <3>3. media' = [media EXCEPT ![a] = m]
      BY <2>1 DEF AddRef
    <3> QED
      BY <3>1, <3>2, <3>3
  <2>2. ASSUME NEW n \in Notifies \cup {NoNotify}, RegisterNotify(a, n)
        PROVE  <1>2!:
    <3> DEFINE m == [media[a] EXCEPT !.notify = n]
    <3>1. m \in Media /\ m.hasVoice = media[a].hasVoice /\ m.voice = media[a].voice
      BY <1>1 DEF Media
    <3>2. media' = [media EXCEPT ![a] = m] /\ held' = held
      BY <2>2 DEF RegisterNotify
    <3> QED
      BY <1>1, <3>1, <3>2
  <2>3. ASSUME NEW c \in Sounds, SetMediaData(a, c)
        PROVE  <1>2!:
    <3> DEFINE m == [media[a] EXCEPT !.clip = c, !.state = "ready"]
    <3>1. m \in Media /\ m.hasVoice = media[a].hasVoice /\ m.voice = media[a].voice
      BY <1>1, MediaBounds DEF Media
    <3>2. media' = [media EXCEPT ![a] = m] /\ held' = held
      BY <2>3 DEF SetMediaData
    <3> QED
      BY <1>1, <3>1, <3>2
  <2>4. ASSUME NEW l \in Loops, SetRepeat(a, l)
        PROVE  <1>2!:
    <3> DEFINE m == [media[a] EXCEPT !.loop = l]
    <3>1. m \in Media /\ m.hasVoice = media[a].hasVoice /\ m.voice = media[a].voice
      BY <1>1, MediaBounds DEF Media
    <3>2. media' = [media EXCEPT ![a] = m] /\ held' = held
      BY <2>4 DEF SetRepeat
    <3> QED
      BY <1>1, <3>1, <3>2
  <2>5. CASE GetState(a)
    <3> DEFINE m == [media[a] EXCEPT !.hasVoice = FALSE, !.state = "ready"]
    <3>1. m \in Media /\ ~m.hasVoice
      BY <1>1 DEF Media
    <3>2. media' = [media EXCEPT ![a] = m] /\ held' = held /\ media[a].voice \notin DOMAIN voices
      BY <2>5 DEF GetState, IsPlaying
    <3> QED
      BY <1>1, <3>1, <3>2
  <2> QED
    BY <2>1, <2>2, <2>3, <2>4, <2>5
<1>3. /\ Live' = Live /\ media' \in [Live -> Media] /\ VoicesGiven' /\ (VoicesOwned => VoicesOwned')
  BY <1>f, <1>2, OneObject
<1>4. AddressesApart => AddressesApart'
  BY <1>f, <1>3, AddressesStay
<1>5. MediaTypeOK'
  BY <1>f, <1>2, <1>3 DEF MediaCore, MediaTypeOK
<1> QED
  BY <1>3, <1>4, <1>5 DEF MediaCore, Tidy

-----------------------------------------------------------------------------
(* Pause and Resume, Stop. *)

LEMMA PausedType ==
    ASSUME MediaCore, NEW v, NEW p \in BOOLEAN, SetPaused(v, p)
    PROVE  DOMAIN voices' = DOMAIN voices /\ voices' \in [DOMAIN voices -> Voice]
  BY DEF MediaCore, MediaTypeOK, SetPaused, Voice

LEMMA WithoutType ==
    ASSUME MediaCore, NEW S, voices' = Without(voices, S)
    PROVE  DOMAIN voices' = DOMAIN voices \ S /\ voices' \in [DOMAIN voices \ S -> Voice]
  BY DEF MediaCore, MediaTypeOK, Without

LEMMA VoiceCalls ==
    ASSUME MediaCore, NEW a \in Live, UNCHANGED tickVars, Pause(a) \/ Resume(a) \/ Stop(a)
    PROVE  MediaCore' /\ (Tidy => Tidy')
<1>1. /\ a \in Addresses /\ media[a] \in Media /\ media \in [Live -> Media]
      /\ queue \in Seq(Notice)
  BY DEF MediaCore, MediaTypeOK
<1>f. UNCHANGED <<nextObject, free, nextGen, nextVoice, phase, batch, inCallback, held, told, owners>>
  BY DEF tickVars, Pause, Resume, Stop, histVars
<1>2. /\ queue' \in Seq(Notice)
      /\ voices' \in [DOMAIN voices' -> Voice] /\ DOMAIN voices' \subseteq DOMAIN voices
      /\ \E m \in Media : /\ media' = [media EXCEPT ![a] = m]
                          /\ m.hasVoice => media[a].hasVoice /\ m.voice = media[a].voice
                          /\ media[a].hasVoice /\ ~m.hasVoice => media[a].voice \notin DOMAIN voices'
  <2>1. CASE Pause(a)
    <3> DEFINE m == [media[a] EXCEPT !.state = "pause"]
    <3>1. m \in Media /\ m.hasVoice = media[a].hasVoice /\ m.voice = media[a].voice
      BY <1>1 DEF Media
    <3>2. media' = [media EXCEPT ![a] = m] /\ queue' = queue /\ SetPaused(media[a].voice, TRUE)
      BY <2>1 DEF Pause
    <3>3. DOMAIN voices' = DOMAIN voices /\ voices' \in [DOMAIN voices -> Voice]
      BY <3>2, PausedType
    <3> QED
      BY <1>1, <3>1, <3>2, <3>3
  <2>2. CASE Resume(a)
    <3> DEFINE m == [media[a] EXCEPT !.state = "play"]
    <3>1. m \in Media /\ m.hasVoice = media[a].hasVoice /\ m.voice = media[a].voice
      BY <1>1 DEF Media
    <3>2. media' = [media EXCEPT ![a] = m] /\ queue' = queue /\ SetPaused(media[a].voice, FALSE)
      BY <2>2 DEF Resume
    <3>3. DOMAIN voices' = DOMAIN voices /\ voices' \in [DOMAIN voices -> Voice]
      BY <3>2, PausedType
    <3> QED
      BY <1>1, <3>1, <3>2, <3>3
  <2>3. CASE Stop(a)
    <3> DEFINE m == [media[a] EXCEPT !.hasVoice = FALSE,
                                     !.state = IF media[a].clip # "none" THEN "ready" ELSE "idle"]
    <3>1. m \in Media /\ ~m.hasVoice
      BY <1>1 DEF Media
    <3>2. media' = [media EXCEPT ![a] = m] /\ voices' = Without(voices, VoiceOf(a))
      BY <2>3 DEF Stop
    <3>3. /\ DOMAIN voices' = DOMAIN voices \ VoiceOf(a)
          /\ voices' \in [DOMAIN voices \ VoiceOf(a) -> Voice]
      BY <3>2, WithoutType
    <3>4. media[a].hasVoice => media[a].voice \notin DOMAIN voices'
      BY <3>3 DEF VoiceOf
    <3>5. queue' \in Seq(Notice)
      BY <1>1, <2>3, AbortType DEF Stop
    <3> QED
      BY <3>1, <3>2, <3>3, <3>4, <3>5
  <2> QED
    BY <2>1, <2>2, <2>3
<1>3. /\ Live' = Live /\ media' \in [Live -> Media] /\ VoicesGiven' /\ (VoicesOwned => VoicesOwned')
  BY <1>f, <1>2, OneObject
<1>4. AddressesApart => AddressesApart'
  BY <1>f, <1>3, AddressesStay
<1>5. MediaTypeOK'
  BY <1>f, <1>2, <1>3 DEF MediaCore, MediaTypeOK
<1> QED
  BY <1>3, <1>4, <1>5 DEF MediaCore, Tidy

-----------------------------------------------------------------------------
(* Play: the new voice is nobody else's. *)

LEMMA PlayKeeps ==
    ASSUME MediaCore, NEW a \in Live, UNCHANGED tickVars, Play(a)
    PROVE  MediaCore' /\ (Tidy => Tidy')
<1> DEFINE m == [media[a] EXCEPT !.voice = nextVoice, !.hasVoice = TRUE, !.state = "play"]
<1>1. /\ a \in Addresses /\ media[a] \in Media /\ media \in [Live -> Media]
      /\ queue \in Seq(Notice) /\ nextVoice \in 1..MaxVoices
      /\ voices \in [DOMAIN voices -> Voice] /\ DOMAIN voices \subseteq Voices
      /\ owners \in [Voices -> 0..MaxGenerations]
  BY MediaBounds DEF MediaCore, MediaTypeOK, Play
<1>f. UNCHANGED <<nextObject, free, nextGen, phase, batch, inCallback, held, told>>
  BY DEF tickVars, Play
<1>2. m \in Media /\ m.hasVoice /\ m.voice = nextVoice
  <2>1. nextVoice \in 0..MaxVoices
    BY <1>1, MediaBounds
  <2> QED
    BY <1>1, <2>1 DEF Media
<1>3. media' = [media EXCEPT ![a] = m] /\ nextVoice' = nextVoice + 1
  BY DEF Play
<1>4. Live' = Live /\ media' \in [Live -> Media]
      /\ \A b \in Live : media'[b] = IF b = a THEN m ELSE media[b]
  BY <1>1, <1>2, <1>3 DEF Live
<1>5. /\ DOMAIN voices' = (DOMAIN voices \ VoiceOf(a)) \cup {nextVoice}
      /\ voices' \in [DOMAIN voices' -> Voice] /\ DOMAIN voices' \subseteq Voices
  <2>1. [paused |-> FALSE, loop |-> media[a].loop, clip |-> media[a].clip] \in Voice
    BY <1>1, MediaBounds DEF Media, Voice, Play
  <2>2. nextVoice \in Voices
    BY <1>1 DEF Voices
  <2>3. voices' = [v \in (DOMAIN voices \ VoiceOf(a)) \cup {nextVoice} |->
                     IF v = nextVoice
                     THEN [paused |-> FALSE, loop |-> media[a].loop, clip |-> media[a].clip]
                     ELSE voices[v]]
    BY DEF Play
  <2>4. DOMAIN voices' = (DOMAIN voices \ VoiceOf(a)) \cup {nextVoice}
    BY <2>3
  <2>5. \A v \in DOMAIN voices' : voices'[v] \in Voice
    BY <1>1, <2>1, <2>3, <2>4
  <2>6. voices' = [v \in DOMAIN voices' |-> voices'[v]]
    BY <2>3, <2>4, Zenon
  <2> QED
    BY <1>1, <2>2, <2>4, <2>5, <2>6
<1>6. queue' \in Seq(Notice)
  BY <1>1, AbortType DEF Play
<1>7. owners' \in [Voices -> 0..MaxGenerations]
  <2>1. media[a].gen \in 0..MaxGenerations
    BY <1>1, MediaBounds DEF Media
  <2> QED
    BY <1>1, <2>1 DEF Play
<1>8. VoicesGiven'
  <2>1. \A b \in Live : b # a /\ media[b].hasVoice => media[b].voice \in 1..nextVoice - 1
    BY DEF MediaCore, VoicesGiven
  <2>2. \A b \in Live : media'[b].hasVoice => media'[b].voice \in 1..nextVoice' - 1
    BY <1>1, <1>2, <1>3, <1>4, <2>1
  <2>3. \A b, c \in Live : /\ media'[b].hasVoice /\ media'[c].hasVoice
                           /\ media'[b].voice = media'[c].voice
                           => b = c
    <3>1. \A b \in Live : b # a /\ media'[b].hasVoice =>
             media'[b].voice = media[b].voice /\ media[b].hasVoice /\ media[b].voice # nextVoice
      BY <1>1, <1>4, <2>1
    <3>2. media'[a].voice = nextVoice
      BY <1>2, <1>4
    <3>3. \A b, c \in Live : /\ media[b].hasVoice /\ media[c].hasVoice
                             /\ media[b].voice = media[c].voice
                             => b = c
      BY DEF MediaCore, VoicesGiven
    <3> QED
      BY <3>1, <3>2, <3>3
  <2>4. DOMAIN voices' \subseteq 1..nextVoice' - 1
    BY <1>1, <1>3, <1>5 DEF MediaCore, VoicesGiven
  <2> QED
    BY <1>4, <2>2, <2>3, <2>4 DEF VoicesGiven
<1>9. VoicesOwned => VoicesOwned'
  <2> SUFFICES ASSUME VoicesOwned, NEW v \in DOMAIN voices'
               PROVE  \E b \in Live : media'[b].hasVoice /\ media'[b].voice = v
    BY <1>4 DEF VoicesOwned
  <2>1. CASE v = nextVoice
    BY <1>2, <1>4, <2>1
  <2>2. CASE v \in DOMAIN voices \ VoiceOf(a)
    <3>1. PICK b \in Live : media[b].hasVoice /\ media[b].voice = v
      BY <2>2 DEF VoicesOwned
    <3>2. b # a
      BY <2>2, <3>1 DEF VoiceOf
    <3>3. media'[b] = media[b]
      BY <1>4, <3>2
    <3> QED
      BY <3>1, <3>3
  <2> QED
    BY <1>5, <2>1, <2>2
<1>10. AddressesApart => AddressesApart'
  BY <1>f, <1>4, AddressesStay
<1>11. nextVoice' \in 1..MaxVoices + 1
  BY <1>1, <1>3, MediaBounds
<1>12. MediaTypeOK'
  BY <1>f, <1>4, <1>5, <1>6, <1>7, <1>11 DEF MediaCore, MediaTypeOK
<1> QED
  BY <1>8, <1>9, <1>10, <1>12 DEF MediaCore, Tidy

-----------------------------------------------------------------------------
(* The mixer and the notifications. *)

LEMMA FewerVoices ==
    ASSUME MediaCore, UNCHANGED <<media, nextVoice>>, DOMAIN voices' \subseteq DOMAIN voices
    PROVE  VoicesGiven' /\ (VoicesOwned => VoicesOwned') /\ Live' = Live
  BY DEF MediaCore, VoicesGiven, VoicesOwned, Live

LEMMA MixKeeps == MediaCore /\ Mix => MediaCore' /\ (Tidy => Tidy')
<1> SUFFICES ASSUME MediaCore, Mix
             PROVE  MediaCore' /\ (Tidy => Tidy')
  OBVIOUS
<1>1. UNCHANGED <<objectVars, queue, nextVoice, tickVars, held, histVars>>
  BY DEF Mix
<1>2. PICK V : voices' = Without(voices, V)
  BY DEF Mix
<1>3. DOMAIN voices' = DOMAIN voices \ V /\ voices' \in [DOMAIN voices \ V -> Voice]
  BY <1>2, WithoutType
<1>4. VoicesGiven' /\ (VoicesOwned => VoicesOwned') /\ Live' = Live
  BY <1>1, <1>3, FewerVoices DEF objectVars
<1>5. AddressesApart => AddressesApart'
  BY <1>1, <1>4, AddressesStay DEF objectVars
<1>6. MediaTypeOK'
  BY <1>1, <1>3, <1>4 DEF MediaCore, MediaTypeOK, objectVars, tickVars, histVars
<1> QED
  BY <1>4, <1>5, <1>6 DEF MediaCore, Tidy

LEMMA NoticesKeep == MediaCore /\ (TickBegin \/ Deliver \/ Discard \/ CallbackReturns \/ TickEnd)
                     => MediaCore' /\ (Tidy => Tidy')
<1> SUFFICES ASSUME MediaCore, TickBegin \/ Deliver \/ Discard \/ CallbackReturns \/ TickEnd
             PROVE  MediaCore' /\ (Tidy => Tidy')
  OBVIOUS
<1>1. UNCHANGED <<objectVars, mixerVars, held, owners>>
  BY DEF TickBegin, Deliver, Discard, CallbackReturns, TickEnd, histVars
<1>2. VoicesGiven' /\ (VoicesOwned => VoicesOwned') /\ Live' = Live
  BY <1>1, FewerVoices DEF objectVars, mixerVars
<1>3. AddressesApart => AddressesApart'
  BY <1>1, <1>2, AddressesStay DEF objectVars
<1>4. queue \in Seq(Notice) /\ batch \in Seq(Notice) /\ told \in [Voices -> Nat]
      /\ phase \in {"out", "deferred", "done"} /\ inCallback \in BOOLEAN
  BY DEF MediaCore, MediaTypeOK
<1>5. batch # <<>> => Tail(batch) \in Seq(Notice) /\ Head(batch) \in Notice
  BY <1>4, PopElems
<1>6. queue' \in Seq(Notice) /\ batch' \in Seq(Notice)
  <2>1. CASE TickBegin
    BY <1>4, <2>1 DEF TickBegin
  <2>2. CASE Deliver \/ Discard
    BY <1>4, <1>5, <2>2 DEF Deliver, Discard
  <2>3. CASE CallbackReturns \/ TickEnd
    BY <1>4, <2>3 DEF CallbackReturns, TickEnd
  <2> QED
    BY <2>1, <2>2, <2>3
<1>7. told' \in [Voices -> Nat]
  <2>1. ASSUME Deliver
        PROVE  told' \in [Voices -> Nat]
    <3>1. Head(batch).voice \in Voices
      BY <1>5, <2>1 DEF Deliver, Notice
    <3> QED
      BY <1>4, <2>1, <3>1 DEF Deliver
  <2> QED
    BY <1>4, <2>1 DEF TickBegin, Discard, CallbackReturns, TickEnd, histVars
<1>8. phase' \in {"out", "deferred", "done"} /\ inCallback' \in BOOLEAN
  BY <1>4 DEF TickBegin, Deliver, Discard, CallbackReturns, TickEnd
<1>9. MediaTypeOK'
  BY <1>1, <1>2, <1>6, <1>7, <1>8 DEF MediaCore, MediaTypeOK, objectVars, mixerVars
<1> QED
  BY <1>2, <1>3, <1>9 DEF MediaCore, Tidy

LEMMA FinishedFinite == ASSUME MediaCore PROVE Cardinality(Finished) \in Nat
<1>1. Finished \subseteq Addresses
  BY DEF MediaCore, MediaTypeOK, Finished
<1>2. IsFiniteSet(Addresses)
  BY MediaBounds, FS_Interval DEF Addresses
<1> QED
  BY <1>1, <1>2, FS_Subset, FS_CardinalityType

LEMMA ScanKeeps == MediaCore /\ Scan => MediaCore' /\ (Tidy => Tidy')
<1> SUFFICES ASSUME MediaCore, Scan
             PROVE  MediaCore' /\ (Tidy => Tidy')
  OBVIOUS
<1>1. UNCHANGED <<nextObject, free, nextGen, queue, mixerVars, inCallback, held, histVars>>
      /\ phase' = "done"
  BY DEF Scan
<1>2. /\ media \in [Live -> Media] /\ Live \subseteq Addresses
      /\ nextVoice \in 1..MaxVoices + 1
  BY DEF MediaCore, MediaTypeOK
<1>3. media' = [a \in Live |->
                   IF a \in Finished THEN [media[a] EXCEPT !.hasVoice = FALSE, !.state = "ready"]
                   ELSE media[a]]
  BY DEF Scan
<1>4. Live' = Live
  BY <1>3 DEF Live
<1>5. \A a \in Live : media'[a] \in Media
  <2> SUFFICES ASSUME NEW a \in Live
               PROVE  media'[a] \in Media
    OBVIOUS
  <2>1. media[a] \in Media
    BY <1>2
  <2>2. [media[a] EXCEPT !.hasVoice = FALSE, !.state = "ready"] \in Media
    BY <2>1 DEF Media
  <2> QED
    BY <1>3, <2>1, <2>2
<1>6. \A a \in Live : /\ media'[a].hasVoice => media[a].hasVoice /\ media'[a] = media[a]
                      /\ a \notin Finished => media'[a] = media[a]
  <2> SUFFICES ASSUME NEW a \in Live
               PROVE  /\ media'[a].hasVoice => media[a].hasVoice /\ media'[a] = media[a]
                      /\ a \notin Finished => media'[a] = media[a]
    OBVIOUS
  <2>1. media[a] \in Media
    BY <1>2
  <2>2. a \in Finished => ~media'[a].hasVoice
    BY <1>3, <2>1 DEF Media
  <2> QED
    BY <1>3, <2>2
<1>7. VoicesGiven'
  BY <1>1, <1>4, <1>6 DEF MediaCore, VoicesGiven, mixerVars
<1>8. VoicesOwned => VoicesOwned'
  <2> SUFFICES ASSUME VoicesOwned, NEW v \in DOMAIN voices
               PROVE  \E a \in Live : media'[a].hasVoice /\ media'[a].voice = v
    BY <1>1, <1>4 DEF VoicesOwned, mixerVars
  <2>1. PICK a \in Live : media[a].hasVoice /\ media[a].voice = v
    BY DEF VoicesOwned
  <2>2. a \notin Finished
    BY <2>1 DEF Finished, IsPlaying
  <2> QED
    BY <1>6, <2>1, <2>2
<1>9. AddressesApart => AddressesApart'
  BY <1>1, <1>4, AddressesStay
<1>10. batch' \in Seq(Notice)
  <2>1. PICK order \in [1..Cardinality(Finished) -> Finished] :
           batch' = [i \in DOMAIN order |->
                        [obj |-> order[i], gen |-> media[order[i]].gen,
                         notify |-> media[order[i]].notify, voice |-> media[order[i]].voice]]
    BY DEF Scan
  <2>2. \A a \in Finished : [obj |-> a, gen |-> media[a].gen, notify |-> media[a].notify,
                             voice |-> media[a].voice] \in Notice
    <3> SUFFICES ASSUME NEW a \in Finished
                 PROVE  [obj |-> a, gen |-> media[a].gen, notify |-> media[a].notify,
                         voice |-> media[a].voice] \in Notice
      OBVIOUS
    <3>1. a \in Live /\ media[a].hasVoice /\ media[a].notify # NoNotify
      BY DEF Finished
    <3>2. media[a].voice \in Voices
      BY <1>2, <3>1, MediaBounds DEF MediaCore, VoicesGiven, Voices
    <3>3. media[a] \in Media /\ a \in Addresses
      BY <1>2, <3>1
    <3> QED
      BY <3>1, <3>2, <3>3 DEF Media, Notice
  <2>3. batch' \in [1..Cardinality(Finished) -> Notice]
    BY <2>1, <2>2
  <2> QED
    BY <2>3, FinishedFinite
<1>11. media' \in [Live -> Media]
  BY <1>3, <1>5
<1>12. MediaTypeOK'
  BY <1>1, <1>4, <1>10, <1>11 DEF MediaCore, MediaTypeOK, mixerVars, histVars
<1> QED
  BY <1>7, <1>8, <1>9, <1>12 DEF MediaCore, Tidy

-----------------------------------------------------------------------------
(* Objects come and go. *)

(* What Allocate hands out is an address, and the lists stay lists. *)
LEMMA HandedOutTypes ==
    ASSUME MediaCore, NEW a \in Addresses, Allocate(a)
    PROVE  nextObject' \in 1..MaxObjects + 1 /\ free' \in Seq(Addresses)
<1>1. free \in Seq(Addresses) /\ nextObject \in 1..MaxObjects + 1
  BY DEF MediaCore, MediaTypeOK
<1>2. CASE free # <<>> /\ free' = SubSeq(free, 1, Len(free) - 1) /\ UNCHANGED nextObject
  <2>1. Len(free) \in Nat /\ Len(free) > 0
    BY <1>1, <1>2
  <2>2. free' \in Seq(Addresses)
    BY <1>1, <1>2, <2>1
  <2> QED
    BY <1>1, <1>2, <2>2
<1>3. CASE a = nextObject /\ nextObject' = nextObject + 1 /\ UNCHANGED free
  BY <1>1, <1>3, MediaBounds DEF Addresses
<1> QED
  BY <1>2, <1>3 DEF Allocate

(* In a session without a loaded state nobody has it. *)
LEMMA HandedOut ==
    ASSUME MediaCore, AddressesApart, NEW a \in Addresses, Allocate(a)
    PROVE  /\ a \notin Live
           /\ nextObject <= nextObject'
           /\ Distinct(free)'
           /\ Elems(free)' \subseteq Elems(free) /\ a \notin Elems(free)' /\ a < nextObject'
<1>1. /\ free \in Seq(Addresses) /\ nextObject \in 1..MaxObjects + 1 /\ Distinct(free)
      /\ Elems(free) \cap Live = {} /\ \A b \in Live \cup Elems(free) : b < nextObject
  BY DEF MediaCore, MediaTypeOK, AddressesApart
<1>2. a \in 1..MaxObjects
  BY DEF Addresses
<1>3. CASE /\ free # <<>> /\ a = free[Len(free)]
           /\ free' = SubSeq(free, 1, Len(free) - 1)
           /\ UNCHANGED nextObject
  <2>1. /\ Distinct(free)' /\ a \in Elems(free)
        /\ Elems(free)' = Elems(free) \ {a}
    BY <1>1, <1>3, PopBack
  <2> QED
    BY <1>1, <1>3, <2>1, MediaBounds
<1>4. CASE free = <<>> /\ a = nextObject /\ nextObject' = nextObject + 1 /\ UNCHANGED free
  <2>1. Elems(free)' = Elems(free) /\ Distinct(free)'
    BY <1>1, <1>4 DEF Elems, Distinct
  <2>2. a \notin Live /\ a \notin Elems(free)
    BY <1>1, <1>4
  <2>3. nextObject <= nextObject' /\ a < nextObject'
    BY <1>1, <1>2, <1>4, MediaBounds
  <2> QED
    BY <1>1, <1>4, <2>1, <2>2, <2>3
<1> QED
  BY <1>3, <1>4 DEF Allocate

NewMedia == [gen |-> nextGen, clip |-> "none", voice |-> 0, hasVoice |-> FALSE,
             loop |-> FALSE, state |-> "idle", notify |-> NoNotify, refs |-> 1]

(* What CreateMediaObject does to the objects, also when the address it hands
   out has an object already. *)
LEMMA Created ==
    ASSUME MediaCore, CreateMediaObject,
           NEW a \in Addresses, media' = With(a, NewMedia)
    PROVE  /\ Live' = Live \cup {a} /\ Live' \subseteq Addresses
           /\ media' \in [Live' -> Media]
           /\ media'[a] = NewMedia
           /\ \A b \in Live : b # a => media'[b] = media[b]
           /\ nextGen \in 1..MaxGenerations /\ nextGen' = nextGen + 1
<1>1. /\ media \in [Live -> Media] /\ Live \subseteq Addresses
      /\ nextGen \in 1..MaxGenerations + 1 /\ nextGen <= MaxGenerations
      /\ nextGen' = nextGen + 1
  BY DEF MediaCore, MediaTypeOK, CreateMediaObject
<1>2. nextGen \in 1..MaxGenerations
  BY <1>1, MediaBounds
<1>3. NewMedia \in Media
  BY <1>2, MediaBounds DEF Media, Clips, NewMedia
<1>4. /\ Live' = Live \cup {a} /\ media'[a] = NewMedia
      /\ \A b \in Live : b # a => media'[b] = media[b]
  BY DEF With, Live
<1>5. \A b \in Live' : media'[b] \in Media
  BY <1>1, <1>3, <1>4
<1>6. media' = [b \in Live' |-> media'[b]]
  BY <1>4 DEF With
<1> QED
  BY <1>1, <1>2, <1>4, <1>5, <1>6

LEMMA CreateKeeps == MediaCore /\ CreateMediaObject => MediaCore' /\ (Tidy => Tidy')
<1> SUFFICES ASSUME MediaCore, CreateMediaObject
             PROVE  MediaCore' /\ (Tidy => Tidy')
  OBVIOUS
<1>1. PICK a \in Addresses : /\ Allocate(a) /\ media' = With(a, NewMedia)
                             /\ held' = [held EXCEPT ![a] = 1]
  BY DEF CreateMediaObject, NewMedia
<1>2. UNCHANGED <<queue, mixerVars, tickVars, histVars>>
  BY DEF CreateMediaObject
<1>3. /\ Live' = Live \cup {a} /\ Live' \subseteq Addresses
      /\ media' \in [Live' -> Media]
      /\ media'[a] = NewMedia
      /\ \A b \in Live : b # a => media'[b] = media[b]
      /\ nextGen \in 1..MaxGenerations /\ nextGen' = nextGen + 1
  BY <1>1, Created
<1>4. ~media'[a].hasVoice
  BY <1>3 DEF NewMedia
<1>5. VoicesGiven'
  BY <1>2, <1>3, <1>4 DEF MediaCore, VoicesGiven, mixerVars
<1>6. held' \in [Addresses -> 0..MaxRefs]
  BY <1>1, MediaBounds DEF MediaCore, MediaTypeOK
<1>7. nextGen' \in 1..MaxGenerations + 1
  BY <1>3, MediaBounds
<1>8. MediaTypeOK'
  BY <1>1, <1>2, <1>3, <1>6, <1>7, HandedOutTypes
     DEF MediaCore, MediaTypeOK, mixerVars, tickVars, histVars
<1>9. Tidy => Tidy'
  <2> SUFFICES ASSUME VoicesOwned, AddressesApart
               PROVE  VoicesOwned' /\ AddressesApart'
    BY DEF Tidy
  <2>1. /\ a \notin Live /\ nextObject <= nextObject'
        /\ Distinct(free)'
        /\ Elems(free)' \subseteq Elems(free) /\ a \notin Elems(free)' /\ a < nextObject'
    BY <1>1, HandedOut
  <2>2. VoicesOwned'
    BY <1>2, <1>3, <2>1 DEF VoicesOwned, mixerVars
  <2>3. free \in Seq(Addresses) /\ Live \subseteq Addresses
    BY DEF MediaCore, MediaTypeOK
  <2>4. Elems(free) \subseteq Addresses
    BY <2>3 DEF Elems
  <2>5. Addresses \subseteq Int
    BY MediaBounds DEF Addresses
  <2>6. nextObject \in Int /\ nextObject' \in Int
    BY <1>8 DEF MediaCore, MediaTypeOK
  <2>7. \A b \in Live' \cup Elems(free)' : b < nextObject'
    <3> SUFFICES ASSUME NEW b \in Live' \cup Elems(free)', b # a
                 PROVE  b < nextObject'
      BY <2>1
    <3>1. b \in Live \cup Elems(free)
      BY <1>3, <2>1
    <3>2. b < nextObject /\ b \in Int
      BY <2>3, <2>4, <2>5, <3>1 DEF AddressesApart
    <3> QED
      BY <2>1, <2>6, <3>2
  <2>8. Elems(free)' \cap Live' = {}
    BY <1>3, <2>1 DEF AddressesApart
  <2> QED
    BY <2>1, <2>2, <2>7, <2>8 DEF AddressesApart
<1> QED
  BY <1>5, <1>8, <1>9 DEF MediaCore

LEMMA ReleaseKeeps ==
    ASSUME MediaCore, NEW a \in Live, UNCHANGED tickVars, Release(a)
    PROVE  MediaCore' /\ (Tidy => Tidy')
<1>1. /\ a \in Addresses /\ media[a] \in Media /\ media \in [Live -> Media]
      /\ Live \subseteq Addresses /\ held \in [Addresses -> 0..MaxRefs]
      /\ free \in Seq(Addresses) /\ queue \in Seq(Notice)
  BY DEF MediaCore, MediaTypeOK
<1>f. UNCHANGED <<nextObject, nextGen, nextVoice, phase, batch, inCallback, told, owners>>
  BY DEF tickVars, Release, histVars
<1>2. held' \in [Addresses -> 0..MaxRefs]
  <2>1. held[a] \in 0..MaxRefs /\ held[a] > 0
    BY <1>1 DEF Release
  <2>2. held[a] - 1 \in 0..MaxRefs
    BY <2>1, MediaBounds
  <2>3. held' = [held EXCEPT ![a] = held[a] - 1]
    BY DEF Release
  <2> QED
    BY <1>1, <2>2, <2>3
<1>3. CASE OneLess(a)
  <2> DEFINE m == [media[a] EXCEPT !.refs = @ - 1]
  <2>0. media[a].refs - 1 \in 1..MaxRefs
    BY <1>1, <1>3, MediaBounds DEF OneLess, Media
  <2>1. m \in Media /\ m.hasVoice = media[a].hasVoice /\ m.voice = media[a].voice
    BY <1>1, <2>0 DEF Media
  <2>2. media' = [media EXCEPT ![a] = m] /\ UNCHANGED <<free, queue, voices>>
    BY <1>3 DEF OneLess
  <2>3. Live' = Live /\ media' \in [Live -> Media] /\ VoicesGiven' /\ (VoicesOwned => VoicesOwned')
    BY <1>f, <2>1, <2>2, OneObject
  <2>4. AddressesApart => AddressesApart'
    BY <1>f, <2>2, <2>3, AddressesStay
  <2>5. MediaTypeOK'
    BY <1>f, <1>2, <2>2, <2>3 DEF MediaCore, MediaTypeOK
  <2> QED
    BY <2>3, <2>4, <2>5 DEF MediaCore, Tidy
<1>4. CASE LastRelease(a)
  <2>1. /\ voices' = Without(voices, VoiceOf(a)) /\ media' = Without(media, {a})
        /\ free' = Append(free, a)
    BY <1>4 DEF LastRelease
  <2>2. /\ DOMAIN voices' = DOMAIN voices \ VoiceOf(a)
        /\ voices' \in [DOMAIN voices' -> Voice] /\ DOMAIN voices' \subseteq Voices
    BY <2>1, WithoutType DEF MediaCore, MediaTypeOK
  <2>3. /\ Live' = Live \ {a} /\ media' \in [Live' -> Media]
        /\ \A b \in Live' : media'[b] = media[b]
    BY <1>1, <2>1 DEF Without, Live
  <2>4. queue' \in Seq(Notice)
    <3> DEFINE I == {i \in DOMAIN queue : ~(queue[i].obj = a /\ queue[i].gen = media[a].gen)}
    <3>1. queue' \in Kept(queue, I) /\ I \in SUBSET DOMAIN queue
      BY <1>4 DEF LastRelease
    <3> HIDE DEF I
    <3> QED
      BY <1>1, <3>1, KeptType
  <2>5. free' \in Seq(Addresses)
    BY <1>1, <2>1
  <2>6. VoicesGiven'
    BY <1>f, <2>2, <2>3 DEF MediaCore, VoicesGiven
  <2>7. MediaTypeOK'
    BY <1>f, <1>1, <1>2, <2>2, <2>3, <2>4, <2>5 DEF MediaCore, MediaTypeOK
  <2>8. Tidy => Tidy'
    <3> SUFFICES ASSUME VoicesOwned, AddressesApart
                 PROVE  VoicesOwned' /\ AddressesApart'
      BY DEF Tidy
    <3>1. a \notin Elems(free) /\ Distinct(free)
      BY DEF AddressesApart
    <3>2. Distinct(free)' /\ Elems(free)' = Elems(free) \cup {a}
      <4>1. a \in Addresses /\ free \in Seq(Addresses) /\ free' = Append(free, a)
        BY <1>1, <2>1
      <4>2. /\ Distinct(Append(free, a))
            /\ Elems(Append(free, a)) = Elems(free) \cup {a}
        BY <3>1, <4>1, PushNew
      <4> QED
        BY <4>1, <4>2
    <3>3. AddressesApart'
      BY <1>f, <2>3, <3>2 DEF AddressesApart
    <3>4. ASSUME NEW v \in DOMAIN voices'
          PROVE  \E b \in Live' : media'[b].hasVoice /\ media'[b].voice = v
      <4>1. PICK b \in Live : media[b].hasVoice /\ media[b].voice = v
        BY <2>2 DEF VoicesOwned
      <4>2. b \in Live'
        BY <2>2, <2>3, <4>1 DEF VoiceOf
      <4> QED
        BY <2>3, <4>1, <4>2
    <3> QED
      BY <3>3, <3>4 DEF VoicesOwned
  <2> QED
    BY <2>6, <2>7, <2>8 DEF MediaCore
<1> QED
  BY <1>3, <1>4 DEF Release

-----------------------------------------------------------------------------
(* Every step keeps the core, and the rest if it was there. *)
LEMMA CoreStep == MediaCore /\ [MediaNext]_mediaVars => MediaCore' /\ (Tidy => Tidy')
<1> SUFFICES ASSUME MediaCore, [MediaNext]_mediaVars
             PROVE  MediaCore' /\ (Tidy => Tidy')
  OBVIOUS
<1>1. CASE CreateMediaObject
  BY <1>1, CreateKeeps
<1>2. CASE MediaCall
  <2>1. PICK a \in Live :
          \/ AddRef(a) \/ Release(a)
          \/ \E n \in Notifies \cup {NoNotify} : RegisterNotify(a, n)
          \/ \E c \in Sounds : SetMediaData(a, c)
          \/ \E l \in Loops : SetRepeat(a, l)
          \/ Play(a) \/ Stop(a) \/ Pause(a) \/ Resume(a) \/ GetState(a)
    BY <1>2 DEF MediaCall
  <2>2. UNCHANGED tickVars
    BY <1>2 DEF MediaCall
  <2> QED
    BY <2>1, <2>2, QuietCalls, ReleaseKeeps, VoiceCalls, PlayKeeps
<1>3. CASE Tick
  BY <1>3, NoticesKeep, ScanKeeps DEF Tick
<1>4. CASE Mix
  BY <1>4, MixKeeps
<1>5. CASE UNCHANGED mediaVars
  BY <1>5 DEF mediaVars, objectVars, mixerVars, tickVars, histVars, MediaCore, MediaTypeOK, Tidy,
              VoicesGiven, VoicesOwned, AddressesApart, Live, Distinct, Elems
<1> QED
  BY <1>1, <1>2, <1>3, <1>4, <1>5 DEF MediaNext

LEMMA MediaStep == MediaInv /\ [MediaNext]_mediaVars => MediaInv'
  BY CoreStep DEF MediaInv

(* The invariant of media_hle.cpp and the mixer: types, one owner for every
   voice, addresses apart. *)
THEOREM MediaInvariant == MediaSpec => []MediaInv
  BY MediaInitially, MediaStep, PTL DEF MediaSpec

(* Every variable of the media model keeps its type: a notification is never
   queued without a function to call, and no voice is handed out that the
   mixer did not number. *)
THEOREM MediaTypesCorrect == MediaSpec => []MediaTypeOK
<1>1. MediaInv => MediaTypeOK
  BY DEF MediaInv, MediaCore
<1> QED
  BY <1>1, MediaInvariant, PTL

(* No voice of the mixer goes on without an object that can stop it: Play,
   Stop and the last Release leave none behind (media_hle.cpp). *)
THEOREM NoVoiceOrphaned == MediaSpec => []NoGhostVoice
<1>1. MediaInv => NoGhostVoice
  BY DEF MediaInv, MediaCore, Tidy, VoicesOwned, VoicesGiven, NoGhostVoice
<1> QED
  BY <1>1, MediaInvariant, PTL

(* An address that is live is not on the free list, which lists each once:
   AllocateMediaObject never gives two objects one address. *)
THEOREM AddressesNeverShared == MediaSpec => []AddressesApart
<1>1. MediaInv => AddressesApart
  BY DEF MediaInv, Tidy
<1> QED
  BY <1>1, MediaInvariant, PTL

-----------------------------------------------------------------------------
(* What the calls do to generations, voices and notifications. *)

Pending == Elems(queue) \cup Elems(batch)

(* Generations are numbers AllocateMediaObject gave out. *)
GensGiven ==
    /\ \A a \in Live : media[a].gen < nextGen
    /\ \A n \in Pending : n.gen < nextGen

(* The announcement of the end of the voice that object a has. *)
NoticeOf(a) ==
    [obj |-> a, gen |-> media[a].gen, notify |-> media[a].notify, voice |-> media[a].voice]

(* A step that changes no generation and no voice of an object. *)
SameObjects ==
    /\ Live' = Live
    /\ \A b \in Live : /\ media'[b].gen = media[b].gen
                       /\ media'[b].hasVoice = media[b].hasVoice
                       /\ media'[b].voice = media[b].voice

LEMMA OneChanged ==
    ASSUME MediaCore, NEW a \in Live, NEW m, media' = [media EXCEPT ![a] = m]
    PROVE  /\ Live' = Live /\ media'[a] = m
           /\ \A b \in Live : b # a => media'[b] = media[b]
<1>1. media \in [Live -> Media]
  BY DEF MediaCore, MediaTypeOK
<1> QED
  BY <1>1 DEF Live

LEMMA QuietEffect ==
    ASSUME MediaCore, NEW a \in Live,
           \/ AddRef(a)
           \/ \E n \in Notifies \cup {NoNotify} : RegisterNotify(a, n)
           \/ \E c \in Sounds : SetMediaData(a, c)
           \/ \E l \in Loops : SetRepeat(a, l)
           \/ Pause(a) \/ Resume(a) \/ (Release(a) /\ OneLess(a))
    PROVE  /\ SameObjects /\ DOMAIN voices' = DOMAIN voices
           /\ UNCHANGED <<queue, nextVoice, nextGen, told, owners>>
<1>1. media[a] \in Media
  BY DEF MediaCore, MediaTypeOK
<1>2. UNCHANGED <<queue, nextVoice, nextGen, told, owners>>
  BY DEF AddRef, RegisterNotify, SetMediaData, SetRepeat, Pause, Resume, Release, OneLess,
         mixerVars, histVars
<1>3. DOMAIN voices' = DOMAIN voices
  BY DEF AddRef, RegisterNotify, SetMediaData, SetRepeat, Pause, Resume, Release, OneLess,
         mixerVars, SetPaused
<1>4. \E m : /\ media' = [media EXCEPT ![a] = m]
             /\ m.gen = media[a].gen /\ m.hasVoice = media[a].hasVoice /\ m.voice = media[a].voice
  <2>1. CASE AddRef(a)
    <3> DEFINE m == [media[a] EXCEPT !.refs = @ + 1]
    <3>1. m.gen = media[a].gen /\ m.hasVoice = media[a].hasVoice /\ m.voice = media[a].voice
      BY <1>1 DEF Media
    <3> QED
      BY <2>1, <3>1 DEF AddRef
  <2>2. ASSUME NEW n \in Notifies \cup {NoNotify}, RegisterNotify(a, n)
        PROVE  <1>4!:
    <3> DEFINE m == [media[a] EXCEPT !.notify = n]
    <3>1. m.gen = media[a].gen /\ m.hasVoice = media[a].hasVoice /\ m.voice = media[a].voice
      BY <1>1 DEF Media
    <3> QED
      BY <2>2, <3>1 DEF RegisterNotify
  <2>3. ASSUME NEW c \in Sounds, SetMediaData(a, c)
        PROVE  <1>4!:
    <3> DEFINE m == [media[a] EXCEPT !.clip = c, !.state = "ready"]
    <3>1. m.gen = media[a].gen /\ m.hasVoice = media[a].hasVoice /\ m.voice = media[a].voice
      BY <1>1 DEF Media
    <3> QED
      BY <2>3, <3>1 DEF SetMediaData
  <2>4. ASSUME NEW l \in Loops, SetRepeat(a, l)
        PROVE  <1>4!:
    <3> DEFINE m == [media[a] EXCEPT !.loop = l]
    <3>1. m.gen = media[a].gen /\ m.hasVoice = media[a].hasVoice /\ m.voice = media[a].voice
      BY <1>1 DEF Media
    <3> QED
      BY <2>4, <3>1 DEF SetRepeat
  <2>5. ASSUME NEW s, media' = [media EXCEPT ![a].state = s]
        PROVE  <1>4!:
    <3> DEFINE m == [media[a] EXCEPT !.state = s]
    <3>1. m.gen = media[a].gen /\ m.hasVoice = media[a].hasVoice /\ m.voice = media[a].voice
      BY <1>1 DEF Media
    <3> QED
      BY <2>5, <3>1
  <2>6. CASE Release(a) /\ OneLess(a)
    <3> DEFINE m == [media[a] EXCEPT !.refs = @ - 1]
    <3>1. m.gen = media[a].gen /\ m.hasVoice = media[a].hasVoice /\ m.voice = media[a].voice
      BY <1>1 DEF Media
    <3> QED
      BY <2>6, <3>1 DEF OneLess
  <2>7. CASE Pause(a) \/ Resume(a)
    BY <2>5, <2>7 DEF Pause, Resume
  <2> QED
    BY <2>1, <2>2, <2>3, <2>4, <2>6, <2>7
<1>5. SameObjects
  <2>1. PICK m : /\ media' = [media EXCEPT ![a] = m]
                 /\ m.gen = media[a].gen /\ m.hasVoice = media[a].hasVoice
                 /\ m.voice = media[a].voice
    BY <1>4
  <2>2. /\ Live' = Live /\ media'[a] = m
        /\ \A b \in Live : b # a => media'[b] = media[b]
    BY <2>1, OneChanged
  <2> QED
    BY <2>1, <2>2 DEF SameObjects
<1> QED
  BY <1>2, <1>3, <1>5

(* What a call leaves in the queue of object a, which has a voice or not. *)
Announced(a) ==
    \/ queue' = queue /\ (media[a].hasVoice => media[a].notify = NoNotify)
    \/ queue' = Append(queue, NoticeOf(a)) /\ media[a].hasVoice /\ media[a].notify # NoNotify

LEMMA AbortEffect ==
    ASSUME NEW a, queue' = (IF media[a].hasVoice THEN Abort(a) ELSE queue)
    PROVE  Announced(a)
  BY DEF Abort, Announced, NoticeOf

(* Stop and GetState take the voice from the object. *)
LEMMA SilentEffect ==
    ASSUME MediaCore, NEW a \in Live, Stop(a) \/ GetState(a)
    PROVE  /\ Live' = Live /\ media'[a].gen = media[a].gen /\ ~media'[a].hasVoice
           /\ \A b \in Live : b # a => media'[b] = media[b]
           /\ DOMAIN voices' = DOMAIN voices \ VoiceOf(a)
           /\ UNCHANGED <<nextVoice, nextGen, told, owners>>
           /\ Stop(a) => Announced(a)
           /\ GetState(a) => queue' = queue
<1>1. media[a] \in Media
  BY DEF MediaCore, MediaTypeOK
<1>2. /\ UNCHANGED <<nextVoice, nextGen, told, owners>>
      /\ GetState(a) => queue' = queue
  BY DEF Stop, GetState, mixerVars, histVars
<1>3. Stop(a) => Announced(a)
  BY AbortEffect DEF Stop
<1>4. DOMAIN voices' = DOMAIN voices \ VoiceOf(a)
  BY DEF Stop, GetState, Without, VoiceOf, IsPlaying, mixerVars
<1>5. \E m : /\ media' = [media EXCEPT ![a] = m]
             /\ m.gen = media[a].gen /\ ~m.hasVoice
  <2>1. ASSUME NEW s, media' = [media EXCEPT ![a].hasVoice = FALSE, ![a].state = s]
        PROVE  <1>5!:
    <3> DEFINE m == [media[a] EXCEPT !.hasVoice = FALSE, !.state = s]
    <3>1. m.gen = media[a].gen /\ ~m.hasVoice
      BY <1>1 DEF Media
    <3> QED
      BY <2>1, <3>1
  <2> QED
    BY <2>1 DEF Stop, GetState
<1> QED
  BY <1>2, <1>3, <1>4, <1>5, OneChanged

LEMMA PlayEffect ==
    ASSUME MediaCore, NEW a \in Live, Play(a)
    PROVE  /\ Live' = Live /\ media'[a].gen = media[a].gen
           /\ media'[a].hasVoice /\ media'[a].voice = nextVoice
           /\ \A b \in Live : b # a => media'[b] = media[b]
           /\ DOMAIN voices' = (DOMAIN voices \ VoiceOf(a)) \cup {nextVoice}
           /\ nextVoice \in Voices /\ nextVoice' = nextVoice + 1
           /\ owners' = [owners EXCEPT ![nextVoice] = media[a].gen]
           /\ UNCHANGED <<nextGen, told>>
           /\ Announced(a)
<1>1. media[a] \in Media /\ nextVoice \in 1..MaxVoices + 1
  BY DEF MediaCore, MediaTypeOK
<1>2. /\ UNCHANGED <<nextGen, told>> /\ nextVoice' = nextVoice + 1
      /\ owners' = [owners EXCEPT ![nextVoice] = media[a].gen]
  BY DEF Play
<1>3. Announced(a)
  BY AbortEffect DEF Play
<1>4. DOMAIN voices' = (DOMAIN voices \ VoiceOf(a)) \cup {nextVoice}
  BY DEF Play
<1>5. nextVoice \in Voices
  BY <1>1, MediaBounds DEF Play, Voices
<1> DEFINE m == [media[a] EXCEPT !.voice = nextVoice, !.hasVoice = TRUE, !.state = "play"]
<1>6. m.gen = media[a].gen /\ m.hasVoice /\ m.voice = nextVoice
  BY <1>1 DEF Media
<1>7. media' = [media EXCEPT ![a] = m]
  BY DEF Play
<1> HIDE DEF m
<1>8. /\ Live' = Live /\ media'[a] = m
      /\ \A b \in Live : b # a => media'[b] = media[b]
  BY <1>7, OneChanged
<1> QED
  BY <1>2, <1>3, <1>4, <1>5, <1>6, <1>8

(* The last Release. *)
LEMMA ReleasedEffect ==
    ASSUME MediaCore, NEW a \in Live, Release(a), LastRelease(a)
    PROVE  /\ Live' = Live \ {a}
           /\ \A b \in Live' : media'[b] = media[b]
           /\ DOMAIN voices' = DOMAIN voices \ VoiceOf(a)
           /\ UNCHANGED <<nextVoice, nextGen, told, owners>>
           /\ \E I \in SUBSET DOMAIN queue :
                 /\ queue' \in Kept(queue, I)
                 /\ \A i \in DOMAIN queue :
                      i \notin I => queue[i].obj = a /\ queue[i].gen = media[a].gen
<1>1. UNCHANGED <<nextVoice, nextGen, told, owners>>
  BY DEF Release, histVars
<1>2. Live' = Live \ {a} /\ \A b \in Live' : media'[b] = media[b]
  BY DEF LastRelease, Without, Live
<1>3. DOMAIN voices' = DOMAIN voices \ VoiceOf(a)
  BY DEF LastRelease, Without
<1> DEFINE I == {i \in DOMAIN queue : ~(queue[i].obj = a /\ queue[i].gen = media[a].gen)}
<1>4. /\ I \in SUBSET DOMAIN queue /\ queue' \in Kept(queue, I)
      /\ \A i \in DOMAIN queue : i \notin I => queue[i].obj = a /\ queue[i].gen = media[a].gen
  BY DEF LastRelease
<1> HIDE DEF I
<1> QED
  BY <1>1, <1>2, <1>3, <1>4

-----------------------------------------------------------------------------
(* Generations stay below the counter, whatever is called. *)

LEMMA PendingType == ASSUME MediaCore PROVE Pending \subseteq Notice
<1>1. queue \in Seq(Notice) /\ batch \in Seq(Notice)
  BY DEF MediaCore, MediaTypeOK
<1>2. Elems(queue) \subseteq Notice /\ Elems(batch) \subseteq Notice
  BY <1>1, ElemsType
<1> QED
  BY <1>2 DEF Pending

LEMMA ReleasedQueue ==
    ASSUME MediaCore, NEW a \in Live, Release(a), LastRelease(a)
    PROVE  Elems(queue') \subseteq Elems(queue)
<1>1. queue \in Seq(Notice)
  BY DEF MediaCore, MediaTypeOK
<1>2. PICK I \in SUBSET DOMAIN queue : queue' \in Kept(queue, I)
  BY ReleasedEffect
<1>3. \A e : e \in Elems(queue') => \E i \in I : queue[i] = e
  BY <1>1, <1>2, KeptElems
<1> QED
  BY <1>3 DEF Elems

LEMMA AnnouncedElems ==
    ASSUME MediaCore, NEW a \in Live, Announced(a)
    PROVE  /\ media[a].hasVoice /\ media[a].notify # NoNotify => NoticeOf(a) \in Notice
           /\ Elems(queue') \subseteq Elems(queue) \cup {NoticeOf(a)}
           /\ Elems(queue) \subseteq Elems(queue')
           /\ NoticeOf(a) \in Elems(queue') \ Elems(queue) => media[a].hasVoice
           /\ media[a].hasVoice /\ media[a].notify # NoNotify => NoticeOf(a) \in Elems(queue')
<1>1. /\ a \in Addresses /\ media[a] \in Media /\ queue \in Seq(Notice)
      /\ nextVoice \in 1..MaxVoices + 1
  BY DEF MediaCore, MediaTypeOK
<1>2. media[a].hasVoice => media[a].voice \in Voices
  BY <1>1, MediaBounds DEF MediaCore, VoicesGiven, Voices
<1>3. media[a].hasVoice /\ media[a].notify # NoNotify => NoticeOf(a) \in Notice
  BY <1>1, <1>2 DEF Media, Notice, NoticeOf
<1>4. CASE queue' = queue /\ (media[a].hasVoice => media[a].notify = NoNotify)
  BY <1>3, <1>4
<1>5. CASE queue' = Append(queue, NoticeOf(a)) /\ media[a].hasVoice /\ media[a].notify # NoNotify
  <2>1. Elems(queue') = Elems(queue) \cup {NoticeOf(a)}
    BY <1>1, <1>3, <1>5, PushElems
  <2> QED
    BY <1>3, <1>5, <2>1
<1> QED
  BY <1>4, <1>5 DEF Announced

LEMMA ScanElems ==
    ASSUME MediaCore, Scan
    PROVE  /\ \A n \in Elems(batch') : \E a \in Finished : n = NoticeOf(a)
           /\ \A a \in Finished : NoticeOf(a) \in Elems(batch')
           /\ Live' = Live
           /\ \A a \in Live : /\ media'[a].gen = media[a].gen
                              /\ a \notin Finished => media'[a] = media[a]
                              /\ a \in Finished => ~media'[a].hasVoice
                                                   /\ media'[a].notify = media[a].notify
<1>1. PICK order \in [1..Cardinality(Finished) -> Finished] :
         /\ \A a \in Finished : \E i \in DOMAIN order : order[i] = a
         /\ batch' = [i \in DOMAIN order |-> NoticeOf(order[i])]
  BY DEF Scan, NoticeOf
<1>2. DOMAIN batch' = DOMAIN order /\ \A i \in DOMAIN order : batch'[i] = NoticeOf(order[i])
  BY <1>1
<1>3. \A i \in DOMAIN order : order[i] \in Finished
  BY <1>1
<1>4. \A n \in Elems(batch') : \E a \in Finished : n = NoticeOf(a)
  BY <1>2, <1>3 DEF Elems
<1>5. \A a \in Finished : NoticeOf(a) \in Elems(batch')
  <2> SUFFICES ASSUME NEW a \in Finished
               PROVE  NoticeOf(a) \in Elems(batch')
    OBVIOUS
  <2>1. PICK i \in DOMAIN order : order[i] = a
    BY <1>1
  <2> QED
    BY <1>2, <2>1 DEF Elems
<1>6. media' = [a \in Live |->
                   IF a \in Finished THEN [media[a] EXCEPT !.hasVoice = FALSE, !.state = "ready"]
                   ELSE media[a]]
  BY DEF Scan
<1>7. Live' = Live
  BY <1>6 DEF Live
<1>8. ASSUME NEW a \in Live
      PROVE  /\ media'[a].gen = media[a].gen
             /\ a \notin Finished => media'[a] = media[a]
             /\ a \in Finished => ~media'[a].hasVoice
                                                   /\ media'[a].notify = media[a].notify
  <2>1. media[a] \in Media
    BY DEF MediaCore, MediaTypeOK
  <2> DEFINE m == [media[a] EXCEPT !.hasVoice = FALSE, !.state = "ready"]
  <2>2. m.gen = media[a].gen /\ ~m.hasVoice /\ m.notify = media[a].notify
    BY <2>1 DEF Media
  <2>3. media'[a] = IF a \in Finished THEN m ELSE media[a]
    BY <1>6
  <2> HIDE DEF m
  <2> QED
    BY <2>2, <2>3
<1> QED
  BY <1>4, <1>5, <1>7, <1>8

LEMMA GensStay ==
    ASSUME MediaCore, GensGiven, nextGen' = nextGen, Live' \subseteq Live,
           \A b \in Live' : media'[b].gen = media[b].gen,
           \A n \in Pending' : n \in Pending \/ \E a \in Live : n = NoticeOf(a)
    PROVE  GensGiven'
<1>1. \A a \in Live : NoticeOf(a).gen = media[a].gen
  BY DEF NoticeOf
<1> QED
  BY <1>1 DEF GensGiven

LEMMA GensCall ==
    ASSUME MediaCore, GensGiven, MediaCall
    PROVE  GensGiven'
<1>1. PICK a \in Live :
          \/ AddRef(a) \/ Release(a)
          \/ \E n \in Notifies \cup {NoNotify} : RegisterNotify(a, n)
          \/ \E c \in Sounds : SetMediaData(a, c)
          \/ \E l \in Loops : SetRepeat(a, l)
          \/ Play(a) \/ Stop(a) \/ Pause(a) \/ Resume(a) \/ GetState(a)
  BY DEF MediaCall
<1>2. batch' = batch
  BY DEF MediaCall, tickVars
<1>3. CASE \/ AddRef(a)
           \/ \E n \in Notifies \cup {NoNotify} : RegisterNotify(a, n)
           \/ \E c \in Sounds : SetMediaData(a, c)
           \/ \E l \in Loops : SetRepeat(a, l)
           \/ Pause(a) \/ Resume(a) \/ (Release(a) /\ OneLess(a))
  BY <1>2, <1>3, QuietEffect, GensStay DEF SameObjects, Pending
<1>4. CASE Release(a) /\ LastRelease(a)
  BY <1>2, <1>4, ReleasedEffect, ReleasedQueue, GensStay DEF Pending
<1>5. CASE Stop(a)
  <2>1. /\ Live' = Live /\ media'[a].gen = media[a].gen
        /\ \A b \in Live : b # a => media'[b] = media[b]
        /\ nextGen' = nextGen /\ Announced(a)
    BY <1>5, SilentEffect
  <2>2. \A n \in Pending' : n \in Pending \/ n = NoticeOf(a)
    BY <1>2, <2>1, AnnouncedElems DEF Pending
  <2> QED
    BY <2>1, <2>2, GensStay
<1>6. CASE GetState(a)
  <2>1. /\ Live' = Live /\ media'[a].gen = media[a].gen
        /\ \A b \in Live : b # a => media'[b] = media[b]
        /\ nextGen' = nextGen /\ queue' = queue
    BY <1>6, SilentEffect
  <2> QED
    BY <1>2, <2>1, GensStay DEF Pending
<1>7. CASE Play(a)
  <2>1. /\ Live' = Live /\ media'[a].gen = media[a].gen
        /\ \A b \in Live : b # a => media'[b] = media[b]
        /\ nextGen' = nextGen /\ Announced(a)
    BY <1>7, PlayEffect
  <2>2. \A n \in Pending' : n \in Pending \/ n = NoticeOf(a)
    BY <1>2, <2>1, AnnouncedElems DEF Pending
  <2> QED
    BY <2>1, <2>2, GensStay
<1> QED
  BY <1>1, <1>3, <1>4, <1>5, <1>6, <1>7 DEF Release

LEMMA GensStep == MediaCore /\ GensGiven /\ [MediaNext]_mediaVars => GensGiven'
<1> SUFFICES ASSUME MediaCore, GensGiven, [MediaNext]_mediaVars
             PROVE  GensGiven'
  OBVIOUS
<1>1. /\ queue \in Seq(Notice) /\ batch \in Seq(Notice)
      /\ nextGen \in 1..MaxGenerations + 1 /\ media \in [Live -> Media]
  BY DEF MediaCore, MediaTypeOK
<1>2. CASE CreateMediaObject
  <2>1. PICK a \in Addresses : media' = With(a, NewMedia)
    BY <1>2 DEF CreateMediaObject, NewMedia
  <2>2. /\ Live' = Live \cup {a} /\ media'[a] = NewMedia
        /\ \A b \in Live : b # a => media'[b] = media[b]
        /\ nextGen' = nextGen + 1
    BY <1>2, <2>1, Created
  <2>3. NewMedia.gen = nextGen
    BY DEF NewMedia
  <2>4. Pending' = Pending
    BY <1>2 DEF CreateMediaObject, tickVars, Pending
  <2>5. \A b \in Live : media[b].gen \in Nat /\ media[b].gen < nextGen
    BY <1>1, MediaBounds DEF Media, GensGiven
  <2>6. \A n \in Pending : n.gen \in Nat
    BY PendingType, MediaBounds DEF Notice
  <2>7. nextGen \in Nat
    BY <1>1
  <2>8. \A b \in Live' : media'[b].gen < nextGen'
    BY <2>2, <2>3, <2>5, <2>7
  <2>9. \A n \in Pending : n.gen < nextGen'
    BY <2>2, <2>6, <2>7 DEF GensGiven
  <2> QED
    BY <2>4, <2>8, <2>9 DEF GensGiven
<1>3. CASE MediaCall
  BY <1>3, GensCall
<1>4. CASE TickBegin \/ Deliver \/ Discard \/ CallbackReturns \/ TickEnd
  <2>1. UNCHANGED objectVars
    BY <1>4 DEF TickBegin, Deliver, Discard, CallbackReturns, TickEnd
  <2>2. Elems(<<>>) = {}
    BY DEF Elems
  <2>3. batch # <<>> => Elems(Tail(batch)) \subseteq Elems(batch)
    BY <1>1, TailElems
  <2>4. Pending' \subseteq Pending
    BY <1>4, <2>2, <2>3 DEF TickBegin, Deliver, Discard, CallbackReturns, TickEnd, Pending
  <2> QED
    BY <2>1, <2>4, GensStay DEF objectVars, Live
<1>5. CASE Scan
  <2>1. \A n \in Elems(batch') : \E a \in Finished : n = NoticeOf(a)
    BY <1>5, ScanElems
  <2>2. Finished \subseteq Live
    BY DEF Finished
  <2>3. queue' = queue /\ nextGen' = nextGen
    BY <1>5 DEF Scan
  <2>4. \A n \in Pending' : n \in Pending \/ \E a \in Live : n = NoticeOf(a)
    BY <2>1, <2>2, <2>3 DEF Pending
  <2> QED
    BY <1>5, <2>3, <2>4, ScanElems, GensStay
<1>6. CASE Mix \/ UNCHANGED mediaVars
  <2>1. UNCHANGED <<media, nextGen, queue, batch>>
    BY <1>6 DEF Mix, mediaVars, objectVars, tickVars
  <2> QED
    BY <2>1, GensStay DEF Live, Pending
<1> QED
  BY <1>2, <1>3, <1>4, <1>5, <1>6 DEF MediaNext, Tick

-----------------------------------------------------------------------------
(* Save states. *)

(* What the file holds is what a session may hold. *)
FileGood ==
    /\ DOMAIN file.media \subseteq Addresses
    /\ file.media \in [DOMAIN file.media -> Media]
    /\ file.nextObject \in 1..MaxObjects + 1
    /\ file.nextVoice \in 1..MaxVoices + 1
    /\ file.voices \in [DOMAIN file.voices -> Voice]
    /\ DOMAIN file.voices \subseteq 1..file.nextVoice - 1
    /\ file.held \in [Addresses -> 0..MaxRefs]
    /\ \A a \in DOMAIN file.media :
          file.media[a].hasVoice => file.media[a].voice \in 1..file.nextVoice - 1
    /\ \A a, b \in DOMAIN file.media :
          /\ file.media[a].hasVoice /\ file.media[b].hasVoice
          /\ file.media[a].voice = file.media[b].voice
          => a = b

SavesInv ==
    /\ MediaCore /\ GensGiven
    /\ booting \in BOOLEAN
    /\ file = NoFile \/ FileGood

LEMMA SavesInitially == SavesInit => SavesInv
<1> SUFFICES ASSUME SavesInit
             PROVE  SavesInv
  OBVIOUS
<1>1. MediaCore /\ booting \in BOOLEAN /\ file = NoFile
  BY MediaInitially DEF SavesInit, MediaInv
<1>2. Live = {} /\ Pending = {}
  BY DEF SavesInit, MediaInit, Live, Pending, Elems
<1> QED
  BY <1>1, <1>2 DEF SavesInv, GensGiven

LEMMA SaveGood == SavesInv /\ SaveState => SavesInv'
<1> SUFFICES ASSUME SavesInv, SaveState
             PROVE  SavesInv'
  OBVIOUS
<1>1. UNCHANGED mediaVars /\ booting' = booting
  BY DEF SaveState
<1>2. MediaCore' /\ GensGiven'
  BY <1>1 DEF SavesInv, MediaCore, MediaTypeOK, VoicesGiven, GensGiven, Pending, Live, Elems,
              mediaVars, objectVars, mixerVars, tickVars, histVars
<1>3. /\ file'.media = media /\ file'.nextObject = nextObject /\ file'.nextVoice = nextVoice
      /\ file'.voices = voices /\ file'.held = held
  BY DEF SaveState
<1>4. FileGood'
  BY <1>3 DEF SavesInv, MediaCore, MediaTypeOK, VoicesGiven, FileGood, Live
<1> QED
  BY <1>1, <1>2, <1>4 DEF SavesInv

(* A state that is loaded has objects of its own generations: none of them is
   one the boot gave out. *)
LEMMA LoadGives ==
    ASSUME SavesInv, LoadState
    PROVE  /\ FileGood /\ Live' = DOMAIN file.media
           /\ nextGen' \in 1..MaxGenerations + 1 /\ nextGen <= nextGen'
           /\ \A a \in Live' : /\ media'[a] \in Media
                               /\ media'[a].gen >= nextGen /\ media'[a].gen < nextGen'
                               /\ media'[a].hasVoice = file.media[a].hasVoice
                               /\ media'[a].voice = file.media[a].voice
           /\ media' = [a \in Live' |-> media'[a]]
<1> DEFINE size == Cardinality(DOMAIN file.media)
<1>1. FileGood
  BY DEF SavesInv, LoadState
<1>2. size \in Nat
  <2>1. IsFiniteSet(Addresses)
    BY MediaBounds, FS_Interval DEF Addresses
  <2> QED
    BY <1>1, <2>1, FS_Subset, FS_CardinalityType DEF FileGood
<1>3. nextGen \in 1..MaxGenerations + 1
  BY DEF SavesInv, MediaCore, MediaTypeOK
<1>4. nextGen + size <= MaxGenerations + 1 /\ nextGen' = nextGen + size
  BY DEF LoadState
<1>5. PICK gen \in [DOMAIN file.media -> nextGen..MaxGenerations] :
         /\ \A a \in DOMAIN gen : gen[a] < nextGen + size
         /\ media' = [a \in DOMAIN file.media |-> Restored(file.media[a], gen[a])]
  BY DEF LoadState
<1> HIDE DEF size
<1>6. nextGen' \in 1..MaxGenerations + 1 /\ nextGen <= nextGen'
  BY <1>2, <1>3, <1>4, MediaBounds
<1>7. Live' = DOMAIN file.media
  BY <1>5 DEF Live
<1>8. ASSUME NEW a \in DOMAIN file.media
      PROVE  /\ media'[a] \in Media
             /\ media'[a].gen >= nextGen /\ media'[a].gen < nextGen'
             /\ media'[a].hasVoice = file.media[a].hasVoice
             /\ media'[a].voice = file.media[a].voice
  <2>1. file.media[a] \in Media /\ gen[a] \in nextGen..MaxGenerations /\ gen[a] < nextGen'
    BY <1>1, <1>4, <1>5 DEF FileGood
  <2>2. media'[a] = [file.media[a] EXCEPT !.gen = gen[a], !.refs = 1]
    BY <1>5 DEF Restored
  <2>3. gen[a] \in 1..MaxGenerations /\ gen[a] >= nextGen
    BY <1>3, <2>1, MediaBounds
  <2>4. 1 \in 1..MaxRefs
    BY MediaBounds
  <2>5. media'[a] \in Media
    BY <2>1, <2>2, <2>3, <2>4 DEF Media
  <2>6. /\ media'[a].gen = gen[a] /\ media'[a].hasVoice = file.media[a].hasVoice
        /\ media'[a].voice = file.media[a].voice
    BY <2>1, <2>2 DEF Media
  <2> QED
    BY <2>1, <2>3, <2>5, <2>6
<1> QED
  BY <1>1, <1>5, <1>6, <1>7, <1>8

LEMMA LoadGood == SavesInv /\ LoadState => SavesInv'
<1> SUFFICES ASSUME SavesInv, LoadState
             PROVE  SavesInv'
  OBVIOUS
<1>1. /\ nextObject' = file.nextObject /\ nextVoice' = file.nextVoice /\ voices' = file.voices
      /\ held' = file.held /\ booting' = FALSE
      /\ UNCHANGED <<free, queue, phase, batch, inCallback, told, owners, file>>
  BY DEF LoadState, RestoreMixer, tickVars, histVars
<1>2. /\ FileGood /\ Live' = DOMAIN file.media
      /\ nextGen' \in 1..MaxGenerations + 1 /\ nextGen <= nextGen'
      /\ \A a \in Live' : /\ media'[a] \in Media
                          /\ media'[a].gen < nextGen'
                          /\ media'[a].hasVoice = file.media[a].hasVoice
                          /\ media'[a].voice = file.media[a].voice
      /\ media' = [a \in Live' |-> media'[a]]
  BY LoadGives
<1>3. media' \in [Live' -> Media] /\ Live' \subseteq Addresses
  BY <1>2 DEF FileGood
<1>4. DOMAIN voices' \subseteq Voices
  <2>1. DOMAIN voices' \subseteq 1..nextVoice' - 1 /\ nextVoice' \in 1..MaxVoices + 1
    BY <1>1, <1>2 DEF FileGood
  <2> QED
    BY <2>1, MediaBounds DEF Voices
<1>5. MediaTypeOK'
  BY <1>1, <1>2, <1>3, <1>4 DEF SavesInv, MediaCore, MediaTypeOK, FileGood
<1>6. VoicesGiven'
  BY <1>1, <1>2 DEF FileGood, VoicesGiven
<1>7. GensGiven'
  <2>1. Pending' = Pending
    BY <1>1 DEF Pending
  <2>2. \A n \in Pending : n.gen < nextGen /\ n.gen \in Nat
    BY PendingType, MediaBounds DEF SavesInv, GensGiven, Notice
  <2>3. nextGen \in Nat /\ nextGen' \in Nat
    BY <1>2 DEF SavesInv, MediaCore, MediaTypeOK
  <2>4. \A n \in Pending : n.gen < nextGen'
    BY <1>2, <2>2, <2>3
  <2> QED
    BY <1>2, <2>1, <2>4 DEF GensGiven
<1>8. FileGood'
  BY <1>1, <1>2 DEF FileGood
<1> QED
  BY <1>1, <1>5, <1>6, <1>7, <1>8 DEF SavesInv, MediaCore

LEMMA RestartGood == SavesInv /\ Restart => SavesInv'
<1> SUFFICES ASSUME SavesInv, Restart
             PROVE  SavesInv'
  OBVIOUS
<1>1. /\ media' = <<>> /\ nextObject' = 1 /\ free' = <<>> /\ nextGen' = 1 /\ queue' = <<>>
      /\ nextVoice' = 1 /\ voices' = <<>> /\ phase' = "out" /\ batch' = <<>>
      /\ inCallback' = FALSE /\ held' = [a \in Addresses |-> 0]
      /\ told' = [v \in Voices |-> 0] /\ owners' = [v \in Voices |-> 0]
      /\ booting' = TRUE /\ file' = file
  BY DEF Restart
<1>2. Live' = {} /\ DOMAIN voices' = {} /\ Pending' = {}
  BY <1>1 DEF Live, Pending, Elems
<1>3. media' \in [Live' -> Media] /\ voices' \in [DOMAIN voices' -> Voice]
  BY <1>1, <1>2
<1>4. free' \in Seq(Addresses) /\ queue' \in Seq(Notice) /\ batch' \in Seq(Notice)
  BY <1>1
<1>5. nextObject' \in 1..MaxObjects + 1 /\ nextGen' \in 1..MaxGenerations + 1
      /\ nextVoice' \in 1..MaxVoices + 1
  BY <1>1, MediaBounds
<1>6. /\ held' \in [Addresses -> 0..MaxRefs] /\ told' \in [Voices -> Nat]
      /\ owners' \in [Voices -> 0..MaxGenerations]
  BY <1>1, MediaBounds
<1>7. MediaTypeOK'
  BY <1>1, <1>2, <1>3, <1>4, <1>5, <1>6 DEF MediaTypeOK
<1>8. VoicesGiven' /\ GensGiven'
  BY <1>2 DEF VoicesGiven, GensGiven
<1>9. file' = NoFile \/ FileGood'
  BY <1>1 DEF SavesInv, FileGood
<1> QED
  BY <1>1, <1>7, <1>8, <1>9 DEF SavesInv, MediaCore

LEMMA SavesStep == SavesInv /\ [SavesNext]_savesVars => SavesInv'
<1> SUFFICES ASSUME SavesInv, [SavesNext]_savesVars
             PROVE  SavesInv'
  OBVIOUS
<1>1. ASSUME [MediaNext]_mediaVars, file' = file, booting' \in BOOLEAN
      PROVE  SavesInv'
  <2>1. MediaCore' /\ GensGiven'
    BY <1>1, CoreStep, GensStep DEF SavesInv
  <2>2. file' = NoFile \/ FileGood'
    BY <1>1 DEF SavesInv, FileGood
  <2> QED
    BY <1>1, <2>1, <2>2 DEF SavesInv
<1>2. CASE GuestCalls \/ LoopBegins \/ LoopRuns \/ UNCHANGED savesVars
  <2>1. [MediaNext]_mediaVars /\ file' = file /\ booting' \in BOOLEAN
    BY <1>2 DEF GuestCalls, LoopBegins, LoopRuns, MediaNext, savesVars, SavesInv
  <2> QED
    BY <1>1, <2>1
<1>3. CASE LoadMemory
  <2>1. /\ UNCHANGED <<media, nextObject, free, nextGen, queue, nextVoice, voices, phase, batch,
                       inCallback, told, owners, file, booting>>
        /\ held' = file.held /\ file # NoFile
    BY <1>3 DEF LoadMemory, objectVars, mixerVars, tickVars, histVars
  <2>2. held' \in [Addresses -> 0..MaxRefs]
    BY <2>1 DEF SavesInv, FileGood
  <2>3. MediaCore' /\ GensGiven'
    BY <2>1, <2>2 DEF SavesInv, MediaCore, MediaTypeOK, VoicesGiven, GensGiven, Pending, Live,
                      Elems
  <2>4. FileGood'
    BY <2>1 DEF SavesInv, FileGood
  <2> QED
    BY <2>1, <2>3, <2>4 DEF SavesInv
<1> QED
  BY <1>2, <1>3, SaveGood, LoadGood, RestartGood DEF SavesNext

(* Across saving, loading and restarting: types, and a file that a session
   could have written. *)
THEOREM SavesInvariant == SavesSpec => []SavesInv
  BY SavesInitially, SavesStep, PTL DEF SavesSpec

(* Every variable and the save state on disk keep their types, also when a
   state is loaded over what the boot has left. *)
THEOREM SavesTypesCorrect == SavesSpec => []SavesTypeOK
<1>1. SavesInv => SavesTypeOK
  BY DEF SavesInv, SavesTypeOK, MediaCore, FileGood
<1> QED
  BY <1>1, SavesInvariant, PTL

(* Voice ids and the mixer go together across F1, F2, a restart and
   --load-state: no two objects have one voice, and no voice that is had or
   sounds will be given out again. *)
THEOREM VoicesAlwaysMatch == SavesSpec => []VoicesMatch
<1>1. ASSUME SavesInv
      PROVE  VoicesMatch
  <2>1. nextVoice \in Nat /\ VoicesGiven
    BY <1>1 DEF SavesInv, MediaCore, MediaTypeOK
  <2>2. \A v \in 1..nextVoice - 1 : v < nextVoice
    BY <2>1
  <2> QED
    BY <2>1, <2>2 DEF VoicesGiven, VoicesMatch
<1> QED
  BY <1>1, SavesInvariant, PTL

(* A notification queued while the game booted is never current for an object
   that --load-state brought back: Deserialize gives every object a generation
   the process has not used. *)
THEOREM BootNoticesNeverTaken == SavesSpec => BootNoticesStale
<1>1. ASSUME SavesInv, [SavesNext]_savesVars
      PROVE  [booting /\ ~booting' /\ media' # media =>
                 \A n \in Elems(queue) : ~Current(n)']_savesVars
  <2> SUFFICES ASSUME SavesNext, booting, ~booting', media' # media, NEW n \in Elems(queue)
               PROVE  ~Current(n)'
    BY <1>1
  <2>1. LoadState
    BY DEF SavesNext, GuestCalls, LoopBegins, LoopRuns, SaveState, LoadMemory, Restart, mediaVars,
           objectVars
  <2>2. \A a \in Live' : media'[a].gen >= nextGen /\ media'[a] \in Media
    BY <1>1, <2>1, LoadGives
  <2>3. n.gen < nextGen
    BY <1>1 DEF SavesInv, GensGiven, Pending
  <2>4. n.gen \in Nat /\ nextGen \in Nat
    <3>1. MediaCore /\ n \in Pending
      BY <1>1 DEF SavesInv, Pending
    <3>2. n \in Notice
      BY <3>1, PendingType
    <3>3. nextGen \in Nat
      BY <3>1 DEF MediaCore, MediaTypeOK
    <3> QED
      BY <3>2, <3>3, MediaBounds DEF Notice
  <2>5. \A a \in Live' : media'[a].gen \in Nat
    BY <2>2, MediaBounds DEF Media
  <2>6. \A a \in Live' : media'[a].gen # n.gen
    BY <2>2, <2>3, <2>4, <2>5
  <2> QED
    BY <2>6 DEF Current
<1> QED
  BY <1>1, SavesInvariant, PTL DEF SavesSpec, BootNoticesStale

-----------------------------------------------------------------------------
(* The notifications of a session without a loaded state. *)

(* One generation is one object, and a notice is about the object it names. *)
GensApart ==
    /\ \A a, b \in Live : media[a].gen = media[b].gen => a = b
    /\ \A a \in Live, n \in Pending : media[a].gen = n.gen => a = n.obj

(* A voice belongs to the generation that played it; it is told of once, and
   then no object has it any more. *)
VoicesPlayed ==
    /\ \A v \in Voices : v < nextVoice => owners[v] < nextGen
    /\ \A v \in Voices : told[v] <= 1 /\ (v >= nextVoice => told[v] = 0)
    /\ \A a \in Live : media[a].hasVoice => /\ owners[media[a].voice] = media[a].gen
                                            /\ told[media[a].voice] = 0

(* A notice is about a voice that ended and was not told of, and its object
   has by now no voice or a later one. *)
NoticesDue ==
    \A n \in Pending :
        /\ n.voice < nextVoice /\ n.voice \notin DOMAIN voices
        /\ told[n.voice] = 0 /\ owners[n.voice] = n.gen
        /\ \A a \in Live : media[a].hasVoice /\ media[a].gen = n.gen => n.voice < media[a].voice

(* The notices of one object stand in the order of its voices. *)
InOrder(s) ==
    \A i, j \in DOMAIN s : i < j /\ s[i].gen = s[j].gen => s[i].voice < s[j].voice

NoticesInOrder ==
    /\ InOrder(queue) /\ InOrder(batch)
    /\ \A n \in Elems(batch), m \in Elems(queue) : n.gen = m.gen => n.voice < m.voice

(* What is queued while Tick is at work comes from an object that no longer
   has a voice that ended: the second look of Tick does not overtake it. *)
TickState ==
    /\ phase = "out" => batch = <<>>
    /\ phase # "out" => \A n \in Elems(queue), a \in Live :
           media[a].hasVoice /\ media[a].gen = n.gen => media[a].voice \in DOMAIN voices

NoticesInv ==
    /\ MediaInv /\ GensGiven
    /\ GensApart /\ VoicesPlayed /\ NoticesDue /\ NoticesInOrder /\ TickState

LEMMA NoticesInitially == MediaInit => NoticesInv
<1> SUFFICES ASSUME MediaInit
             PROVE  NoticesInv
  OBVIOUS
<1>1. Live = {} /\ Pending = {} /\ Elems(queue) = {} /\ Elems(batch) = {}
  BY DEF MediaInit, Live, Pending, Elems
<1>2. InOrder(queue) /\ InOrder(batch)
  BY DEF MediaInit, InOrder
<1>3. VoicesPlayed
  <2>1. \A v \in Voices : v < 1 => FALSE
    BY MediaBounds DEF Voices
  <2> QED
    BY <1>1, <2>1 DEF VoicesPlayed, MediaInit
<1>4. TickState
  BY DEF MediaInit, TickState
<1> QED
  BY <1>1, <1>2, <1>3, <1>4, MediaInitially
     DEF NoticesInv, GensGiven, GensApart, NoticesDue, NoticesInOrder

(* What the steps below need to know of numbers. *)
LEMMA NoticesTypes ==
    ASSUME NoticesInv
    PROVE  /\ MediaCore
           /\ queue \in Seq(Notice) /\ batch \in Seq(Notice) /\ Pending \subseteq Notice
           /\ nextVoice \in Nat /\ nextGen \in Nat
           /\ \A a \in Live : /\ media[a] \in Media /\ media[a].gen \in Nat
                              /\ media[a].hasVoice =>
                                    media[a].voice \in Voices /\ media[a].voice < nextVoice
           /\ \A n \in Notice : n.voice \in Voices /\ n.gen \in Nat
           /\ Voices \subseteq Nat
           /\ owners \in [Voices -> 0..MaxGenerations] /\ told \in [Voices -> Nat]
           /\ DOMAIN voices \subseteq Voices
<1>1. MediaCore
  BY DEF NoticesInv, MediaInv
<1>2. /\ queue \in Seq(Notice) /\ batch \in Seq(Notice) /\ media \in [Live -> Media]
      /\ nextVoice \in 1..MaxVoices + 1 /\ nextGen \in Nat
      /\ owners \in [Voices -> 0..MaxGenerations] /\ told \in [Voices -> Nat]
      /\ DOMAIN voices \subseteq Voices
  BY <1>1 DEF MediaCore, MediaTypeOK
<1>3. \A a \in Live : /\ media[a] \in Media /\ media[a].gen \in Nat
                      /\ media[a].hasVoice =>
                            media[a].voice \in Voices /\ media[a].voice < nextVoice
  <2> SUFFICES ASSUME NEW a \in Live
               PROVE  /\ media[a] \in Media /\ media[a].gen \in Nat
                      /\ media[a].hasVoice =>
                            media[a].voice \in Voices /\ media[a].voice < nextVoice
    OBVIOUS
  <2>1. media[a] \in Media /\ media[a].gen \in Nat
    BY <1>2, MediaBounds DEF Media
  <2>2. media[a].hasVoice => media[a].voice \in 1..nextVoice - 1
    BY <1>1 DEF MediaCore, VoicesGiven
  <2>3. \A v \in 1..nextVoice - 1 : v \in Voices /\ v < nextVoice
    BY <1>2, MediaBounds DEF Voices
  <2> QED
    BY <2>1, <2>2, <2>3
<1>4. \A n \in Notice : n.voice \in Voices /\ n.gen \in Nat
  BY MediaBounds DEF Notice
<1>5. Voices \subseteq Nat
  BY MediaBounds DEF Voices
<1>6. Pending \subseteq Notice
  BY <1>1, PendingType
<1> QED
  BY <1>1, <1>2, <1>3, <1>4, <1>5, <1>6

LEMMA BatchTail ==
    ASSUME NoticesInv, batch # <<>>
    PROVE  InOrder(Tail(batch))
<1>1. batch \in Seq(Notice) /\ InOrder(batch)
  BY NoticesTypes DEF NoticesInv, NoticesInOrder
<1>2. ASSUME NEW i \in DOMAIN Tail(batch), NEW j \in DOMAIN Tail(batch), i < j,
             Tail(batch)[i].gen = Tail(batch)[j].gen
      PROVE  Tail(batch)[i].voice < Tail(batch)[j].voice
  <2>1. PICK p, q \in DOMAIN batch :
           p < q /\ Tail(batch)[i] = batch[p] /\ Tail(batch)[j] = batch[q]
    BY <1>1, <1>2, TailOrder
  <2> QED
    BY <1>1, <1>2, <2>1 DEF InOrder
<1> QED
  BY <1>2 DEF InOrder

(* Objects go or lose their voice, notices are dropped: what is left is in
   order. *)
LEMMA NoticesShrink ==
    ASSUME NoticesInv, MediaInv', GensGiven',
           Live' \subseteq Live,
           \A b \in Live' : /\ media'[b].gen = media[b].gen
                            /\ media'[b].hasVoice =>
                                  media[b].hasVoice /\ media'[b].voice = media[b].voice,
           DOMAIN voices' \subseteq DOMAIN voices,
           phase # "out" => \A b \in Live' :
               media'[b].hasVoice /\ media[b].voice \in DOMAIN voices =>
                   media[b].voice \in DOMAIN voices',
           UNCHANGED <<nextVoice, nextGen, told, owners>>,
           phase' = phase \/ (phase = "done" /\ phase' = "out" /\ batch' = <<>>),
           batch' = batch \/ (phase # "out" /\ batch # <<>> /\ batch' = Tail(batch)),
           Elems(queue') \subseteq Elems(queue), InOrder(queue')
    PROVE  NoticesInv'
<1>1. /\ batch \in Seq(Notice)
  BY NoticesTypes
<1>2. Elems(batch') \subseteq Elems(batch) /\ InOrder(batch')
  <2>1. CASE batch' = batch
    BY <2>1 DEF NoticesInv, NoticesInOrder
  <2>2. CASE batch # <<>> /\ batch' = Tail(batch)
    BY <1>1, <2>2, TailElems, BatchTail
  <2> QED
    BY <2>1, <2>2
<1>3. Pending' \subseteq Pending
  BY <1>2 DEF Pending
<1>4. GensApart'
  BY <1>3 DEF NoticesInv, GensApart
<1>5. VoicesPlayed'
  BY DEF NoticesInv, VoicesPlayed
<1>6. NoticesDue'
  BY <1>3 DEF NoticesInv, NoticesDue
<1>7. NoticesInOrder'
  BY <1>2 DEF NoticesInv, NoticesInOrder
<1>8. TickState'
  <2>1. phase' = "out" => batch' = <<>>
    BY DEF NoticesInv, TickState
  <2>2. ASSUME phase' # "out", NEW n \in Elems(queue'), NEW a \in Live',
               media'[a].hasVoice, media'[a].gen = n.gen
        PROVE  media'[a].voice \in DOMAIN voices'
    <3>1. phase # "out" /\ n \in Elems(queue) /\ a \in Live
          /\ media[a].hasVoice /\ media[a].gen = n.gen /\ media'[a].voice = media[a].voice
      BY <2>2
    <3>2. media[a].voice \in DOMAIN voices
      BY <3>1 DEF NoticesInv, TickState
    <3> QED
      BY <2>2, <3>1, <3>2
  <2> QED
    BY <2>1, <2>2 DEF TickState
<1> QED
  BY <1>4, <1>5, <1>6, <1>7, <1>8 DEF NoticesInv

(* An announcement goes behind those of earlier voices of the object. *)
LEMMA AnnouncedOrder ==
    ASSUME NoticesInv, NEW a \in Live, Announced(a)
    PROVE  /\ InOrder(queue')
           /\ \A n \in Elems(queue') :
                 n \in Elems(queue) \/ (n = NoticeOf(a) /\ media[a].hasVoice)
<1>1. MediaCore /\ queue \in Seq(Notice)
  BY NoticesTypes
<1>2. InOrder(queue)
  BY DEF NoticesInv, NoticesInOrder
<1>3. \A n \in Elems(queue') :
         n \in Elems(queue) \/ (n = NoticeOf(a) /\ media[a].hasVoice)
  BY <1>1, AnnouncedElems
<1>4. CASE queue' = queue
  BY <1>2, <1>3, <1>4
<1>5. CASE queue' = Append(queue, NoticeOf(a)) /\ media[a].hasVoice /\ media[a].notify # NoNotify
  <2>1. NoticeOf(a) \in Notice
    BY <1>1, <1>5, AnnouncedElems
  <2> DEFINE r == Append(queue, NoticeOf(a))
  <2>2. ASSUME NEW i \in DOMAIN r, NEW j \in DOMAIN r, i < j, r[i].gen = r[j].gen
        PROVE  r[i].voice < r[j].voice
    <3>1. /\ i \in DOMAIN queue /\ r[i] = queue[i] /\ queue[i] \in Elems(queue)
          /\ \/ j \in DOMAIN queue /\ r[j] = queue[j]
             \/ r[j] = NoticeOf(a)
      BY <1>1, <2>1, <2>2, PushOrder
    <3>2. CASE j \in DOMAIN queue /\ r[j] = queue[j]
      BY <1>2, <2>2, <3>1, <3>2 DEF InOrder
    <3>3. CASE r[j] = NoticeOf(a)
      <4>1. queue[i] \in Pending /\ queue[i].gen = media[a].gen
        BY <2>2, <3>1, <3>3 DEF Pending, NoticeOf
      <4>2. queue[i].voice < media[a].voice
        BY <1>5, <4>1 DEF NoticesInv, NoticesDue
      <4> QED
        BY <3>1, <3>3, <4>2 DEF NoticeOf
    <3> QED
      BY <3>1, <3>2, <3>3
  <2>3. InOrder(r)
    BY <2>2 DEF InOrder
  <2> QED
    BY <1>3, <1>5, <2>3
<1> QED
  BY <1>4, <1>5 DEF Announced

(* Play and Stop: the voice the object has is cut off. *)
LEMMA NoticesCut ==
    ASSUME NoticesInv, MediaInv', GensGiven', NEW a \in Live, UNCHANGED tickVars,
           Play(a) \/ Stop(a)
    PROVE  NoticesInv'
<1>1. /\ MediaCore
      /\ nextVoice \in Nat /\ nextGen \in Nat /\ Voices \subseteq Nat
      /\ \A b \in Live : /\ media[b].gen \in Nat
                         /\ media[b].hasVoice =>
                               media[b].voice \in Voices /\ media[b].voice < nextVoice
      /\ \A n \in Pending : n.voice \in Voices
      /\ owners \in [Voices -> 0..MaxGenerations] /\ DOMAIN voices \subseteq Voices
  BY NoticesTypes
<1>2. /\ Live' = Live
      /\ \A b \in Live : /\ media'[b].gen = media[b].gen
                         /\ b # a => media'[b] = media[b]
      /\ UNCHANGED <<nextGen, told, phase, batch>>
      /\ Announced(a)
  BY <1>1, SilentEffect, PlayEffect DEF tickVars
<1>3. \/ /\ ~media'[a].hasVoice /\ DOMAIN voices' = DOMAIN voices \ VoiceOf(a)
         /\ UNCHANGED <<owners, nextVoice>>
      \/ /\ media'[a].hasVoice /\ media'[a].voice = nextVoice
         /\ DOMAIN voices' = (DOMAIN voices \ VoiceOf(a)) \cup {nextVoice}
         /\ nextVoice \in Voices /\ nextVoice' = nextVoice + 1
         /\ owners' = [owners EXCEPT ![nextVoice] = media[a].gen]
  BY <1>1, SilentEffect, PlayEffect
<1>4. /\ \A v \in Voices : v < nextVoice => v < nextVoice' /\ owners'[v] = owners[v]
      /\ \A v \in Voices : v < nextVoice' =>
            v < nextVoice \/ (v = nextVoice /\ owners'[v] = media[a].gen)
      /\ \A v \in Voices : v \in DOMAIN voices' /\ v < nextVoice =>
            v \in DOMAIN voices /\ v \notin VoiceOf(a)
      /\ nextVoice' >= nextVoice
      /\ media'[a].hasVoice => media'[a].voice = nextVoice /\ nextVoice \in DOMAIN voices'
                               /\ nextVoice \in Voices /\ owners'[nextVoice] = media[a].gen
  BY <1>1, <1>3
<1>5. /\ InOrder(queue')
      /\ \A n \in Elems(queue') :
            n \in Elems(queue) \/ (n = NoticeOf(a) /\ media[a].hasVoice)
  BY <1>2, AnnouncedOrder
<1>6. /\ NoticeOf(a).obj = a /\ NoticeOf(a).gen = media[a].gen
      /\ NoticeOf(a).voice = media[a].voice
  BY DEF NoticeOf
<1>7. \A n \in Pending' : n \in Pending \/ (n = NoticeOf(a) /\ media[a].hasVoice)
  BY <1>2, <1>5 DEF Pending
<1>8. GensApart'
  BY <1>2, <1>6, <1>7 DEF NoticesInv, GensApart
<1>9. VoicesPlayed'
  <2>1. \A v \in Voices : v < nextVoice' => owners'[v] < nextGen'
    BY <1>1, <1>2, <1>4 DEF NoticesInv, VoicesPlayed, GensGiven
  <2>2. \A v \in Voices : told'[v] <= 1 /\ (v >= nextVoice' => told'[v] = 0)
    <3>1. nextVoice' = nextVoice \/ nextVoice' = nextVoice + 1
      BY <1>3
    <3>2. \A v \in Nat : v >= nextVoice' => v >= nextVoice
      BY <1>1, <3>1
    <3> QED
      BY <1>1, <1>2, <3>2 DEF NoticesInv, VoicesPlayed
  <2>3. ASSUME NEW b \in Live', media'[b].hasVoice
        PROVE  owners'[media'[b].voice] = media'[b].gen /\ told'[media'[b].voice] = 0
    <3>1. CASE b = a
      <4>1. nextVoice \in Voices /\ told[nextVoice] = 0
        BY <1>1, <1>4, <2>3, <3>1 DEF NoticesInv, VoicesPlayed
      <4> QED
        BY <1>2, <1>4, <2>3, <3>1, <4>1
    <3>2. CASE b # a
      <4>1. b \in Live /\ media'[b] = media[b]
        BY <1>2, <3>2
      <4>2. /\ media[b].voice \in Voices /\ media[b].voice < nextVoice
            /\ owners[media[b].voice] = media[b].gen /\ told[media[b].voice] = 0
        BY <1>1, <2>3, <4>1 DEF NoticesInv, VoicesPlayed
      <4>3. owners'[media[b].voice] = owners[media[b].voice]
        BY <1>4, <4>2
      <4> QED
        BY <1>2, <4>1, <4>2, <4>3
    <3> QED
      BY <3>1, <3>2
  <2> QED
    BY <2>1, <2>2, <2>3 DEF VoicesPlayed
<1>10. NoticesDue'
  <2> SUFFICES ASSUME NEW n \in Pending'
               PROVE  /\ n.voice < nextVoice' /\ n.voice \notin DOMAIN voices'
                      /\ told'[n.voice] = 0 /\ owners'[n.voice] = n.gen
                      /\ \A b \in Live' : media'[b].hasVoice /\ media'[b].gen = n.gen =>
                            n.voice < media'[b].voice
    BY DEF NoticesDue
  <2>1. CASE n \in Pending
    <3>1. /\ n.voice < nextVoice /\ n.voice \notin DOMAIN voices /\ n.voice \in Voices
          /\ told[n.voice] = 0 /\ owners[n.voice] = n.gen
          /\ \A b \in Live : media[b].hasVoice /\ media[b].gen = n.gen => n.voice < media[b].voice
      BY <1>1, <2>1 DEF NoticesInv, NoticesDue
    <3>2. /\ n.voice < nextVoice' /\ n.voice \notin DOMAIN voices'
          /\ told'[n.voice] = 0 /\ owners'[n.voice] = n.gen
      BY <1>2, <1>4, <3>1
    <3>3. \A b \in Live' : media'[b].hasVoice /\ media'[b].gen = n.gen => n.voice < media'[b].voice
      BY <1>2, <1>4, <3>1
    <3> QED
      BY <3>2, <3>3
  <2>2. CASE n = NoticeOf(a) /\ media[a].hasVoice
    <3>1. /\ n.voice < nextVoice /\ n.voice \in Voices /\ n.voice \in VoiceOf(a)
          /\ told[n.voice] = 0 /\ owners[n.voice] = n.gen /\ n.gen = media[a].gen
      BY <1>1, <1>6, <2>2 DEF NoticesInv, VoicesPlayed, VoiceOf
    <3>2. /\ n.voice < nextVoice' /\ n.voice \notin DOMAIN voices'
          /\ told'[n.voice] = 0 /\ owners'[n.voice] = n.gen
      BY <1>2, <1>4, <3>1
    <3>3. \A b \in Live : media'[b].gen = n.gen => b = a
      BY <1>2, <3>1 DEF NoticesInv, GensApart
    <3>4. \A b \in Live' : media'[b].hasVoice /\ media'[b].gen = n.gen => n.voice < media'[b].voice
      BY <1>2, <1>4, <3>1, <3>3
    <3> QED
      BY <3>2, <3>4
  <2> QED
    BY <1>7, <2>1, <2>2
<1>11. NoticesInOrder'
  <2>1. \A n \in Elems(batch) : n.gen = media[a].gen /\ media[a].hasVoice => n.voice < media[a].voice
    BY DEF NoticesInv, NoticesDue, Pending
  <2>2. \A n \in Elems(batch), m \in Elems(queue') : n.gen = m.gen => n.voice < m.voice
    BY <1>5, <1>6, <2>1 DEF NoticesInv, NoticesInOrder
  <2> QED
    BY <1>2, <1>5, <2>2 DEF NoticesInv, NoticesInOrder
<1>12. TickState'
  <2> SUFFICES ASSUME phase # "out", NEW n \in Elems(queue'), NEW b \in Live,
                      media'[b].hasVoice, media'[b].gen = n.gen
               PROVE  media'[b].voice \in DOMAIN voices'
    BY <1>2 DEF NoticesInv, TickState
  <2>1. CASE b = a
    BY <1>4, <2>1
  <2>2. CASE b # a
    <3>1. media[b].hasVoice /\ media[b].gen = n.gen /\ media'[b].voice = media[b].voice
      BY <1>2, <2>2
    <3>2. n \in Elems(queue)
      BY <1>5, <1>6, <2>2, <3>1 DEF NoticesInv, GensApart
    <3>3. media[b].voice \in DOMAIN voices
      BY <3>1, <3>2 DEF NoticesInv, TickState
    <3>4. media[b].voice \notin VoiceOf(a)
      BY <1>1, <2>2, <3>1 DEF MediaCore, VoicesGiven, VoiceOf
    <3> QED
      BY <1>3, <3>1, <3>3, <3>4
  <2> QED
    BY <2>1, <2>2
<1> QED
  BY <1>8, <1>9, <1>10, <1>11, <1>12 DEF NoticesInv

(* The calls of guest code. *)
LEMMA NoticesCall ==
    ASSUME NoticesInv, MediaInv', GensGiven', MediaCall
    PROVE  NoticesInv'
<1>0. MediaCore /\ UNCHANGED tickVars /\ queue \in Seq(Notice)
  BY NoticesTypes DEF MediaCall
<1>1. PICK a \in Live :
          \/ AddRef(a) \/ Release(a)
          \/ \E n \in Notifies \cup {NoNotify} : RegisterNotify(a, n)
          \/ \E c \in Sounds : SetMediaData(a, c)
          \/ \E l \in Loops : SetRepeat(a, l)
          \/ Play(a) \/ Stop(a) \/ Pause(a) \/ Resume(a) \/ GetState(a)
  BY DEF MediaCall
<1>2. InOrder(queue)
  BY DEF NoticesInv, NoticesInOrder
<1>3. CASE \/ AddRef(a)
           \/ \E n \in Notifies \cup {NoNotify} : RegisterNotify(a, n)
           \/ \E c \in Sounds : SetMediaData(a, c)
           \/ \E l \in Loops : SetRepeat(a, l)
           \/ Pause(a) \/ Resume(a) \/ (Release(a) /\ OneLess(a))
  <2>1. /\ SameObjects /\ DOMAIN voices' = DOMAIN voices
        /\ UNCHANGED <<queue, nextVoice, nextGen, told, owners>>
    BY <1>0, <1>3, QuietEffect
  <2> QED
    BY <1>0, <1>2, <2>1, NoticesShrink DEF SameObjects, tickVars
<1>4. CASE GetState(a)
  <2>1. /\ Live' = Live /\ media'[a].gen = media[a].gen /\ ~media'[a].hasVoice
        /\ \A b \in Live : b # a => media'[b] = media[b]
        /\ DOMAIN voices' = DOMAIN voices
        /\ UNCHANGED <<nextVoice, nextGen, told, owners>>
        /\ queue' = queue
    BY <1>0, <1>4, SilentEffect DEF GetState, mixerVars
  <2> QED
    BY <1>0, <1>2, <2>1, NoticesShrink DEF tickVars
<1>5. CASE Release(a) /\ LastRelease(a)
  <2>1. /\ Live' = Live \ {a}
        /\ \A b \in Live' : media'[b] = media[b]
        /\ DOMAIN voices' = DOMAIN voices \ VoiceOf(a)
        /\ UNCHANGED <<nextVoice, nextGen, told, owners>>
    BY <1>0, <1>5, ReleasedEffect
  <2>2. PICK I \in SUBSET DOMAIN queue : queue' \in Kept(queue, I)
    BY <1>0, <1>5, ReleasedEffect
  <2>3. Elems(queue') \subseteq Elems(queue)
    BY <1>0, <1>5, ReleasedQueue
  <2>4. ASSUME NEW i \in DOMAIN queue', NEW j \in DOMAIN queue', i < j,
               queue'[i].gen = queue'[j].gen
        PROVE  queue'[i].voice < queue'[j].voice
    <3>1. PICK p, q \in DOMAIN queue : p < q /\ queue'[i] = queue[p] /\ queue'[j] = queue[q]
      BY <1>0, <2>2, <2>4, KeptOrder
    <3> QED
      BY <1>2, <2>4, <3>1 DEF InOrder
  <2>5. InOrder(queue')
    BY <2>4 DEF InOrder
  <2>6. \A b \in Live' : media[b].hasVoice => media[b].voice \notin VoiceOf(a)
    BY <1>0, <2>1 DEF MediaCore, VoicesGiven, VoiceOf
  <2> QED
    BY <1>0, <2>1, <2>3, <2>5, <2>6, NoticesShrink DEF tickVars
<1>6. CASE Play(a) \/ Stop(a)
  BY <1>0, <1>6, NoticesCut
<1> QED
  BY <1>1, <1>3, <1>4, <1>5, <1>6 DEF Release

LEMMA NoticesCreate ==
    ASSUME NoticesInv, MediaInv', GensGiven', CreateMediaObject
    PROVE  NoticesInv'
<1>1. PICK a \in Addresses : Allocate(a) /\ media' = With(a, NewMedia)
  BY DEF CreateMediaObject, NewMedia
<1>2. /\ MediaCore /\ nextGen \in Nat /\ nextVoice \in Nat
      /\ owners \in [Voices -> 0..MaxGenerations]
      /\ \A b \in Live : media[b].gen \in Nat
      /\ Pending \subseteq Notice /\ \A n \in Notice : n.gen \in Nat
  BY NoticesTypes
<1>3. /\ Live' = Live \cup {a} /\ media'[a] = NewMedia
      /\ \A b \in Live : b # a => media'[b] = media[b]
      /\ nextGen' = nextGen + 1
  BY <1>1, <1>2, Created
<1>4. a \notin Live
  BY <1>1, <1>2, HandedOut DEF NoticesInv, MediaInv, Tidy
<1>5. UNCHANGED <<queue, nextVoice, voices, phase, batch, inCallback, told, owners>>
  BY DEF CreateMediaObject, mixerVars, tickVars, histVars
<1>6. Pending' = Pending
  BY <1>5 DEF Pending
<1>7. NewMedia.gen = nextGen /\ ~NewMedia.hasVoice
  BY DEF NewMedia
<1>8. \A b \in Live : media'[b] = media[b] /\ media[b].gen # nextGen
  BY <1>2, <1>3, <1>4 DEF NoticesInv, GensGiven
<1>9. \A n \in Pending : n.gen # nextGen
  BY <1>2 DEF NoticesInv, GensGiven
<1>10. GensApart'
  BY <1>3, <1>6, <1>7, <1>8, <1>9 DEF NoticesInv, GensApart
<1>11. VoicesPlayed'
  <2>1. \A v \in Voices : v < nextVoice => owners[v] < nextGen + 1
    BY <1>2, MediaBounds DEF NoticesInv, VoicesPlayed
  <2> QED
    BY <1>3, <1>5, <1>7, <1>8, <2>1 DEF NoticesInv, VoicesPlayed
<1>12. NoticesDue'
  BY <1>3, <1>5, <1>6, <1>7, <1>8 DEF NoticesInv, NoticesDue
<1>13. NoticesInOrder' /\ TickState'
  BY <1>3, <1>5, <1>7, <1>8 DEF NoticesInv, NoticesInOrder, InOrder, TickState
<1> QED
  BY <1>10, <1>11, <1>12, <1>13 DEF NoticesInv

(* A notice is delivered: nothing else is to be said about its voice. *)
LEMMA HeadAlone ==
    ASSUME NoticesInv, batch # <<>>
    PROVE  /\ Head(batch) \in Elems(batch) /\ Head(batch) \in Notice
           /\ \A n \in Elems(Tail(batch)) \cup Elems(queue) :
                 /\ n \in Pending /\ n.voice # Head(batch).voice
                 /\ n.gen = Head(batch).gen => Head(batch).voice < n.voice
           /\ \A a \in Live : media[a].hasVoice => media[a].voice # Head(batch).voice
<1> DEFINE h == Head(batch)
<1>1. /\ batch \in Seq(Notice) /\ Pending \subseteq Notice
      /\ \A n \in Notice : n.voice \in Voices /\ n.gen \in Nat
      /\ Voices \subseteq Nat
  BY NoticesTypes
<1>2. h \in Elems(batch) /\ Elems(Tail(batch)) \subseteq Elems(batch)
  BY <1>1, TailElems
<1>3. h \in Pending /\ Elems(batch) \subseteq Pending /\ Elems(queue) \subseteq Pending
  BY <1>2 DEF Pending
<1>4. h.voice \in Nat
  BY <1>1, <1>3
<1>5. ASSUME NEW n \in Elems(Tail(batch)), n.gen = h.gen
      PROVE  h.voice < n.voice
  <2>1. PICK p, q \in DOMAIN batch : p < q /\ h = batch[p] /\ n = batch[q]
    BY <1>1, HeadBefore
  <2>2. InOrder(batch)
    BY DEF NoticesInv, NoticesInOrder
  <2> QED
    BY <1>5, <2>1, <2>2 DEF InOrder
<1>6. \A n \in Elems(queue) : n.gen = h.gen => h.voice < n.voice
  BY <1>2 DEF NoticesInv, NoticesInOrder
<1>7. \A n \in Pending : n.voice = h.voice => n.gen = h.gen
  BY <1>3 DEF NoticesInv, NoticesDue
<1>8. \A n \in Elems(Tail(batch)) \cup Elems(queue) :
         /\ n \in Pending /\ n.voice # h.voice
         /\ n.gen = h.gen => h.voice < n.voice
  <2> SUFFICES ASSUME NEW n \in Elems(Tail(batch)) \cup Elems(queue)
               PROVE  /\ n \in Pending /\ n.voice # h.voice
                      /\ n.gen = h.gen => h.voice < n.voice
    OBVIOUS
  <2>1. n \in Pending
    BY <1>2, <1>3
  <2>2. n.gen = h.gen => h.voice < n.voice
    BY <1>5, <1>6
  <2>3. ~(h.voice < h.voice)
    BY <1>4
  <2>4. n.voice # h.voice
    BY <1>7, <2>1, <2>2, <2>3
  <2> QED
    BY <2>1, <2>2, <2>4
<1>9. ASSUME NEW a \in Live, media[a].hasVoice, media[a].voice = h.voice
      PROVE  FALSE
  <2>1. media[a].gen = h.gen
    BY <1>3, <1>9 DEF NoticesInv, NoticesDue, VoicesPlayed
  <2>2. h.voice < media[a].voice
    BY <1>3, <1>9, <2>1 DEF NoticesInv, NoticesDue
  <2> QED
    BY <1>4, <1>9, <2>2
<1> QED
  BY <1>1, <1>2, <1>3, <1>8, <1>9

LEMMA NoticesDeliver ==
    ASSUME NoticesInv, MediaInv', GensGiven', Deliver
    PROVE  NoticesInv'
<1> DEFINE h == Head(batch)
<1>1. /\ batch # <<>> /\ batch' = Tail(batch) /\ phase # "out"
      /\ told' = [told EXCEPT ![h.voice] = @ + 1]
      /\ UNCHANGED <<media, nextGen, queue, nextVoice, voices, phase, owners>>
  BY DEF Deliver, objectVars, mixerVars
<1>2. /\ h \in Elems(batch) /\ h \in Notice
      /\ \A n \in Elems(Tail(batch)) \cup Elems(queue) : n \in Pending /\ n.voice # h.voice
      /\ \A a \in Live : media[a].hasVoice => media[a].voice # h.voice
  BY <1>1, HeadAlone
<1>3. /\ told \in [Voices -> Nat] /\ h.voice \in Voices
      /\ Pending \subseteq Notice /\ \A n \in Notice : n.voice \in Voices
      /\ \A a \in Live : media[a].hasVoice => media[a].voice \in Voices
      /\ nextVoice \in Nat /\ Voices \subseteq Nat
  BY <1>2, NoticesTypes
<1>4. h.voice < nextVoice /\ told[h.voice] = 0
  BY <1>2 DEF NoticesInv, NoticesDue, Pending
<1>5. \A v \in Voices : told'[v] = IF v = h.voice THEN 1 ELSE told[v]
  BY <1>1, <1>3, <1>4
<1>6. Pending' = Elems(Tail(batch)) \cup Elems(queue) /\ Live' = Live
  BY <1>1 DEF Pending, Live
<1> HIDE DEF h
<1>7. GensApart'
  BY <1>1, <1>2, <1>6 DEF NoticesInv, GensApart
<1>8. VoicesPlayed'
  <2>1. \A v \in Voices : told'[v] <= 1 /\ (v >= nextVoice => told'[v] = 0)
    <3>1. \A v \in Voices : told[v] <= 1 /\ (v >= nextVoice => told[v] = 0)
      BY DEF NoticesInv, VoicesPlayed
    <3>2. \A v \in Voices : v >= nextVoice => v # h.voice
      BY <1>3, <1>4
    <3> QED
      BY <1>5, <3>1, <3>2
  <2>2. \A a \in Live : media[a].hasVoice => told'[media[a].voice] = 0
    BY <1>2, <1>3, <1>5 DEF NoticesInv, VoicesPlayed
  <2> QED
    BY <1>1, <1>6, <2>1, <2>2 DEF NoticesInv, VoicesPlayed
<1>9. NoticesDue'
  <2>1. \A n \in Pending' : n \in Pending /\ told'[n.voice] = told[n.voice]
    BY <1>2, <1>3, <1>5, <1>6
  <2> QED
    BY <1>1, <1>6, <2>1 DEF NoticesInv, NoticesDue
<1>10. NoticesInOrder' /\ TickState'
  <2>1. InOrder(batch') /\ Elems(batch') \subseteq Elems(batch)
    BY <1>1, BatchTail, TailElems, NoticesTypes
  <2> QED
    BY <1>1, <1>6, <2>1 DEF NoticesInv, NoticesInOrder, TickState
<1> QED
  BY <1>7, <1>8, <1>9, <1>10 DEF NoticesInv

LEMMA NoticesScan ==
    ASSUME NoticesInv, MediaInv', GensGiven', Scan
    PROVE  NoticesInv'
<1>1. /\ batch = <<>> /\ phase = "deferred" /\ phase' = "done"
      /\ UNCHANGED <<nextGen, queue, nextVoice, voices, told, owners>>
  BY DEF Scan, mixerVars, histVars
<1>2. MediaCore
  BY NoticesTypes
<1>3. /\ \A n \in Elems(batch') : \E a \in Finished : n = NoticeOf(a)
      /\ Live' = Live
      /\ \A a \in Live : /\ media'[a].gen = media[a].gen
                         /\ a \notin Finished => media'[a] = media[a]
                         /\ a \in Finished => ~media'[a].hasVoice
  BY <1>2, ScanElems
<1>4. \A a \in Finished : a \in Live /\ media[a].hasVoice /\ media[a].voice \notin DOMAIN voices
  BY DEF Finished, IsPlaying
<1>5. \A a : /\ NoticeOf(a).obj = a /\ NoticeOf(a).gen = media[a].gen
             /\ NoticeOf(a).voice = media[a].voice
  BY DEF NoticeOf
<1>6. \A n \in Pending' : n \in Elems(queue) \/ \E a \in Finished : n = NoticeOf(a)
  BY <1>1, <1>3 DEF Pending
<1>7. Elems(queue) \subseteq Pending
  BY DEF Pending
<1>8. GensApart'
  <2>1. \A a, b \in Live : media'[a].gen = media'[b].gen => a = b
    BY <1>3 DEF NoticesInv, GensApart
  <2>2. \A a \in Live, n \in Elems(queue) : media'[a].gen = n.gen => a = n.obj
    BY <1>3, <1>7 DEF NoticesInv, GensApart
  <2>3. \A a \in Live, b \in Finished :
           media'[a].gen = NoticeOf(b).gen => a = NoticeOf(b).obj
    BY <1>3, <1>4, <1>5 DEF NoticesInv, GensApart
  <2> QED
    BY <1>3, <1>6, <2>1, <2>2, <2>3 DEF GensApart
<1>9. VoicesPlayed'
  BY <1>1, <1>3 DEF NoticesInv, VoicesPlayed
<1>10. NoticesDue'
  <2> SUFFICES ASSUME NEW n \in Pending'
               PROVE  /\ n.voice < nextVoice /\ n.voice \notin DOMAIN voices
                      /\ told[n.voice] = 0 /\ owners[n.voice] = n.gen
                      /\ \A b \in Live : media'[b].hasVoice /\ media'[b].gen = n.gen =>
                            n.voice < media'[b].voice
    BY <1>1, <1>3 DEF NoticesDue
  <2>1. CASE n \in Elems(queue)
    BY <1>3, <1>7, <2>1 DEF NoticesInv, NoticesDue
  <2>2. ASSUME NEW a \in Finished, n = NoticeOf(a)
        PROVE  /\ n.voice < nextVoice /\ n.voice \notin DOMAIN voices
               /\ told[n.voice] = 0 /\ owners[n.voice] = n.gen
               /\ \A b \in Live : media'[b].hasVoice /\ media'[b].gen = n.gen =>
                     n.voice < media'[b].voice
    <3>1. media[a].voice < nextVoice
      BY <1>4, NoticesTypes
    <3>2. told[media[a].voice] = 0 /\ owners[media[a].voice] = media[a].gen
      BY <1>4 DEF NoticesInv, VoicesPlayed
    <3>3. \A b \in Live : media'[b].gen = media[a].gen => b = a
      BY <1>3, <1>4 DEF NoticesInv, GensApart
    <3> QED
      BY <1>3, <1>4, <1>5, <2>2, <3>1, <3>2, <3>3
  <2> QED
    BY <1>6, <2>1, <2>2
<1>11. InOrder(batch')
  <2>1. PICK order \in [1..Cardinality(Finished) -> Finished] :
           /\ \A a \in Finished : \E i \in DOMAIN order : order[i] = a
           /\ batch' = [i \in DOMAIN order |-> NoticeOf(order[i])]
    BY DEF Scan, NoticeOf
  <2> DEFINE c == Cardinality(Finished)
  <2>2. c \in Nat /\ IsFiniteSet(Finished)
    <3>1. Finished \subseteq Addresses
      BY <1>2 DEF MediaCore, MediaTypeOK, Finished
    <3>2. IsFiniteSet(Addresses)
      BY MediaBounds, FS_Interval DEF Addresses
    <3> QED
      BY <3>1, <3>2, FS_Subset, FS_CardinalityType
  <2>3. IsFiniteSet(1..c) /\ Cardinality(1..c) = c
    BY <2>2, FS_Interval
  <2>4. order \in Surjection(1..c, Finished)
    BY <2>1 DEF Surjection
  <2>5. order \in Injection(1..c, Finished)
    BY <2>2, <2>3, <2>4, FS_SurjSameCardinalityImpliesInj
  <2>6. \A i, j \in 1..c : order[i] = order[j] => i = j
    BY <2>5 DEF Injection, IsInjective
  <2>7. DOMAIN batch' = 1..c /\ \A i \in 1..c : batch'[i] = NoticeOf(order[i])
    BY <2>1
  <2> HIDE DEF c
  <2>8. ASSUME NEW i \in 1..c, NEW j \in 1..c, i < j,
               NoticeOf(order[i]).gen = NoticeOf(order[j]).gen
        PROVE  FALSE
    <3>1. order[i] \in Live /\ order[j] \in Live
      BY <1>4, <2>1 DEF c
    <3>2. order[i] = order[j]
      BY <1>5, <2>8, <3>1 DEF NoticesInv, GensApart
    <3> QED
      BY <2>6, <2>8, <3>2
  <2> QED
    BY <2>7, <2>8 DEF InOrder
<1>12. NoticesInOrder'
  <2>1. ASSUME NEW a \in Finished, NEW m \in Elems(queue), m.gen = media[a].gen
        PROVE  FALSE
    BY <1>1, <1>4, <2>1 DEF NoticesInv, TickState
  <2>2. \A n \in Elems(batch'), m \in Elems(queue) : n.gen = m.gen => n.voice < m.voice
    BY <1>3, <1>5, <2>1
  <2> QED
    BY <1>1, <1>11, <2>2 DEF NoticesInv, NoticesInOrder
<1>13. TickState'
  BY <1>1, <1>3 DEF NoticesInv, TickState
<1> QED
  BY <1>8, <1>9, <1>10, <1>12, <1>13 DEF NoticesInv

LEMMA NoticesStep == NoticesInv /\ [MediaNext]_mediaVars => NoticesInv'
<1> SUFFICES ASSUME NoticesInv, [MediaNext]_mediaVars
             PROVE  NoticesInv'
  OBVIOUS
<1>0. MediaInv' /\ GensGiven'
  BY CoreStep, GensStep DEF NoticesInv, MediaInv
<1>1. InOrder(queue)
  BY DEF NoticesInv, NoticesInOrder
<1>2. CASE CreateMediaObject
  BY <1>0, <1>2, NoticesCreate
<1>3. CASE MediaCall
  BY <1>0, <1>3, NoticesCall
<1>4. CASE TickBegin
  <2>1. /\ batch' = queue /\ queue' = <<>> /\ phase = "out" /\ phase' = "deferred"
        /\ UNCHANGED <<media, nextGen, nextVoice, voices, told, owners>>
    BY <1>4 DEF TickBegin, objectVars, mixerVars, histVars
  <2>2. Elems(queue') = {} /\ InOrder(queue')
    BY <2>1 DEF Elems, InOrder
  <2>3. batch = <<>>
    BY <2>1 DEF NoticesInv, TickState
  <2>4. Pending' = Pending /\ Live' = Live
    BY <2>1, <2>2, <2>3 DEF Pending, Elems, Live
  <2>5. GensApart' /\ VoicesPlayed' /\ NoticesDue'
    BY <2>1, <2>4 DEF NoticesInv, GensApart, VoicesPlayed, NoticesDue
  <2>6. NoticesInOrder' /\ TickState'
    BY <1>1, <2>1, <2>2 DEF NoticesInOrder, TickState
  <2> QED
    BY <1>0, <2>5, <2>6 DEF NoticesInv
<1>5. CASE Deliver
  BY <1>0, <1>5, NoticesDeliver
<1>6. CASE Discard \/ CallbackReturns \/ TickEnd
  <2>1. /\ UNCHANGED <<media, nextGen, queue, nextVoice, voices, told, owners>>
        /\ phase' = phase \/ (phase = "done" /\ phase' = "out" /\ batch' = <<>>)
        /\ batch' = batch \/ (phase # "out" /\ batch # <<>> /\ batch' = Tail(batch))
    BY <1>6 DEF Discard, CallbackReturns, TickEnd, objectVars, mixerVars, histVars
  <2> QED
    BY <1>0, <1>1, <2>1, NoticesShrink DEF Live
<1>7. CASE Scan
  BY <1>0, <1>7, NoticesScan
<1>8. CASE Mix
  <2>1. PICK V : voices' = Without(voices, V)
    BY <1>8 DEF Mix
  <2>2. DOMAIN voices' \subseteq DOMAIN voices
    BY <2>1 DEF Without
  <2>3. /\ UNCHANGED <<media, nextGen, queue, nextVoice, phase, batch, told, owners>>
        /\ phase = "out"
    BY <1>8 DEF Mix, objectVars, tickVars, histVars
  <2> QED
    BY <1>0, <1>1, <2>2, <2>3, NoticesShrink DEF Live
<1>9. CASE UNCHANGED mediaVars
  <2>1. UNCHANGED <<media, nextGen, queue, nextVoice, voices, phase, batch, told, owners>>
    BY <1>9 DEF mediaVars, objectVars, mixerVars, tickVars, histVars
  <2> QED
    BY <1>0, <1>1, <2>1, NoticesShrink DEF Live
<1> QED
  BY <1>2, <1>3, <1>4, <1>5, <1>6, <1>7, <1>8, <1>9 DEF MediaNext, Tick

(* The notifications of a session: each is about a voice that ended and was
   not told of, in the order in which its object played them, whatever guest
   code calls while Tick delivers. *)
THEOREM NoticesInvariant == MediaSpec => []NoticesInv
  BY NoticesInitially, NoticesStep, PTL DEF MediaSpec

-----------------------------------------------------------------------------
(* Every step is one of PlayNotices, or none. *)

(* The object that played v is there and either still has the voice or has a
   notice of its end on the way. *)
Wanted(v) ==
    \E a \in Live : /\ media[a].gen = owners[v]
                    /\ Queued(v) \/ (media[a].hasVoice /\ media[a].voice = v)

FateOf(v) ==
    IF v >= nextVoice THEN "unused"
    ELSE IF told[v] = 1 THEN "told"
    ELSE IF IsPlaying(v) THEN "playing"
    ELSE IF Wanted(v) THEN "owed" ELSE "void"

FatesAre == \A v \in Voices : fates[v] = FateOf(v) /\ Fate(v) = fates[v]

LEMMA OwnerKnown ==
    ASSUME NoticesInv, NEW v, NEW a \in Live, media[a].gen = owners[v]
    PROVE  OwnerLives(v) /\ Owner(v) = a
<1>1. \A b \in Live : media[b].gen = owners[v] => b = a
  BY DEF NoticesInv, GensApart
<1>2. Owner(v) \in Live /\ media[Owner(v)].gen = owners[v]
  BY DEF Owner
<1> QED
  BY <1>1, <1>2 DEF OwnerLives

LEMMA FatesKnown == NoticesInv => FatesAre
<1> SUFFICES ASSUME NoticesInv, NEW v \in Voices
             PROVE  Fate(v) = FateOf(v)
  BY DEF FatesAre, fates
<1>1. /\ told[v] \in Nat /\ told[v] <= 1 /\ (v >= nextVoice => told[v] = 0)
      /\ nextVoice \in Nat /\ v \in Nat
  BY NoticesTypes DEF NoticesInv, VoicesPlayed
<1>2. IsPlaying(v) => v < nextVoice /\ told[v] = 0
  <2> SUFFICES ASSUME v \in DOMAIN voices
               PROVE  v < nextVoice /\ told[v] = 0
    BY DEF IsPlaying
  <2>1. PICK a \in Live : media[a].hasVoice /\ media[a].voice = v
    BY DEF NoticesInv, MediaInv, Tidy, VoicesOwned
  <2> QED
    BY <2>1, NoticesTypes DEF NoticesInv, VoicesPlayed
<1>3. Wanted(v) <=> OwnerLives(v) /\ (Queued(v) \/ (media[Owner(v)].hasVoice /\ media[Owner(v)].voice = v))
  BY OwnerKnown DEF Wanted, OwnerLives
<1>4. CASE v >= nextVoice
  <2>1. told[v] = 0 /\ ~IsPlaying(v) /\ ~(v < nextVoice)
    BY <1>1, <1>2, <1>4
  <2> QED
    BY <1>4, <2>1 DEF Fate, FateOf
<1>5. CASE v < nextVoice /\ told[v] = 1
  BY <1>1, <1>2, <1>5 DEF Fate, FateOf
<1>6. CASE v < nextVoice /\ told[v] = 0 /\ IsPlaying(v)
  BY <1>1, <1>6 DEF Fate, FateOf
<1>7. CASE v < nextVoice /\ told[v] = 0 /\ ~IsPlaying(v)
  BY <1>1, <1>3, <1>7 DEF Fate, FateOf
<1> QED
  BY <1>1, <1>4, <1>5, <1>6, <1>7

(* A step in which voices end, are cut off or are no longer asked about. *)
LEMMA FatesEnd ==
    ASSUME NoticesInv, FatesAre, FatesAre',
           UNCHANGED <<nextVoice, told, owners>>, DOMAIN voices' \subseteq DOMAIN voices,
           \A v \in Voices : /\ v < nextVoice /\ v \notin DOMAIN voices /\ Wanted(v)'
                             => Wanted(v)
    PROVE  Notices!Ends
<1> DEFINE V == {v \in Voices : fates'[v] # fates[v]}
           f == [v \in V |-> fates'[v]]
<1>1. \A v \in Voices : told[v] \in {0, 1} /\ (v < nextVoice \/ v >= nextVoice)
  BY NoticesTypes DEF NoticesInv, VoicesPlayed
<1>2. ASSUME NEW v \in Voices, fates'[v] # fates[v]
      PROVE  fates[v] \in {"playing", "owed"} /\ fates'[v] \in {"owed", "void"}
  <2>1. fates[v] = FateOf(v) /\ fates'[v] = FateOf(v)'
    BY DEF FatesAre
  <2>2. v < nextVoice /\ told[v] # 1
    BY <1>1, <1>2, <2>1 DEF FateOf
  <2>3. CASE IsPlaying(v)
    BY <1>1, <1>2, <2>1, <2>2, <2>3 DEF FateOf
  <2>4. CASE ~IsPlaying(v)
    <3>1. ~IsPlaying(v)' /\ (Wanted(v)' => Wanted(v))
      BY <2>2, <2>4 DEF IsPlaying
    <3> QED
      BY <1>1, <1>2, <2>1, <2>2, <2>4, <3>1 DEF FateOf
  <2> QED
    BY <2>3, <2>4
<1>3. fates' = [v \in Voices |-> fates'[v]]
  BY DEF fates
<1>4. fates' = [v \in Voices |-> IF v \in V THEN f[v] ELSE fates[v]]
  BY <1>3
<1>5. V \in SUBSET Voices /\ f \in [V -> {"owed", "void"}]
      /\ \A v \in V : fates[v] \in {"playing", "owed"}
  BY <1>2
<1> HIDE DEF V, f
<1> QED
  BY <1>4, <1>5 DEF Notices!Ends

(* What a voice is wanted by, before and after a call. *)
LEMMA WantedCut ==
    ASSUME NoticesInv, NEW a \in Live, batch' = batch, Play(a) \/ Stop(a),
           NEW v \in Voices, v < nextVoice
    PROVE  /\ Wanted(v)' => Wanted(v)
           /\ Wanted(v) /\ v \notin VoiceOf(a) => Wanted(v)'
<1>0. MediaCore /\ queue \in Seq(Notice) /\ nextVoice \in Nat /\ v \in Nat
      /\ owners \in [Voices -> 0..MaxGenerations]
  BY NoticesTypes
<1>1. /\ Live' = Live
      /\ \A b \in Live : /\ media'[b].gen = media[b].gen
                         /\ b # a => media'[b] = media[b]
      /\ Announced(a)
      /\ media'[a].hasVoice => media'[a].voice = nextVoice
      /\ owners' = owners \/ owners' = [owners EXCEPT ![nextVoice] = media[a].gen]
  BY <1>0, SilentEffect, PlayEffect
<1>2. owners'[v] = owners[v]
  BY <1>0, <1>1
<1>3. \A n \in Elems(queue') :
         n \in Elems(queue) \/ (n = NoticeOf(a) /\ media[a].hasVoice)
  BY <1>1, AnnouncedOrder
<1>4. Elems(queue) \subseteq Elems(queue')
  BY <1>0, <1>1, AnnouncedElems
<1>5. Queued(v)' => Queued(v) \/ (media[a].hasVoice /\ media[a].voice = v)
  BY <1>3 DEF Queued, NoticeOf
<1>6. Queued(v) => Queued(v)'
  BY <1>4 DEF Queued
<1>7. media[a].hasVoice /\ media[a].voice = v => Wanted(v)
  BY DEF Wanted, NoticesInv, VoicesPlayed
<1>8. ASSUME Wanted(v)'
      PROVE  Wanted(v)
  <2>1. PICK b \in Live : /\ media[b].gen = owners[v]
                          /\ Queued(v)' \/ (media'[b].hasVoice /\ media'[b].voice = v)
    BY <1>1, <1>2, <1>8 DEF Wanted
  <2>2. CASE Queued(v)'
    BY <1>5, <1>7, <2>1, <2>2 DEF Wanted
  <2>3. CASE media'[b].hasVoice /\ media'[b].voice = v
    <3>1. b # a
      BY <1>0, <1>1, <2>3
    <3> QED
      BY <1>1, <2>1, <2>3, <3>1 DEF Wanted
  <2> QED
    BY <2>1, <2>2, <2>3
<1>9. ASSUME Wanted(v), v \notin VoiceOf(a)
      PROVE  Wanted(v)'
  <2>1. PICK b \in Live : /\ media[b].gen = owners[v]
                          /\ Queued(v) \/ (media[b].hasVoice /\ media[b].voice = v)
    BY <1>9 DEF Wanted
  <2>2. media[b].hasVoice /\ media[b].voice = v => b # a
    BY <1>9 DEF VoiceOf
  <2> QED
    BY <1>1, <1>2, <1>6, <2>1, <2>2 DEF Wanted
<1> QED
  BY <1>8, <1>9

LEMMA PlayMaps ==
    ASSUME NoticesInv, FatesAre, FatesAre', NEW a \in Live, batch' = batch, Play(a)
    PROVE  \E v \in Voices : \E g \in 0..MaxGenerations : Notices!Play(v, g)
<1> SUFFICES ASSUME NEW new, new = nextVoice, NEW g, g = media[a].gen,
                    NEW w, w = media[a].voice
             PROVE  \E v \in Voices : \E x \in 0..MaxGenerations : Notices!Play(v, x)
  OBVIOUS
<1>0. /\ MediaCore /\ nextVoice \in Nat /\ Voices \subseteq Nat
      /\ \A v \in Voices : told[v] \in {0, 1} /\ (v >= nextVoice => told[v] = 0)
      /\ media[a].hasVoice => /\ w \in Voices /\ w < nextVoice
                              /\ owners[w] = media[a].gen /\ told[w] = 0
  BY NoticesTypes DEF NoticesInv, VoicesPlayed
<1>1. /\ media'[a].hasVoice /\ media'[a].voice = nextVoice
      /\ DOMAIN voices' = (DOMAIN voices \ VoiceOf(a)) \cup {new}
      /\ new \in Voices /\ nextVoice' = nextVoice + 1
      /\ owners' = [owners EXCEPT ![new] = g]
      /\ told' = told
  BY <1>0, PlayEffect
<1>2. g \in 0..MaxGenerations
  BY <1>0, MediaBounds DEF MediaCore, MediaTypeOK, Media
<1>3. \A v \in Voices : fates[v] = FateOf(v) /\ fates'[v] = FateOf(v)'
  BY DEF FatesAre
<1>4. fates[new] = "unused" /\ fates'[new] = "playing"
  <2>1. new >= nextVoice /\ ~(new >= nextVoice')
    BY <1>0, <1>1
  <2>2. told'[new] = 0
    BY <1>0, <1>1, <2>1
  <2>3. IsPlaying(new)'
    BY <1>1 DEF IsPlaying
  <2>4. FateOf(new) = "unused"
    BY <2>1 DEF FateOf
  <2>5. FateOf(new)' = "playing"
    BY <2>1, <2>2, <2>3 DEF FateOf
  <2> QED
    BY <1>1, <1>3, <2>4, <2>5
<1>5. ASSUME NEW v \in Voices, v # new, v \notin VoiceOf(a)
      PROVE  fates'[v] = fates[v]
  <2>1. (v >= nextVoice' <=> v >= nextVoice) /\ (v < nextVoice \/ v >= nextVoice)
    BY <1>0, <1>1, <1>5
  <2>2. IsPlaying(v)' <=> IsPlaying(v)
    BY <1>1, <1>5 DEF IsPlaying
  <2>3. v < nextVoice => (Wanted(v)' <=> Wanted(v))
    BY <1>5, WantedCut
  <2> QED
    BY <1>1, <1>3, <2>1, <2>2, <2>3 DEF FateOf
<1>6. fates = [v \in Voices |-> fates[v]] /\ fates' = [v \in Voices |-> fates'[v]]
  BY DEF fates
<1>7. CASE ~media[a].hasVoice
  <2>1. fates' = [fates EXCEPT ![new] = "playing"]
    BY <1>1, <1>4, <1>5, <1>6, <1>7 DEF VoiceOf
  <2>2. Notices!Play(new, g)
    BY <1>1, <1>4, <2>1 DEF Notices!Play
  <2> QED
    BY <1>1, <1>2, <2>2
<1>8. CASE media[a].hasVoice
  <2>1. w \in Voices /\ w < nextVoice /\ owners[w] = g /\ w # new /\ VoiceOf(a) = {w}
    BY <1>0, <1>8 DEF VoiceOf
  <2>2. fates[w] \in {"playing", "owed"}
    <3>0. w \in Nat /\ nextVoice \in Nat /\ w < nextVoice
      BY <1>0, <2>1
    <3>1. ~(w >= nextVoice)
      BY <3>0
    <3>2. Wanted(w)
      BY <1>8, <2>1 DEF Wanted
    <3>3. told[w] = 0
      BY <1>0, <1>8
    <3>4. FateOf(w) \in {"playing", "owed"}
      BY <3>1, <3>2, <3>3 DEF FateOf
    <3> QED
      BY <1>3, <2>1, <3>4
  <2>3. fates'[w] \in {"owed", "void"}
    <3>1. w \in Nat /\ nextVoice \in Nat /\ w < nextVoice
      BY <1>0, <2>1
    <3>2. ~(w >= nextVoice')
      BY <1>0, <1>1, <3>1
    <3>3. told'[w] = 0
      BY <1>0, <1>1, <1>8
    <3>4. ~IsPlaying(w)'
      BY <1>1, <2>1 DEF IsPlaying
    <3>5. FateOf(w)' \in {"owed", "void"}
      BY <3>2, <3>3, <3>4 DEF FateOf
    <3> QED
      BY <1>3, <2>1, <3>5
  <2>4. fates' = [fates EXCEPT ![new] = "playing", ![w] = fates'[w]]
    BY <1>1, <1>4, <1>5, <1>6, <2>1
  <2>5. \E u \in Voices, f \in {"owed", "void"} :
           /\ fates[u] \in {"playing", "owed"} /\ owners[u] = g
           /\ fates' = [fates EXCEPT ![new] = "playing", ![u] = f]
    BY <2>1, <2>2, <2>3, <2>4
  <2>6. Notices!Play(new, g)
    BY <1>1, <1>4, <2>5 DEF Notices!Play
  <2> QED
    BY <1>1, <1>2, <2>6
<1> QED
  BY <1>7, <1>8

LEMMA DeliverMaps ==
    ASSUME NoticesInv, FatesAre, FatesAre', Deliver
    PROVE  \E v \in Voices : Notices!Tell(v)
<1> SUFFICES ASSUME NEW h, h = Head(batch), NEW v, v = h.voice
             PROVE  \E u \in Voices : Notices!Tell(u)
  OBVIOUS
<1>1. /\ batch # <<>> /\ batch' = Tail(batch) /\ Current(h)
      /\ told' = [told EXCEPT ![v] = @ + 1]
      /\ UNCHANGED <<media, nextGen, queue, nextVoice, voices, owners>>
  BY DEF Deliver, objectVars, mixerVars
<1>2. /\ h \in Elems(batch) /\ h \in Notice
      /\ \A n \in Elems(Tail(batch)) \cup Elems(queue) :
            /\ n \in Pending /\ n.voice # v
            /\ n.gen = h.gen => v < n.voice
  BY <1>1, HeadAlone
<1>3. /\ batch \in Seq(Notice) /\ told \in [Voices -> Nat] /\ Voices \subseteq Nat
      /\ v \in Voices /\ nextVoice \in Nat
      /\ \A u \in Voices : told[u] \in {0, 1}
  BY <1>2, NoticesTypes DEF NoticesInv, VoicesPlayed
<1>4. /\ v < nextVoice /\ v \notin DOMAIN voices /\ told[v] = 0 /\ owners[v] = h.gen
      /\ \A a \in Live : media[a].hasVoice /\ media[a].gen = h.gen => v < media[a].voice
  BY <1>2 DEF NoticesInv, NoticesDue, Pending
<1>5. Elems(batch) = Elems(Tail(batch)) \cup {h}
  BY <1>1, <1>3, TailElems
<1>6. \A u : u # v => (Queued(u)' <=> Queued(u))
  BY <1>1, <1>5 DEF Queued
<1>7. \A u \in Voices : fates[u] = FateOf(u) /\ fates'[u] = FateOf(u)'
  BY DEF FatesAre
<1>8. h.obj \in Live /\ media[h.obj].gen = h.gen
  BY <1>1 DEF Current
<1>9. fates[v] = "owed"
  <2>1. Wanted(v)
    BY <1>2, <1>4, <1>8 DEF Wanted, Queued
  <2>2. v \in Nat /\ nextVoice \in Nat /\ v < nextVoice
    BY <1>3, <1>4
  <2>3. ~(v >= nextVoice)
    BY <2>2
  <2>4. ~IsPlaying(v) /\ told[v] = 0
    BY <1>4 DEF IsPlaying
  <2>5. FateOf(v) = "owed"
    BY <2>1, <2>3, <2>4 DEF FateOf
  <2> QED
    BY <1>3, <1>7, <2>5
<1>10. fates'[v] = "told"
  <2>1. v \in Nat /\ nextVoice \in Nat /\ v < nextVoice /\ nextVoice' = nextVoice
    BY <1>1, <1>3, <1>4
  <2>2. ~(v >= nextVoice')
    BY <2>1
  <2>3. told'[v] = told[v] + 1
    BY <1>1, <1>3
  <2>4. told'[v] = 1
    BY <1>4, <2>3
  <2>5. FateOf(v)' = "told"
    BY <2>2, <2>4 DEF FateOf
  <2> QED
    BY <1>3, <1>7, <2>5
<1>11. ASSUME NEW u \in Voices, u # v
       PROVE  fates'[u] = fates[u]
  <2>1. told'[u] = told[u] /\ (IsPlaying(u)' <=> IsPlaying(u))
    BY <1>1, <1>3, <1>11 DEF IsPlaying
  <2>2. Wanted(u)' <=> Wanted(u)
    BY <1>1, <1>6, <1>11 DEF Wanted, Live
  <2> QED
    BY <1>1, <1>7, <2>1, <2>2 DEF FateOf
<1>12. ASSUME NEW u \in Voices, u < v, owners[u] = owners[v], fates[u] = "owed"
       PROVE  FALSE
  <2>1. Wanted(u)
    BY <1>7, <1>12 DEF FateOf
  <2>2. PICK a \in Live : /\ media[a].gen = owners[u]
                          /\ Queued(u) \/ (media[a].hasVoice /\ media[a].voice = u)
    BY <2>1 DEF Wanted
  <2>3. u # v /\ ~(v < u)
    BY <1>3, <1>12
  <2>4. ~(media[a].hasVoice /\ media[a].voice = u)
    BY <1>4, <1>12, <2>2, <2>3
  <2>5. PICK n \in Elems(queue) \cup Elems(batch) : n.voice = u
    BY <2>2, <2>4 DEF Queued
  <2>6. n # h
    BY <2>3, <2>5
  <2>7. n \in Elems(Tail(batch)) \cup Elems(queue)
    BY <1>5, <2>5, <2>6
  <2>8. n.gen = owners[u]
    BY <1>2, <2>5, <2>7 DEF NoticesInv, NoticesDue
  <2> QED
    BY <1>2, <1>4, <1>12, <2>3, <2>5, <2>7, <2>8
<1>13. fates = [u \in Voices |-> fates[u]] /\ fates' = [u \in Voices |-> fates'[u]]
  BY DEF fates
<1>14. fates' = [fates EXCEPT ![v] = "told"]
  BY <1>3, <1>10, <1>11, <1>13
<1>15. owners' = owners
  BY <1>1
<1>16. Notices!Tell(v)
  BY <1>9, <1>12, <1>14, <1>15 DEF Notices!Tell
<1> QED
  BY <1>3, <1>16

(* A notice is queued, an object has a voice: only of what was wanted. *)
LEMMA WantedLess ==
    ASSUME NoticesInv, owners' = owners, Live' \subseteq Live,
           \A b \in Live' : /\ media'[b].gen = media[b].gen
                            /\ media'[b].hasVoice =>
                                  media[b].hasVoice /\ media'[b].voice = media[b].voice,
           \A n \in Pending' : \/ n \in Pending
                               \/ \E a \in Live : media[a].hasVoice /\ n = NoticeOf(a),
           NEW v, Wanted(v)'
    PROVE  Wanted(v)
<1>1. PICK b \in Live' : /\ media'[b].gen = owners[v]
                         /\ Queued(v)' \/ (media'[b].hasVoice /\ media'[b].voice = v)
  BY DEF Wanted
<1>2. b \in Live /\ media[b].gen = owners[v]
  BY <1>1
<1>3. CASE media'[b].hasVoice /\ media'[b].voice = v
  BY <1>2, <1>3 DEF Wanted
<1>4. CASE Queued(v)'
  <2>1. PICK n \in Pending' : n.voice = v
    BY <1>4 DEF Queued, Pending
  <2>2. CASE n \in Pending
    BY <1>2, <2>1, <2>2 DEF Wanted, Queued, Pending
  <2>3. CASE \E a \in Live : media[a].hasVoice /\ n = NoticeOf(a)
    <3>1. PICK a \in Live : media[a].hasVoice /\ n = NoticeOf(a)
      BY <2>3
    <3>2. media[a].voice = v
      BY <2>1, <3>1 DEF NoticeOf
    <3>3. media[a].gen = owners[v]
      BY <3>1, <3>2 DEF NoticesInv, VoicesPlayed
    <3> QED
      BY <3>1, <3>2, <3>3 DEF Wanted
  <2> QED
    BY <2>1, <2>2, <2>3
<1> QED
  BY <1>1, <1>3, <1>4

(* The steps of the loop and of Tick that announce nothing. *)
LEMMA QuietMaps ==
    ASSUME NoticesInv, FatesAre, FatesAre',
           \/ TickBegin \/ Discard \/ CallbackReturns \/ TickEnd \/ Mix
           \/ UNCHANGED mediaVars
    PROVE  Notices!Ends
<1>1. /\ media' = media /\ DOMAIN voices' \subseteq DOMAIN voices
      /\ UNCHANGED <<nextVoice, told, owners>>
      /\ Pending' \subseteq Pending
  <2>1. CASE TickBegin
    <3>1. Elems(batch') \cup Elems(queue') = Elems(queue)
      BY <2>1 DEF TickBegin, Elems
    <3> QED
      BY <2>1, <3>1 DEF TickBegin, objectVars, mixerVars, histVars, Pending
  <2>2. CASE Discard
    <3>1. batch # <<>> /\ batch' = Tail(batch) /\ batch \in Seq(Notice)
      BY <2>2, NoticesTypes DEF Discard
    <3>2. Elems(batch') \subseteq Elems(batch)
      BY <3>1, TailElems
    <3> QED
      BY <2>2, <3>2 DEF Discard, objectVars, mixerVars, histVars, Pending
  <2>3. CASE CallbackReturns \/ TickEnd \/ UNCHANGED mediaVars
    BY <2>3 DEF CallbackReturns, TickEnd, mediaVars, objectVars, mixerVars, tickVars,
                histVars, Pending
  <2>4. CASE Mix
    <3>1. PICK V : voices' = Without(voices, V)
      BY <2>4 DEF Mix
    <3> QED
      BY <2>4, <3>1 DEF Mix, Without, objectVars, tickVars, histVars, Pending
  <2> QED
    BY <2>1, <2>2, <2>3, <2>4
<1>2. \A v \in Voices : Wanted(v)' => Wanted(v)
  BY <1>1, WantedLess DEF Live
<1> QED
  BY <1>1, <1>2, FatesEnd

LEMMA ScanMaps == ASSUME NoticesInv, FatesAre, FatesAre', Scan PROVE Notices!Ends
<1>1. /\ Live' = Live
      /\ \A a \in Live : /\ media'[a].gen = media[a].gen
                         /\ a \notin Finished => media'[a] = media[a]
                         /\ a \in Finished => ~media'[a].hasVoice
      /\ \A n \in Elems(batch') : \E a \in Finished : n = NoticeOf(a)
  BY NoticesTypes, ScanElems
<1>2. UNCHANGED <<queue, nextVoice, voices, told, owners>>
  BY DEF Scan, mixerVars, histVars
<1>3. \A n \in Pending' : \/ n \in Pending
                          \/ \E a \in Live : media[a].hasVoice /\ n = NoticeOf(a)
  BY <1>1, <1>2 DEF Pending, Finished
<1>4. \A v \in Voices : Wanted(v)' => Wanted(v)
  BY <1>1, <1>2, <1>3, WantedLess
<1> QED
  BY <1>2, <1>4, FatesEnd

(* An object is made: no voice that was played is its own. *)
LEMMA CreateMaps ==
    ASSUME NoticesInv, FatesAre, FatesAre', CreateMediaObject
    PROVE  Notices!Ends
<1>1. PICK a \in Addresses : Allocate(a) /\ media' = With(a, NewMedia)
  BY DEF CreateMediaObject, NewMedia
<1>2. /\ MediaCore /\ nextGen \in Nat /\ owners \in [Voices -> 0..MaxGenerations]
  BY NoticesTypes
<1>3. /\ Live' = Live \cup {a} /\ media'[a] = NewMedia
      /\ \A b \in Live : b # a => media'[b] = media[b]
  BY <1>1, <1>2, Created
<1>4. a \notin Live
  BY <1>1, <1>2, HandedOut DEF NoticesInv, MediaInv, Tidy
<1>5. UNCHANGED <<queue, nextVoice, voices, batch, told, owners>>
  BY DEF CreateMediaObject, mixerVars, tickVars, histVars
<1>6. NewMedia.gen = nextGen
  BY DEF NewMedia
<1>7. ASSUME NEW v \in Voices, v < nextVoice, Wanted(v)'
      PROVE  Wanted(v)
  <2>1. PICK b \in Live' : /\ media'[b].gen = owners[v]
                           /\ Queued(v)' \/ (media'[b].hasVoice /\ media'[b].voice = v)
    BY <1>5, <1>7 DEF Wanted
  <2>2. owners[v] < nextGen /\ owners[v] \in 0..MaxGenerations
    BY <1>2, <1>7 DEF NoticesInv, VoicesPlayed
  <2>3. owners[v] # nextGen
    BY <1>2, <2>2, MediaBounds
  <2>4. b \in Live /\ media'[b] = media[b]
    BY <1>3, <1>4, <1>6, <2>1, <2>3
  <2>5. Queued(v)' => Queued(v)
    BY <1>5 DEF Queued
  <2> QED
    BY <2>1, <2>4, <2>5 DEF Wanted
<1> QED
  BY <1>5, <1>7, FatesEnd

(* A method other than Play ends sounds, cuts one off, or drops its notices. *)
LEMMA CallMaps ==
    ASSUME NoticesInv, FatesAre, FatesAre', MediaCall
    PROVE  Notices!Ends \/ \E v \in Voices, g \in 0..MaxGenerations : Notices!Play(v, g)
<1>0. MediaCore /\ batch' = batch
  BY NoticesTypes DEF MediaCall, tickVars
<1>1. PICK a \in Live :
          \/ AddRef(a) \/ Release(a)
          \/ \E n \in Notifies \cup {NoNotify} : RegisterNotify(a, n)
          \/ \E c \in Sounds : SetMediaData(a, c)
          \/ \E l \in Loops : SetRepeat(a, l)
          \/ Play(a) \/ Stop(a) \/ Pause(a) \/ Resume(a) \/ GetState(a)
  BY DEF MediaCall
<1>2. CASE \/ AddRef(a)
           \/ \E n \in Notifies \cup {NoNotify} : RegisterNotify(a, n)
           \/ \E c \in Sounds : SetMediaData(a, c)
           \/ \E l \in Loops : SetRepeat(a, l)
           \/ Pause(a) \/ Resume(a) \/ (Release(a) /\ OneLess(a))
  <2>1. /\ SameObjects /\ DOMAIN voices' = DOMAIN voices
        /\ UNCHANGED <<queue, nextVoice, nextGen, told, owners>>
    BY <1>0, <1>2, QuietEffect
  <2>2. Pending' = Pending
    BY <1>0, <2>1 DEF Pending
  <2>3. \A v \in Voices : Wanted(v)' => Wanted(v)
    BY <2>1, <2>2, WantedLess DEF SameObjects
  <2> QED
    BY <2>1, <2>3, FatesEnd
<1>3. CASE GetState(a)
  <2>1. /\ Live' = Live /\ media'[a].gen = media[a].gen /\ ~media'[a].hasVoice
        /\ \A b \in Live : b # a => media'[b] = media[b]
        /\ DOMAIN voices' \subseteq DOMAIN voices
        /\ UNCHANGED <<queue, nextVoice, told, owners>>
    BY <1>0, <1>3, SilentEffect
  <2>2. Pending' = Pending
    BY <1>0, <2>1 DEF Pending
  <2>3. \A v \in Voices : Wanted(v)' => Wanted(v)
    BY <2>1, <2>2, WantedLess
  <2> QED
    BY <2>1, <2>3, FatesEnd
<1>4. CASE Release(a) /\ LastRelease(a)
  <2>1. /\ Live' = Live \ {a}
        /\ \A b \in Live' : media'[b] = media[b]
        /\ DOMAIN voices' \subseteq DOMAIN voices
        /\ UNCHANGED <<nextVoice, nextGen, told, owners>>
    BY <1>0, <1>4, ReleasedEffect
  <2>2. Pending' \subseteq Pending
    BY <1>0, <1>4, ReleasedQueue DEF Pending
  <2>3. \A v \in Voices : Wanted(v)' => Wanted(v)
    BY <2>1, <2>2, WantedLess
  <2> QED
    BY <2>1, <2>3, FatesEnd
<1>5. CASE Stop(a)
  <2>1. DOMAIN voices' \subseteq DOMAIN voices /\ UNCHANGED <<nextVoice, told, owners>>
    BY <1>0, <1>5, SilentEffect
  <2>2. \A v \in Voices : v < nextVoice /\ Wanted(v)' => Wanted(v)
    BY <1>0, <1>5, WantedCut
  <2> QED
    BY <2>1, <2>2, FatesEnd
<1>6. CASE Play(a)
  BY <1>0, <1>6, PlayMaps
<1> QED
  BY <1>1, <1>2, <1>3, <1>4, <1>5, <1>6 DEF Release

LEMMA StepMaps ==
    ASSUME NoticesInv, FatesAre, FatesAre', [MediaNext]_mediaVars
    PROVE  [Notices!NoticesNext]_(Notices!noticeVars)
<1>1. CASE CreateMediaObject
  BY <1>1, CreateMaps DEF Notices!NoticesNext
<1>2. CASE MediaCall
  BY <1>2, CallMaps DEF Notices!NoticesNext
<1>3. CASE Deliver
  BY <1>3, DeliverMaps DEF Notices!NoticesNext
<1>4. CASE Scan
  BY <1>4, ScanMaps DEF Notices!NoticesNext
<1>5. CASE \/ TickBegin \/ Discard \/ CallbackReturns \/ TickEnd \/ Mix
           \/ UNCHANGED mediaVars
  BY <1>5, QuietMaps DEF Notices!NoticesNext
<1> QED
  BY <1>1, <1>2, <1>3, <1>4, <1>5 DEF MediaNext, Tick

LEMMA InitMaps == MediaInit => Notices!NoticesInit
<1> SUFFICES ASSUME MediaInit
             PROVE  Notices!NoticesInit
  OBVIOUS
<1>1. nextVoice = 1 /\ owners = [v \in Voices |-> 0]
  BY DEF MediaInit
<1>2. \A v \in Voices : v >= nextVoice
  BY <1>1, MediaBounds DEF Voices
<1>3. \A v \in Voices : Fate(v) = "unused"
  <2> SUFFICES ASSUME NEW v \in Voices
               PROVE  Fate(v) = "unused"
    OBVIOUS
  <2>1. NoticesInv /\ v >= nextVoice
    BY <1>2, NoticesInitially
  <2>2. FatesAre
    BY <2>1, FatesKnown
  <2> QED
    BY <2>1, <2>2 DEF FatesAre, FateOf
<1>4. fates = [v \in Voices |-> "unused"]
  BY <1>3 DEF fates
<1> QED
  BY <1>1, <1>4 DEF Notices!NoticesInit

(* MediaHle and the mixer promise what PlayNotices says: Play, Stop, Release,
   the end of a voice and Tick together tell of each sound at most once, after
   it ended, and of the sounds of one object in the order they were played. *)
THEOREM NoticesRefined == MediaSpec => ImplementsPlayNotices
<1>1. NoticesInv => FatesAre
  BY FatesKnown
<1>2. NoticesInv /\ FatesAre /\ FatesAre' /\ [MediaNext]_mediaVars
      => [Notices!NoticesNext]_(Notices!noticeVars)
  BY StepMaps
<1> QED
  BY <1>1, <1>2, InitMaps, NoticesInvariant, PTL
     DEF MediaSpec, ImplementsPlayNotices, Notices!NoticesSpec

-----------------------------------------------------------------------------
(* A notice that its object asks for stays on its way until it is told. *)

(* Object b played v, wants to know of its end, and was not told yet. *)
AskedBy(b, v) ==
    /\ b \in Live /\ media[b].gen = owners[v] /\ media[b].notify # NoNotify
    /\ \A n \in Pending : n.voice = v => n.notify = media[b].notify
    /\ Queued(v) \/ (media[b].hasVoice /\ media[b].voice = v)
    /\ v \in Voices /\ v < nextVoice

LEMMA WantedStays ==
    ASSUME NEW v, NEW b, AskedBy(b, v), b \in Live', owners'[v] = owners[v],
           media'[b].gen = media[b].gen,
           Queued(v) => Queued(v)',
           media[b].hasVoice /\ media[b].voice = v
              => Queued(v)' \/ (media'[b].hasVoice /\ media'[b].voice = v)
    PROVE  Wanted(v)'
BY DEF AskedBy, Wanted

LEMMA CallKeeps ==
    ASSUME NoticesInv, NEW b, NEW v, AskedBy(b, v), MediaCall,
           ~ \E a \in Live : GetState(a),
           \E c \in Live' : media'[c].gen = owners[v]
    PROVE  Wanted(v)'
<1>0. MediaCore /\ batch' = batch /\ queue \in Seq(Notice)
  BY NoticesTypes DEF MediaCall, tickVars
<1>1. PICK a \in Live :
          \/ AddRef(a) \/ Release(a)
          \/ \E n \in Notifies \cup {NoNotify} : RegisterNotify(a, n)
          \/ \E c \in Sounds : SetMediaData(a, c)
          \/ \E l \in Loops : SetRepeat(a, l)
          \/ Play(a) \/ Stop(a) \/ Pause(a) \/ Resume(a)
  BY DEF MediaCall
<1>2. /\ b \in Live /\ media[b].gen = owners[v] /\ media[b].notify # NoNotify
      /\ v \in Voices /\ v < nextVoice
  BY DEF AskedBy
<1>3. CASE \/ AddRef(a)
           \/ \E n \in Notifies \cup {NoNotify} : RegisterNotify(a, n)
           \/ \E c \in Sounds : SetMediaData(a, c)
           \/ \E l \in Loops : SetRepeat(a, l)
           \/ Pause(a) \/ Resume(a) \/ (Release(a) /\ OneLess(a))
  <2>1. SameObjects /\ UNCHANGED <<queue, nextVoice, nextGen, told, owners>>
    BY <1>0, <1>3, QuietEffect
  <2>2. Queued(v) => Queued(v)'
    BY <1>0, <2>1 DEF Queued
  <2> QED
    BY <1>2, <2>1, <2>2, WantedStays DEF SameObjects
<1>4. CASE Release(a) /\ LastRelease(a)
  <2>1. /\ Live' = Live \ {a}
        /\ \A c \in Live' : media'[c] = media[c]
        /\ owners' = owners
    BY <1>0, <1>4, ReleasedEffect
  <2>2. PICK I \in SUBSET DOMAIN queue :
           /\ queue' \in Kept(queue, I)
           /\ \A i \in DOMAIN queue :
                 i \notin I => queue[i].obj = a /\ queue[i].gen = media[a].gen
    BY <1>0, <1>4, ReleasedEffect
  <2>3. b # a
    <3>1. PICK c \in Live' : media'[c].gen = owners[v]
      OBVIOUS
    <3>2. c \in Live /\ c # a /\ media[c].gen = media[b].gen
      BY <1>2, <2>1, <3>1
    <3> QED
      BY <1>2, <3>2 DEF NoticesInv, GensApart
  <2>4. ASSUME NEW n \in Elems(queue), n.voice = v
        PROVE  n \in Elems(queue')
    <3>1. n.gen = media[b].gen
      BY <1>2, <2>4 DEF NoticesInv, NoticesDue, Pending
    <3>2. PICK i \in DOMAIN queue : n = queue[i]
      BY DEF Elems
    <3>3. media[a].gen # media[b].gen
      BY <1>2, <2>3 DEF NoticesInv, GensApart
    <3>4. i \in I
      BY <2>2, <3>1, <3>2, <3>3
    <3>5. \E j \in I : queue[j] = n
      BY <3>2, <3>4
    <3> QED
      BY <1>0, <2>2, <3>5, KeptElems
  <2>5. Queued(v) => Queued(v)'
    BY <1>0, <2>4 DEF Queued
  <2> QED
    BY <1>2, <2>1, <2>3, <2>5, WantedStays
<1>5. CASE Play(a) \/ Stop(a)
  <2>1. CASE v \notin VoiceOf(a)
    <3>1. Wanted(v)
      BY DEF AskedBy, Wanted
    <3> QED
      BY <1>0, <1>2, <1>5, <2>1, <3>1, WantedCut
  <2>2. CASE v \in VoiceOf(a)
    <3>1. media[a].hasVoice /\ media[a].voice = v
      BY <2>2 DEF VoiceOf
    <3>2. a = b
      BY <1>2, <3>1 DEF NoticesInv, VoicesPlayed, GensApart
    <3>3. /\ Announced(a) /\ Live' = Live /\ media'[a].gen = media[a].gen
          /\ owners' = owners \/ owners' = [owners EXCEPT ![nextVoice] = media[a].gen]
      BY <1>0, <1>5, SilentEffect, PlayEffect
    <3>4. NoticeOf(a) \in Elems(queue')
      BY <1>0, <1>2, <3>1, <3>2, <3>3, AnnouncedElems
    <3>5. Queued(v)'
      BY <3>1, <3>4 DEF Queued, NoticeOf
    <3>6. owners'[v] = owners[v]
      BY <1>2, <3>3, NoticesTypes
    <3> QED
      BY <1>2, <3>2, <3>3, <3>5, <3>6 DEF Wanted
  <2> QED
    BY <2>1, <2>2
<1> QED
  BY <1>1, <1>3, <1>4, <1>5 DEF Release

(* Tick hands out what it takes from the queue, unless the object is gone or
   asks for something else. *)
LEMMA TickKeeps ==
    ASSUME NoticesInv, NEW b, NEW v, AskedBy(b, v), Tick
    PROVE  Wanted(v)' \/ told'[v] = 1
<1>1. /\ b \in Live /\ media[b].gen = owners[v] /\ media[b].notify # NoNotify
      /\ v \in Voices /\ v < nextVoice
      /\ \A n \in Pending : n.voice = v => n.notify = media[b].notify
  BY DEF AskedBy
<1>2. batch \in Seq(Notice) /\ MediaCore
  BY NoticesTypes
<1>3. CASE TickBegin
  <2>1. batch = <<>> /\ batch' = queue /\ UNCHANGED <<media, owners>>
    BY <1>3 DEF TickBegin, objectVars, histVars, NoticesInv, TickState
  <2>2. Queued(v) => Queued(v)'
    BY <2>1 DEF Queued, Elems
  <2> QED
    BY <1>1, <2>1, <2>2, WantedStays DEF Live
<1>4. CASE CallbackReturns \/ TickEnd
  <2>1. UNCHANGED <<media, owners, queue, batch>>
    BY <1>4 DEF CallbackReturns, TickEnd, objectVars, histVars
  <2>2. Queued(v) => Queued(v)'
    BY <2>1 DEF Queued
  <2> QED
    BY <1>1, <2>1, <2>2, WantedStays DEF Live
<1>5. CASE Deliver \/ Discard
  <2>1. batch # <<>> /\ batch' = Tail(batch) /\ UNCHANGED <<media, owners, queue>>
    BY <1>5 DEF Deliver, Discard, objectVars, histVars
  <2>2. Elems(batch) = Elems(batch') \cup {Head(batch)}
    BY <1>2, <2>1, TailElems
  <2>3. CASE Head(batch).voice # v
    <3>1. Queued(v) => Queued(v)'
      BY <2>1, <2>2, <2>3 DEF Queued
    <3> QED
      BY <1>1, <2>1, <3>1, WantedStays DEF Live
  <2>4. CASE Head(batch).voice = v
    <3>1. Head(batch) \in Pending
      BY <2>2 DEF Pending
    <3>2. /\ Head(batch).gen = media[b].gen /\ Head(batch).notify = media[b].notify
          /\ told[v] = 0
      BY <1>1, <2>4, <3>1 DEF NoticesInv, NoticesDue
    <3>3. b = Head(batch).obj
      BY <1>1, <3>1, <3>2 DEF NoticesInv, GensApart
    <3>4. Current(Head(batch))
      BY <1>1, <3>2, <3>3 DEF Current
    <3>5. told' = [told EXCEPT ![v] = @ + 1]
      BY <1>5, <2>4, <3>4 DEF Deliver, Discard
    <3>6. told'[v] = told[v] + 1
      BY <1>1, <3>5, NoticesTypes
    <3> QED
      BY <3>2, <3>6
  <2> QED
    BY <2>3, <2>4
<1>6. CASE Scan
  <2>1. /\ Live' = Live
        /\ \A a \in Live : /\ media'[a].gen = media[a].gen
                           /\ a \notin Finished => media'[a] = media[a]
        /\ \A a \in Finished : NoticeOf(a) \in Elems(batch')
    BY <1>2, <1>6, ScanElems
  <2>2. batch = <<>> /\ queue' = queue /\ owners' = owners
    BY <1>6 DEF Scan, histVars
  <2>3. Queued(v) => Queued(v)'
    BY <2>2 DEF Queued, Elems
  <2>4. ASSUME b \in Finished, media[b].voice = v
        PROVE  Queued(v)'
    <3>1. NoticeOf(b) \in Elems(batch')
      BY <2>1, <2>4
    <3>2. NoticeOf(b).voice = v
      BY <2>4 DEF NoticeOf
    <3> QED
      BY <3>1, <3>2 DEF Queued
  <2> QED
    BY <1>1, <2>1, <2>2, <2>3, <2>4, WantedStays
<1> QED
  BY <1>3, <1>4, <1>5, <1>6 DEF Tick

(* Whoever plays, or has its notice on the way, is the object that asks. *)
LEMMA LosesWhat ==
    ASSUME NoticesInv, FatesAre, NEW v \in Voices,
           Fate(v) \in {"playing", "owed"}, ~AsksNoMore(v)
    PROVE  \E b : AskedBy(b, v)
<1>1. /\ FateOf(v) \in {"playing", "owed"} /\ OwnerLives(v)
      /\ media[Owner(v)].notify # NoNotify
      /\ \A n \in Pending : n.voice = v => n.notify = media[Owner(v)].notify
  BY DEF FatesAre, AsksNoMore, Pending
<1>2. PICK b \in Live : media[b].gen = owners[v]
  BY <1>1 DEF OwnerLives
<1>3. Owner(v) = b
  BY <1>2, OwnerKnown
<1>4. v < nextVoice
  <2>1. ~(v >= nextVoice)
    BY <1>1 DEF FateOf
  <2> QED
    BY <2>1, NoticesTypes
<1>5. Queued(v) \/ (media[b].hasVoice /\ media[b].voice = v)
  <2>1. CASE IsPlaying(v)
    <3>0. v \in DOMAIN voices
      BY <2>1 DEF IsPlaying
    <3>1. PICK a \in Live : media[a].hasVoice /\ media[a].voice = v
      BY <3>0 DEF NoticesInv, MediaInv, Tidy, VoicesOwned
    <3>2. media[a].gen = owners[v]
      BY <3>1 DEF NoticesInv, VoicesPlayed
    <3>3. a = b
      BY <1>2, <3>2 DEF NoticesInv, GensApart
    <3> QED
      BY <3>1, <3>3
  <2>2. CASE ~IsPlaying(v)
    <3>1. Wanted(v)
      BY <1>1, <2>2 DEF FateOf
    <3> QED
      BY <1>2, <3>1 DEF Wanted, NoticesInv, GensApart
  <2> QED
    BY <2>1, <2>2
<1> QED
  BY <1>1, <1>2, <1>3, <1>4, <1>5 DEF AskedBy

LEMMA NothingLost ==
    ASSUME NoticesInv, FatesAre, FatesAre', [MediaNext]_mediaVars, NEW v \in Voices,
           Loses(v), ~ \E a \in Live : GetState(a)
    PROVE  FALSE
<1>1. PICK b : AskedBy(b, v)
  BY LosesWhat DEF Loses
<1>2. /\ b \in Live /\ media[b].gen = owners[v] /\ v < nextVoice
  BY <1>1 DEF AskedBy
<1>3. FateOf(v)' = "void"
  BY DEF Loses, FatesAre
<1>4. told'[v] # 1 /\ ~Wanted(v)'
  BY <1>3 DEF FateOf
<1>5. PICK c \in Live' : media'[c].gen = owners'[v]
  BY DEF Loses, OwnerLives
<1>6. CASE CreateMediaObject
  <2>1. PICK a \in Addresses : Allocate(a) /\ media' = With(a, NewMedia)
    BY <1>6 DEF CreateMediaObject, NewMedia
  <2>2. Live' = Live \cup {a} /\ \A d \in Live : d # a => media'[d] = media[d]
    BY <1>6, <2>1, Created, NoticesTypes
  <2>3. a \notin Live
    BY <2>1, HandedOut, NoticesTypes DEF NoticesInv, MediaInv, Tidy
  <2>4. UNCHANGED <<queue, batch, owners>>
    BY <1>6 DEF CreateMediaObject, tickVars, histVars
  <2>5. Queued(v) => Queued(v)'
    BY <2>4 DEF Queued
  <2>6. b \in Live' /\ media'[b] = media[b]
    BY <1>2, <2>2, <2>3
  <2> QED
    BY <1>1, <1>4, <2>4, <2>5, <2>6, WantedStays
<1>7. CASE MediaCall
  <2>1. owners'[v] = owners[v]
    <3>1. /\ nextVoice \in Nat /\ v \in Nat /\ MediaCore
          /\ owners \in [Voices -> 0..MaxGenerations]
      BY NoticesTypes
    <3>2. \/ owners' = owners
          \/ \E a \in Live : owners' = [owners EXCEPT ![nextVoice] = media[a].gen]
      BY <1>7 DEF MediaCall, AddRef, Release, RegisterNotify, SetMediaData, SetRepeat, Play,
                  Stop, Pause, Resume, GetState, histVars
    <3>3. v # nextVoice
      BY <1>2, <3>1
    <3> QED
      BY <3>1, <3>2, <3>3
  <2> QED
    BY <1>1, <1>4, <1>5, <1>7, <2>1, CallKeeps
<1>8. CASE Tick
  BY <1>1, <1>4, <1>8, TickKeeps
<1>9. CASE Mix \/ UNCHANGED mediaVars
  <2>1. UNCHANGED <<media, owners, queue, batch>>
    BY <1>9 DEF Mix, mediaVars, objectVars, tickVars, histVars
  <2>2. Queued(v) => Queued(v)'
    BY <2>1 DEF Queued
  <2> QED
    BY <1>1, <1>2, <1>4, <2>1, <2>2, WantedStays DEF Live
<1> QED
  BY <1>6, <1>7, <1>8, <1>9 DEF MediaNext

(* Play, Stop, the end of a voice and the two looks of Tick never drop the
   notice of a sound whose object is still there and still asks for it: only
   GetState, which takes note of the end itself, does. *)
THEOREM NoticesKept == MediaSpec => NoticeKept
<1>1. NoticesInv => FatesAre
  BY FatesKnown
<1>2. NoticesInv /\ FatesAre /\ FatesAre' /\ [MediaNext]_mediaVars
      => [(\A v \in Voices : ~Loses(v)) \/ (\E a \in Live : GetState(a))]_mediaVars
  BY NothingLost
<1> QED
  BY <1>1, <1>2, NoticesInvariant, PTL DEF MediaSpec, NoticeKept
=============================================================================
