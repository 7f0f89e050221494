----------------------------- MODULE MediaSaves ----------------------------
(***************************************************************************)
(* Save states and IMedia: tools/game_probe.cpp (F1, F2, --load-state)     *)
(* with Serialize and Deserialize of core/brew/media_hle.cpp and           *)
(* core/audio/mixer.cpp.  F1 writes the guest's memory, the mixer and the  *)
(* objects; reference counts, generations, queued notifications and the    *)
(* free list are not written.  F2 reads back the guest's memory alone;     *)
(* --load-state reads everything, once, after the game has booted.         *)
(***************************************************************************)
EXTENDS MediaHle

VARIABLES
    file,       \* the save state on disk
    booting     \* the game boots: its loop has not begun

savesVars == <<mediaVars, file, booting>>

NoFile == [media |-> <<>>, nextObject |-> 0, nextVoice |-> 0, voices |-> <<>>, held |-> <<>>]

SavesInit == MediaInit /\ file = NoFile /\ booting = TRUE

(* Guest code calls IMedia while the game boots and in its loop. *)
GuestCalls == (CreateMediaObject \/ MediaCall) /\ UNCHANGED <<file, booting>>

LoopBegins == booting /\ booting' = FALSE /\ UNCHANGED <<mediaVars, file>>

LoopRuns == ~booting /\ (Tick \/ Mix) /\ UNCHANGED <<file, booting>>

(* F1. *)
SaveState ==
    /\ ~booting /\ phase = "out"
    /\ file' = [media |-> media, nextObject |-> nextObject, nextVoice |-> nextVoice,
                voices |-> voices, held |-> held]
    /\ UNCHANGED <<mediaVars, booting>>

(* F2: the guest's memory is the one of the save state, the objects and the
   voices stay those of the session. *)
LoadMemory ==
    /\ ~booting /\ phase = "out" /\ file # NoFile
    /\ held' = file.held
    /\ UNCHANGED <<objectVars, queue, mixerVars, tickVars, histVars, file, booting>>

(* The process ends and a new one boots the game; the file stays. *)
Restart ==
    /\ media' = <<>> /\ nextObject' = 1 /\ free' = <<>> /\ nextGen' = 1
    /\ queue' = <<>>
    /\ nextVoice' = 1 /\ voices' = <<>>
    /\ phase' = "out" /\ batch' = <<>> /\ inCallback' = FALSE
    /\ held' = [a \in Addresses |-> 0]
    /\ told' = [v \in Voices |-> 0] /\ owners' = [v \in Voices |-> 0]
    /\ booting' = TRUE
    /\ UNCHANGED file

Restored_Unreferenced(m, g) == [m EXCEPT !.gen = g, !.refs = 0]

Restored_SameGeneration(m, g) == [m EXCEPT !.refs = 1]

(* MediaHle::Deserialize, one object: what is not in the file is as in a new
   object. *)
Restored(m, g) == [m EXCEPT !.gen = g, !.refs = 1]

RestoreMixer_LeftOut == UNCHANGED mixerVars

RestoreMixer == nextVoice' = file.nextVoice /\ voices' = file.voices

(* --load-state.  Generations are dealt out in the order of the file; what the
   boot queued and freed stays. *)
LoadState ==
    /\ booting /\ file # NoFile
    /\ nextGen + Cardinality(DOMAIN file.media) <= MaxGenerations + 1
    /\ \E gen \in [DOMAIN file.media -> nextGen..MaxGenerations] :
          /\ \A a, b \in DOMAIN gen : gen[a] = gen[b] => a = b
          /\ \A a \in DOMAIN gen : gen[a] < nextGen + Cardinality(DOMAIN gen)
          /\ media' = [a \in DOMAIN file.media |-> Restored(file.media[a], gen[a])]
    /\ nextGen' = nextGen + Cardinality(DOMAIN file.media)
    /\ nextObject' = file.nextObject
    /\ RestoreMixer
    /\ held' = file.held
    /\ booting' = FALSE
    /\ UNCHANGED <<free, queue, tickVars, histVars, file>>

SavesNext ==
    GuestCalls \/ LoopBegins \/ LoopRuns \/ SaveState \/ LoadMemory \/ Restart \/ LoadState

SavesSpec == SavesInit /\ [][SavesNext]_savesVars

-----------------------------------------------------------------------------
(* Properties. *)

(* The state and the file are of their types. *)
SavesTypeOK ==
    /\ MediaTypeOK
    /\ booting \in BOOLEAN
    /\ file # NoFile => /\ file.media \in [DOMAIN file.media -> Media]
                        /\ file.nextVoice \in 1..MaxVoices + 1
                        /\ file.held \in [Addresses -> 0..MaxRefs]

(* A voice id means one sound: no two objects have the same voice, and the
   mixer will not give out again the voice of an object or one that sounds.
   Deserialize restores raw voice ids, which mean anything only next to a
   mixer restored from the same file (comment on MediaHle::Serialize). *)
VoicesMatch ==
    /\ \A a, b \in Live :
          media[a].hasVoice /\ media[b].hasVoice /\ media[a].voice = media[b].voice => a = b
    /\ \A a \in Live : media[a].hasVoice => media[a].voice < nextVoice
    /\ \A v \in DOMAIN voices : v < nextVoice

(* A notification the boot queued is not taken for one of an object of the
   file, though that may sit at the same address with the same registration:
   a generation is never used twice in a process. *)
BootNoticesStale ==
    [][booting /\ ~booting' /\ media' # media => \A n \in Elems(queue) : ~Current(n)']_savesVars

(* A handle the guest holds is a live object, also after a state was loaded
   (comment on MediaHle::Serialize; comment on F1 in game_probe.cpp). *)
HandlesSurvive == \A a \in Addresses : held[a] > 0 => a \in Live
=============================================================================
