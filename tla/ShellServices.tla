--------------------------- MODULE ShellServices ---------------------------
(***************************************************************************)
(* IShell beside its timers (src/core/brew/ishell.cpp): the objects of the *)
(* classes, the events the title sends to its own applet, the resources of *)
(* its files, and the types of its data.                                   *)
(*                                                                         *)
(* An event is delivered by a call into the applet from inside the trap,   *)
(* so a handler that sends events itself meets delivering_event_ set, and  *)
(* is answered by the shell alone.  A handler may also end by a throw of   *)
(* the core; nothing clears the flag then.                                 *)
(***************************************************************************)
EXTENDS Integers, Sequences, FiniteSets

CONSTANTS
  Factories, Instances, Extensions,   \* the classes each of the three offers
  Classes,
  Resources,                          \* the numbers of the resources
  MaxSize,                            \* the longest resource
  MaxDepth, MaxCalls

VARIABLES
  applet,          \* known: its pointer is resolved; posted: ppObj holds it
  delivering,      \* delivering_event_
  sends,           \* the SendEvent calls in progress: delivered or refused
  threw,           \* a handler ended by a throw while it was delivered to
  refused,         \* the last event to the applet was answered by the shell
  files,           \* the resources each candidate file holds, by number
  cache,           \* resource_cache_: the pointer given for each resource
  heap,            \* what each pointer given out holds
  answer,          \* the last resource call: what was asked and answered
  mimes,           \* interned_mimes_ and next_mime_addr_
  calls

shellVars == <<applet, delivering, sends, threw, refused, files, cache, heap,
               answer, mimes, calls>>

None == 0 - 1
Nothing == [call |-> "none"]

(* GetBrewResourceCandidates: the name given, then the file of no language, *)
(* then the plain one, then the languages in order.                        *)
Candidates == <<"given", "li", "plain", "pt", "es">>

ShellInit ==
  /\ applet = [known |-> FALSE, posted |-> FALSE]
  /\ delivering = FALSE
  /\ sends = <<>>
  /\ threw = FALSE
  /\ refused = FALSE
  /\ files \in [{"li", "pt"} -> [Resources -> {None} \cup 0 .. MaxSize]]
  /\ cache = [r \in Resources |-> None]
  /\ heap = <<>>
  /\ answer = Nothing
  /\ mimes = [address |-> <<>>, next |-> 0]
  /\ calls = 0

Calling == calls < MaxCalls /\ calls' = calls + 1
KeepEvents == UNCHANGED <<applet, delivering, sends, threw, refused>>
KeepResources == UNCHANGED <<files, cache, heap>>

(* CreateInstance: a factory first, then an instance, then the extensions. *)
Provider(class) ==
  IF class \in Factories THEN "factory"
  ELSE IF class \in Instances THEN "instance"
  ELSE IF class \in Extensions THEN "extension" ELSE "none"

CreateInstance(class) ==
  /\ Calling
  /\ answer' = [call |-> "create", class |-> class, by |-> Provider(class)]
  /\ KeepEvents /\ KeepResources
  /\ UNCHANGED mimes

\* the title's constructor stores its applet where ppObj points
PostApplet ==
  /\ ~applet.posted
  /\ applet' = [applet EXCEPT !.posted = TRUE]
  /\ UNCHANGED <<delivering, sends, threw, refused, files, cache, heap, answer, mimes, calls>>

(* SendEvent to the applet's own class.                                    *)
CanDeliver == ~delivering /\ (applet.known \/ applet.posted)

SendEvent ==
  /\ Calling
  /\ Len(sends) < MaxDepth
  /\ IF CanDeliver
     THEN /\ delivering' = TRUE
          /\ sends' = Append(sends, "delivered")
          /\ refused' = FALSE
     ELSE /\ refused' = TRUE
          /\ UNCHANGED <<delivering, sends>>
  /\ applet' = [applet EXCEPT !.known = @ \/ (~delivering /\ applet.posted)]
  /\ answer' = Nothing
  /\ UNCHANGED <<threw, files, cache, heap, mimes>>

DeliveringAfter_Kept == delivering
DeliveringAfter == FALSE

\* the handler returns to the trap
HandlerReturns ==
  /\ sends # <<>>
  /\ sends' = SubSeq(sends, 1, Len(sends) - 1)
  /\ delivering' = DeliveringAfter
  /\ UNCHANGED <<applet, threw, refused, files, cache, heap, answer, mimes, calls>>

\* the core throws inside the handler: every call in progress unwinds
HandlerThrows ==
  /\ sends # <<>>
  /\ sends' = <<>>
  /\ threw' = TRUE
  /\ UNCHANGED <<applet, delivering, refused, files, cache, heap, answer, mimes, calls>>

(* The record of a resource: from the first candidate that holds it.       *)
Holds(name, r) == name \in DOMAIN files /\ files[name][r] # None
Holders(r) == {n \in DOMAIN Candidates : Holds(Candidates[n], r)}
FirstHolder(r) == Candidates[CHOOSE n \in Holders(r) : \A m \in Holders(r) : n <= m]
Data(r) == [file |-> FirstHolder(r), size |-> files[FirstHolder(r)][r]]

(* LoadResData: an empty record counts as missing; a pointer is kept and   *)
(* given again.  The allocation of the title's heap may fail.              *)
LoadResData(r, room) ==
  /\ Calling
  /\ IF Holders(r) = {} \/ Data(r).size = 0
     THEN /\ answer' = [call |-> "data", resource |-> r, pointer |-> None]
          /\ UNCHANGED <<cache, heap>>
     ELSE IF cache[r] # None
     THEN /\ answer' = [call |-> "data", resource |-> r, pointer |-> cache[r]]
          /\ UNCHANGED <<cache, heap>>
     ELSE IF ~room
     THEN /\ answer' = [call |-> "data", resource |-> r, pointer |-> None]
          /\ UNCHANGED <<cache, heap>>
     ELSE /\ heap' = Append(heap, Data(r))
          /\ cache' = [cache EXCEPT ![r] = Len(heap) + 1]
          /\ answer' = [call |-> "data", resource |-> r, pointer |-> Len(heap) + 1]
  /\ KeepEvents
  /\ UNCHANGED <<files, mimes>>

(* LoadResDataEx with the caller's buffer ("given"), none ("null"), or the *)
(* value that only asks for the size ("ask").                              *)
Fits_Any(capacity, size) == TRUE
Fits(capacity, size) == capacity >= size

LoadResDataEx(r, buffer, capacity, room) ==
  /\ Calling
  /\ LET found == Holders(r) # {}
         size  == IF found THEN Data(r).size ELSE None
         copied == /\ found
                   /\ \/ buffer = "given" /\ Fits(capacity, size)
                      \/ buffer = "null" /\ room
     IN  /\ answer' = [call |-> "ex", resource |-> r, buffer |-> buffer,
                       capacity |-> capacity, room |-> room,
                       size |-> size, copied |-> IF copied THEN size ELSE 0,
                       good |-> found /\ (copied \/ buffer = "ask")]
         /\ heap' = IF copied /\ buffer = "null" THEN Append(heap, Data(r)) ELSE heap
  /\ KeepEvents
  /\ UNCHANGED <<files, cache, mimes>>

(* GetDeviceInfoEx: the serial numbers, cut to the caller's room.          *)
DeviceLength == [imei |-> 16, mobile |-> 16, chip |-> 9]
GetDeviceInfoEx(item, capacity) ==
  /\ Calling
  /\ answer' = [call |-> "device", item |-> item, capacity |-> capacity,
                copied |-> IF capacity < DeviceLength[item] THEN capacity
                           ELSE DeviceLength[item]]
  /\ KeepEvents /\ KeepResources
  /\ UNCHANGED mimes

(* DetectType writes the name of a type once, each name after the last.    *)
MimeLength == [png |-> 9, jpeg |-> 10, qcelp |-> 15]
MimeStep_Down(length) == (length \div 4) * 4
MimeStep(length) == ((length + 4) \div 4) * 4

DetectType(mime) ==
  /\ Calling
  /\ mimes' = IF \E k \in DOMAIN mimes.address : mimes.address[k][1] = mime THEN mimes
              ELSE [address |-> Append(mimes.address, <<mime, mimes.next>>),
                    next |-> mimes.next + MimeStep(MimeLength[mime])]
  /\ answer' = Nothing
  /\ KeepEvents /\ KeepResources

ShellNext ==
  \/ \E class \in Classes : CreateInstance(class)
  \/ PostApplet \/ SendEvent \/ HandlerReturns \/ HandlerThrows
  \/ \E r \in Resources, room \in BOOLEAN :
       \/ LoadResData(r, room)
       \/ \E buffer \in {"given", "null", "ask"}, c \in 0 .. MaxSize :
            LoadResDataEx(r, buffer, c, room)
  \/ \E item \in DOMAIN DeviceLength, c \in {0, 9, 12} : GetDeviceInfoEx(item, c)
  \/ \E mime \in DOMAIN MimeLength : DetectType(mime)
ShellSpec == ShellInit /\ [][ShellNext]_shellVars

ShellTypeOK ==
  /\ applet \in [known : BOOLEAN, posted : BOOLEAN]
  /\ {delivering, threw, refused} \subseteq BOOLEAN
  /\ Len(sends) <= MaxDepth
  /\ cache \in [Resources -> {None} \cup DOMAIN heap]

(* An event the applet could answer is refused only while an earlier one   *)
(* is being delivered: the flag is set exactly while a handler runs.  The  *)
(* only exception is a handler that ended by a throw (ishell.cpp:258).     *)
FlagMeansDelivery == ~threw => (delivering <=> sends # <<>>)

(* The contract of AEEIShell.h the comment before LoadResDataEx quotes: a  *)
(* buffer is filled whole or not at all and never past its room, the size  *)
(* question copies nothing, and a pointer kept for a resource holds that   *)
(* resource from the first file of the order.                              *)
ResourcesHonest ==
  /\ answer.call = "ex" /\ answer.buffer = "given" =>
       answer.copied <= answer.capacity /\ (answer.copied > 0 => answer.copied = answer.size)
  /\ answer.call = "ex" /\ answer.buffer = "ask" => answer.copied = 0
  /\ answer.call = "device" => answer.copied <= answer.capacity
  /\ answer.call = "data" =>
       answer.pointer = cache[answer.resource] \/ answer.pointer = None
  /\ \A r \in Resources : cache[r] # None => heap[cache[r]] = Data(r)

(* The names of the types stay apart, their final zero included.           *)
NamesApart ==
  \A i, j \in DOMAIN mimes.address :
    i < j => mimes.address[i][2] + MimeLength[mimes.address[i][1]] < mimes.address[j][2]

ShellBounds == MaxSize \in Nat

(* What the pointers given out can hold.                                   *)
Records == {Data(r) : r \in {q \in Resources : Holders(q) # {}}}

(* One delivery at a time, and every pointer kept is one given out.        *)
ShellInv ==
  /\ sends \in Seq({"delivered"}) /\ delivering \in BOOLEAN
  /\ ~threw => Len(sends) <= 1
  /\ FlagMeansDelivery
  /\ heap \in Seq(Records)
  /\ cache \in [Resources -> {None} \cup DOMAIN heap]
  /\ ResourcesHonest

(* The names follow one another up to the next free word.                  *)
MimesInv ==
  /\ mimes \in [address : Seq((DOMAIN MimeLength) \X Nat), next : Nat]
  /\ \A k \in DOMAIN mimes.address :
       mimes.address[k][2] + MimeLength[mimes.address[k][1]] < mimes.next
  /\ NamesApart
=============================================================================
