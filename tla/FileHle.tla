------------------------------- MODULE FileHle -------------------------------
(***************************************************************************)
(* IFileMgr and IFile (src/core/brew/file_hle.cpp) over the files of the   *)
(* title (src/core/brew/virtual_filesystem.cpp), with the userdata file    *)
(* the main loop writes and the next run of the player loads.              *)
(*                                                                         *)
(* A name is the sequence of its segments between slashes: a leading or a  *)
(* final slash is an empty segment.  A title's file is only read; opening  *)
(* it for writing makes the copy that stands for it from then on.          *)
(***************************************************************************)
EXTENDS Integers, FiniteSets, SequencesExt, Vectors_proofs

CONSTANTS
  Shipped,           \* the title's files: a sequence of <<name, bytes>>
  Loose,             \* the files beside the title that a miss may find
  Names,             \* the names the title uses
  Written,           \* what it writes
  MaxSize,           \* the largest file, and the most Deserialize accepts
  MaxHandles, MaxOps

VARIABLES
  vfs,               \* names_ and files_: a sequence of <<name, bytes>>
  writable,          \* writable_files_: bytes by normal name
  dirs,              \* writable_dirs_
  handles,           \* the objects given out: the file of each and its position
  last,              \* last_opened_handle_
  dirty,
  userdata,          \* the file on the host, and whether it is being written
  promised,          \* the bytes of each file at the last Write to it
  ops

fileVars == <<vfs, writable, dirs, handles, last, dirty, userdata, promised, ops>>

None == 0 - 1
NoFile == [found |-> FALSE]

FileInit ==
  /\ vfs = Shipped
  /\ writable = <<>>
  /\ dirs = {}
  /\ handles = <<>>
  /\ last = 0
  /\ dirty = FALSE
  /\ userdata = [found |-> FALSE, torn |-> FALSE, files |-> <<>>, dirs |-> {}]
  /\ promised = <<>>
  /\ ops = 0

LowerOf == [A |-> "a", D |-> "d"]
Lower(segment) == IF segment \in DOMAIN LowerOf THEN LowerOf[segment] ELSE segment
Folded(name) == [k \in DOMAIN name |-> Lower(name[k])]

(* NormalizeWritablePath: the mutable names ignore case and resolve dots.  *)
NormalizeWritablePath(name) ==
  LET step(done, segment) ==
        IF segment \in {"", "."} THEN done
        ELSE IF segment = ".." THEN SubSeq(done, 1, Len(done) - 1)
        ELSE Append(done, Lower(segment))
  IN  FoldLeft(step, <<>>, name)

(* VirtualFilesystem::Find: the name as it is, then canonical, then by its *)
(* last segment, then by that ignoring case; the registered files first,   *)
(* then the host's, which are registered under the name that found them.   *)
Canonical(name) ==
  SelectSeq(SubSeq(name, 1, Len(name) - 1), LAMBDA s : s \notin {"", ".", "fs:"})
    \o <<name[Len(name)]>>
Tail1(name) == name[Len(name)]

Matches(name) ==
  LET c == Canonical(name)
      same   == {k \in DOMAIN vfs : vfs[k][1] = name}
      canon  == {k \in DOMAIN vfs : vfs[k][1] = c}
      base   == {k \in DOMAIN vfs : Tail1(c) # "" /\ Tail1(vfs[k][1]) = Tail1(c)}
      folded == {k \in DOMAIN vfs : /\ Tail1(c) # ""
                                    /\ \/ Lower(Tail1(vfs[k][1])) = Lower(Tail1(c))
                                       \/ Folded(vfs[k][1]) = Folded(c)}
  IN  IF same # {} THEN same ELSE IF canon # {} THEN canon
      ELSE IF base # {} THEN base ELSE folded
Resolved(name) ==
  LET c == Canonical(name)
  IN  IF c # <<"">> /\ c \in DOMAIN Loose THEN <<<<c, Loose[c]>>>>
      ELSE IF Tail1(c) # "" /\ <<Tail1(c)>> \in DOMAIN Loose
      THEN <<<<<<Tail1(c)>>, Loose[<<Tail1(c)>>]>>>> ELSE <<>>
Find(name) ==
  LET hits == Matches(name)
      first == CHOOSE k \in hits : \A l \in hits : k <= l
  IN  IF hits # {} THEN [found |-> TRUE, name |-> vfs[first][1], bytes |-> vfs[first][2]]
      ELSE IF Resolved(name) # <<>>
      THEN [found |-> TRUE, name |-> Resolved(name)[1][1], bytes |-> Resolved(name)[1][2]]
      ELSE NoFile
\* what a look-up leaves registered
Registered(name) == IF Matches(name) = {} THEN vfs \o Resolved(name) ELSE vfs

Asking == ops < MaxOps /\ ops' = ops + 1

(* A directory is known by MkDir or as the beginning of some file's name.  *)
Under(entry, dir) == Len(entry) > Len(dir) /\ SubSeq(Folded(entry), 1, Len(dir)) = dir
DirExists(name) ==
  LET norm == NormalizeWritablePath(name)
      dir  == IF norm = <<>> THEN <<"">> ELSE norm
  IN  \/ norm \in dirs
      \/ \E k \in DOMAIN vfs : \/ Under(vfs[k][1], dir)
                               \/ Under(vfs[k][1], Folded(SubSeq(name, 1, Len(name) - 1)))
      \/ \E f \in DOMAIN writable : Under(f, dir)

Give(kind, file, bytes) ==
  IF Len(handles) < MaxHandles
  THEN /\ handles' = Append(handles, [open |-> TRUE, kind |-> kind, file |-> file,
                                      bytes |-> bytes, position |-> 0])
       /\ last' = Len(handles) + 1
  ELSE UNCHANGED <<handles, last>>
With(f, bytes) == [g \in DOMAIN writable \cup {f} |-> IF g = f THEN bytes ELSE writable[g]]

(* IFileMgr_OpenFile.  A file created or copied is not yet an unsaved      *)
(* write; the region of the objects may be full when the copy is made.     *)
OpenFile(name, write, create) ==
  /\ Asking
  /\ LET f == NormalizeWritablePath(name)
     IN  IF f \in DOMAIN writable
         THEN Give("writable", f, <<>>) /\ UNCHANGED <<vfs, writable>>
         ELSE /\ vfs' = Registered(name)
              /\ IF Find(name).found
                 THEN IF write
                      THEN writable' = With(f, Find(name).bytes) /\ Give("writable", f, <<>>)
                      ELSE Give("shipped", name, Find(name).bytes) /\ UNCHANGED writable
                 ELSE IF create
                 THEN writable' = With(f, <<>>) /\ Give("writable", f, <<>>)
                 ELSE IF Len(name) > 1 /\ Tail1(name) = "" /\ DirExists(name)
                 THEN Give("shipped", name, <<>>) /\ UNCHANGED writable
                 ELSE UNCHANGED <<handles, last, writable>>
  /\ UNCHANGED <<dirs, dirty, userdata, promised>>

\* IFileMgr_Test
Test(name) ==
  /\ Asking
  /\ vfs' = Registered(name)
  /\ UNCHANGED <<writable, dirs, handles, last, dirty, userdata, promised>>

MkDir(name) ==
  /\ Asking
  /\ LET d == NormalizeWritablePath(name)
     IN  IF d = <<>> THEN UNCHANGED <<vfs, dirs, dirty>>
         ELSE /\ vfs' = Registered(d)
              /\ IF Find(d).found THEN UNCHANGED <<dirs, dirty>>
                 ELSE dirs' = dirs \cup {d} /\ dirty' = TRUE
  /\ UNCHANGED <<writable, handles, last, userdata, promised>>

Bytes(h) == IF handles[h].kind = "writable" THEN writable[handles[h].file]
            ELSE handles[h].bytes
IsOpen(h) == h \in DOMAIN handles /\ handles[h].open
Lesser(m, n) == IF m < n THEN m ELSE n

(* IFile_Read, and the same through the object that stands for the last    *)
(* file opened (BuildLastOpenedFileProxy).                                 *)
Read(h, want) ==
  /\ Asking
  /\ IsOpen(h)
  /\ handles' = [handles EXCEPT ![h].position =
                   @ + Lesser(want, Len(Bytes(h)) - handles[h].position)]
  /\ UNCHANGED <<vfs, writable, dirs, last, dirty, userdata, promised>>
ReadLast(want) == last # 0 /\ Read(last, want)

(* IFile_Write: over the bytes at the position, growing the file.          *)
Overlaid(bytes, position, new) ==
  [k \in 1 .. (IF position + Len(new) > Len(bytes) THEN position + Len(new) ELSE Len(bytes)) |->
     IF k > position /\ k <= position + Len(new) THEN new[k - position] ELSE bytes[k]]
DirtyAfter_Growth(h, new) == dirty \/ handles[h].position + Len(new) > Len(Bytes(h))
DirtyAfter(h, new) == TRUE

Write(h, new) ==
  /\ Asking
  /\ IsOpen(h)
  /\ IF handles[h].kind = "writable" /\ handles[h].position + Len(new) <= MaxSize
     THEN LET f == handles[h].file
              after == Overlaid(Bytes(h), handles[h].position, new)
          IN  /\ writable' = With(f, after)
              /\ handles' = [handles EXCEPT ![h].position = @ + Len(new)]
              /\ dirty' = DirtyAfter(h, new)
              /\ promised' = [g \in DOMAIN promised \cup {f} |->
                                IF g = f THEN after ELSE promised[g]]
     ELSE UNCHANGED <<writable, handles, dirty, promised>>
  /\ UNCHANGED <<vfs, dirs, last, userdata>>

(* IFile_Seek: past the end it extends a file that can be written, with    *)
(* zeros, and is no unsaved write.                                         *)
Seek(h, whence, distance) ==
  /\ Asking
  /\ IsOpen(h)
  /\ LET size == Len(Bytes(h))
         to   == distance + CASE whence = "start" -> 0 [] whence = "end" -> size
                              [] OTHER -> handles[h].position
         can  == to >= 0 /\ (handles[h].kind = "writable" \/ to <= size)
     IN  /\ to <= MaxSize      \* a bound of the model: the code has none
         /\ handles' = IF can THEN [handles EXCEPT ![h].position = to] ELSE handles
         /\ writable' = IF can /\ to > size
                        THEN With(handles[h].file, Bytes(h) \o [k \in 1 .. to - size |-> 0])
                        ELSE writable
  /\ UNCHANGED <<vfs, dirs, last, dirty, userdata, promised>>

\* IFile_Release
Close(h) ==
  /\ IsOpen(h)
  /\ handles' = [handles EXCEPT ![h].open = FALSE]
  /\ UNCHANGED <<vfs, writable, dirs, last, dirty, userdata, promised, ops>>

(* The end of an iteration with unsaved writes (game_probe.cpp:6808): the  *)
(* file is emptied, then written.                                          *)
BeginFlush ==
  /\ dirty /\ ~userdata.torn
  /\ userdata' = [userdata EXCEPT !.found = TRUE, !.torn = TRUE,
                                  !.files = writable, !.dirs = dirs]
  /\ UNCHANGED <<vfs, writable, dirs, handles, last, dirty, promised, ops>>
Serialize ==
  /\ userdata.torn
  /\ userdata' = [userdata EXCEPT !.torn = FALSE]
  /\ dirty' = FALSE
  /\ UNCHANGED <<vfs, writable, dirs, handles, last, promised, ops>>

(* Deserialize: more bytes than the limit are refused.  Of a file cut      *)
(* short, nothing is taken unless it was cut after its list of files.      *)
Total(files) == FoldSet(LAMBDA f, n : n + Len(files[f]), 0, DOMAIN files)
Loads == userdata.found /\ Total(userdata.files) <= MaxSize

\* the player is killed at any moment and started again
Restart ==
  /\ Asking
  /\ vfs' = Shipped
  /\ handles' = <<>>
  /\ last' = 0
  /\ dirty' = FALSE
  /\ \/ /\ Loads /\ ~userdata.torn
        /\ writable' = userdata.files /\ dirs' = userdata.dirs
        /\ promised' = IF dirty THEN userdata.files ELSE promised
     \/ /\ Loads /\ userdata.torn
        /\ writable' = userdata.files /\ dirs' = {} /\ promised' = userdata.files
     \/ /\ ~Loads \/ userdata.torn
        /\ writable' = <<>> /\ dirs' = {} /\ promised' = <<>>
  /\ userdata' = [userdata EXCEPT !.torn = FALSE, !.found = @ /\ Loads /\ writable' # <<>>,
                                  !.files = writable', !.dirs = dirs']

Guest ==
  \/ \E name \in Names :
       \/ \E write, create \in BOOLEAN : OpenFile(name, write, create)
       \/ Test(name) \/ MkDir(name)
  \/ \E h \in DOMAIN handles :
       \/ \E want \in {1, MaxSize} : Read(h, want)
       \/ \E new \in Written : Write(h, new)
       \/ \E whence \in {"start", "end", "current"}, d \in {0 - 1, 0, 1} : Seek(h, whence, d)
       \/ Close(h)
  \/ ReadLast(1)
FileNext == (~userdata.torn /\ Guest) \/ BeginFlush \/ Serialize \/ Restart
FileSpec == FileInit /\ [][FileNext]_fileVars

FileTypeOK ==
  /\ {dirty, userdata.torn, userdata.found} \subseteq BOOLEAN
  /\ \A f \in DOMAIN writable : f = NormalizeWritablePath(f) /\ Len(writable[f]) <= MaxSize
  /\ last \in 0 .. Len(handles)
  /\ DOMAIN promised \subseteq DOMAIN writable

(* What a title has written is on the host when the iteration that wrote   *)
(* it ends (game_probe.cpp:6803 says each write is committed as it         *)
(* happens), and so a kill between two iterations loses nothing: the file  *)
(* starts with the bytes the last Write left.                              *)
WritesSurvive ==
  ~dirty /\ ~userdata.torn =>
    \A f \in DOMAIN promised :
      f \in DOMAIN userdata.files /\ IsPrefix(promised[f], userdata.files[f])

(* No handle stands past the end of its file, whatever other handles did   *)
(* to it: the subtraction of ReadFromHandle never wraps.                   *)
PositionsInside ==
  \A h \in DOMAIN handles :
    handles[h].open => handles[h].position \in 0 .. Len(Bytes(h))

-----------------------------------------------------------------------------
(* Both, for files, names and writes of any number and size.               *)

(* What the module's constants are: files of bytes.                        *)
FileNames == {Shipped[k][1] : k \in DOMAIN Shipped} \cup DOMAIN Loose
Entry == FileNames \X Seq(Nat)
FileBounds ==
  /\ Shipped \in Seq(Entry) /\ Loose \in [DOMAIN Loose -> Seq(Nat)]
  /\ Written \subseteq Seq(Nat) /\ MaxSize \in Nat

ContentsTyped ==
  /\ vfs \in Seq(Entry)
  /\ writable \in [DOMAIN writable -> Seq(Nat)]
  /\ promised \in [DOMAIN promised -> Seq(Nat)]
  /\ userdata = [found |-> userdata.found, torn |-> userdata.torn,
                 files |-> userdata.files, dirs |-> userdata.dirs]
  /\ userdata.files \in [DOMAIN userdata.files -> Seq(Nat)]
  /\ {dirty, userdata.torn, userdata.found} \subseteq BOOLEAN

(* A handle of a written file finds it, however many others write it, and  *)
(* stands inside what it reads.                                            *)
Handle == [open : BOOLEAN, kind : {"writable", "shipped"},
           file : Names \cup {NormalizeWritablePath(n) : n \in Names},
           bytes : Seq(Nat), position : Nat]
Sound(r, files) ==
  /\ r.kind = "writable" => r.file \in DOMAIN files
  /\ r.open => r.position <= Len(IF r.kind = "writable" THEN files[r.file] ELSE r.bytes)
HandlesSound ==
  /\ handles \in Seq(Handle) /\ last \in 0 .. Len(handles)
  /\ \A h \in DOMAIN handles : Sound(handles[h], writable)

(* What was written last is in memory, and on the host's disk whenever     *)
(* there is nothing to flush or it is being flushed.                       *)
PromisesIn(files) ==
  \A f \in DOMAIN promised : f \in DOMAIN files /\ IsPrefix(promised[f], files[f])

FileInv ==
  /\ ContentsTyped
  /\ HandlesSound
  /\ PromisesIn(writable)
  /\ userdata.torn \/ ~dirty => PromisesIn(userdata.files)

\* the files of a map are there in another, no shorter
Longer(old, new) ==
  \A f \in DOMAIN old : f \in DOMAIN new /\ Len(old[f]) <= Len(new[f])
MapsToBytes(files) == files \in [DOMAIN files -> Seq(Nat)]

(* A file is a prefix of itself, and of what is appended to it. *)
LEMMA PrefixOfItself ==
    ASSUME NEW s \in Seq(Nat)
    PROVE  IsPrefix(s, s)
BY DEF IsPrefix

LEMMA PrefixOfLonger ==
    ASSUME NEW s \in Seq(Nat), NEW t \in Seq(Nat), NEW u \in Seq(Nat), IsPrefix(s, t)
    PROVE  IsPrefix(s, t \o u)
<1>1. Len(s) \in Nat /\ Len(t) \in Nat /\ Len(u) \in Nat /\ Len(s) <= Len(t)
  BY DEF IsPrefix
<1>2. t \o u \in Seq(Nat) /\ Len(t \o u) = Len(t) + Len(u)
  OBVIOUS
<1>3. \A k \in 1..Len(t) : (t \o u)[k] = t[k]
  OBVIOUS
<1>4. SubSeq(t \o u, 1, Len(s)) = SubSeq(t, 1, Len(s))
  BY <1>1, <1>2, <1>3
<1>5. Len(s) <= Len(t \o u)
  BY <1>1, <1>2
<1> QED
  BY <1>4, <1>5 DEF IsPrefix

(* A handle stays sound when no file it may stand for shrinks. *)
LEMMA SoundOfLonger ==
    ASSUME NEW r \in Handle, NEW old, NEW new, MapsToBytes(old), MapsToBytes(new),
           Longer(old, new), Sound(r, old)
    PROVE  Sound(r, new)
<1>1. CASE r.kind = "writable"
  <2>1. r.file \in DOMAIN old
    BY <1>1 DEF Sound
  <2>2. r.file \in DOMAIN new /\ Len(old[r.file]) <= Len(new[r.file])
    BY <2>1 DEF Longer
  <2>3. Len(old[r.file]) \in Nat /\ Len(new[r.file]) \in Nat
    BY <2>1, <2>2 DEF MapsToBytes
  <2>4. r.position \in Nat
    BY DEF Handle
  <2>5. r.open => r.position <= Len(old[r.file])
    BY <1>1 DEF Sound
  <2>6. r.open => r.position <= Len(new[r.file])
    BY <2>2, <2>3, <2>4, <2>5
  <2> QED
    BY <1>1, <2>2, <2>6 DEF Sound
<1>2. CASE r.kind # "writable"
  BY <1>2 DEF Sound
<1> QED
  BY <1>1, <1>2

(* Putting a file in the map. *)
LEMMA WithFile ==
    ASSUME MapsToBytes(writable), NEW f, NEW bytes \in Seq(Nat)
    PROVE  MapsToBytes(With(f, bytes))
<1> DEFINE w == With(f, bytes)
<1>1. w = [g \in DOMAIN writable \cup {f} |-> IF g = f THEN bytes ELSE writable[g]]
  BY DEF With
<1> HIDE DEF w
<1>2. DOMAIN w = DOMAIN writable \cup {f}
  BY <1>1
<1>3. \A g \in DOMAIN writable \cup {f} :
        (IF g = f THEN bytes ELSE writable[g]) \in Seq(Nat)
  BY DEF MapsToBytes
<1>4. w \in [DOMAIN writable \cup {f} -> Seq(Nat)]
  BY <1>1, <1>3
<1>5. w \in [DOMAIN w -> Seq(Nat)]
  BY <1>2, <1>4
<1>6. MapsToBytes(w)
  BY <1>5 DEF MapsToBytes
<1> QED
  BY <1>6 DEF w

LEMMA WithLonger ==
    ASSUME MapsToBytes(writable), NEW f, NEW bytes \in Seq(Nat), NEW w, w = With(f, bytes),
           f \in DOMAIN writable => Len(writable[f]) <= Len(bytes)
    PROVE  Longer(writable, w)
<1>1. /\ DOMAIN w = DOMAIN writable \cup {f} /\ w[f] = bytes
      /\ \A g \in DOMAIN writable : g # f => w[g] = writable[g]
  BY DEF With
<1>2. \A g \in DOMAIN writable : Len(writable[g]) \in Nat
  BY DEF MapsToBytes
<1> SUFFICES ASSUME NEW g \in DOMAIN writable
             PROVE  g \in DOMAIN w /\ Len(writable[g]) <= Len(w[g])
  BY DEF Longer
<1>3. CASE g = f
  BY <1>1, <1>3
<1>4. CASE g # f
  BY <1>1, <1>2, <1>4
<1> QED
  BY <1>3, <1>4

(* Whatever a look-up finds is a file: of the several names that match, there *)
(* is a first one.                                                          *)
LEMMA FindTyped ==
    ASSUME FileBounds, vfs \in Seq(Entry), NEW name
    PROVE  /\ Registered(name) \in Seq(Entry)
           /\ Find(name).found => Find(name).bytes \in Seq(Nat)
<1>1. Resolved(name) \in Seq(Entry)
  <2>1. \A c \in DOMAIN Loose : <<c, Loose[c]>> \in Entry
    BY DEF FileBounds, Entry, FileNames
  <2>2. \A e \in Entry : <<e>> \in Seq(Entry)
    OBVIOUS
  <2>3. <<>> \in Seq(Entry)
    OBVIOUS
  <2> DEFINE c == Canonical(name)
  <2>4. CASE c # <<"">> /\ c \in DOMAIN Loose
    <3>1. Resolved(name) = <<<<c, Loose[c]>>>>
      BY <2>4 DEF Resolved
    <3> QED
      BY <2>1, <2>2, <2>4, <3>1
  <2>5. CASE /\ ~(c # <<"">> /\ c \in DOMAIN Loose)
             /\ Tail1(c) # "" /\ <<Tail1(c)>> \in DOMAIN Loose
    <3>1. Resolved(name) = <<<<<<Tail1(c)>>, Loose[<<Tail1(c)>>]>>>>
      BY <2>5 DEF Resolved
    <3> QED
      BY <2>1, <2>2, <2>5, <3>1
  <2>6. CASE /\ ~(c # <<"">> /\ c \in DOMAIN Loose)
             /\ ~(Tail1(c) # "" /\ <<Tail1(c)>> \in DOMAIN Loose)
    <3>1. Resolved(name) = <<>>
      BY <2>6 DEF Resolved
    <3> QED
      BY <2>3, <3>1
  <2> QED
    BY <2>4, <2>5, <2>6
<1>2. Registered(name) \in Seq(Entry)
  BY <1>1 DEF Registered
<1>3. \A e \in Entry : e[2] \in Seq(Nat)
  BY DEF Entry
<1>4. CASE Matches(name) # {}
  <2> DEFINE hits == Matches(name)
             first == CHOOSE k \in hits : \A l \in hits : k <= l
  <2>1. hits \subseteq DOMAIN vfs
    BY DEF Matches
  <2>2. DOMAIN vfs \subseteq Nat
    OBVIOUS
  <2>3. \E k \in hits : \A l \in hits : k <= l
    BY <1>4, <2>1, <2>2, SmallestOf
  <2>4. first \in hits
    BY <2>3
  <2>5. vfs[first] \in Entry
    BY <2>1, <2>4
  <2>6. Find(name) = [found |-> TRUE, name |-> vfs[first][1], bytes |-> vfs[first][2]]
    BY <1>4 DEF Find
  <2>7. Find(name).bytes = vfs[first][2]
    BY <2>6
  <2> QED
    BY <1>2, <1>3, <2>5, <2>7
<1>5. CASE Matches(name) = {} /\ Resolved(name) # <<>>
  <2>1. Find(name) = [found |-> TRUE, name |-> Resolved(name)[1][1],
                      bytes |-> Resolved(name)[1][2]]
    BY <1>5 DEF Find
  <2>2. Resolved(name)[1] \in Entry
    BY <1>1, <1>5
  <2>3. Find(name).bytes = Resolved(name)[1][2]
    BY <2>1
  <2> QED
    BY <1>2, <1>3, <2>2, <2>3
<1>6. CASE Matches(name) = {} /\ Resolved(name) = <<>>
  <2>1. Find(name) = NoFile
    BY <1>6 DEF Find
  <2>2. ~Find(name).found
    BY <2>1 DEF NoFile
  <2> QED
    BY <1>2, <2>2
<1> QED
  BY <1>4, <1>5, <1>6

(* What keeps the handles sound: no file shrinks, and the handles are those *)
(* they were, or one more at the beginning of its file, or one has moved    *)
(* inside its file, or one is closed.                                       *)
LEMMA HandlesStay ==
    ASSUME HandlesSound, MapsToBytes(writable), MapsToBytes(writable'),
           Longer(writable, writable'), UNCHANGED <<handles, last>>
    PROVE  HandlesSound'
<1>1. handles' = handles /\ last' = last
  OBVIOUS
<1>2. handles \in Seq(Handle) /\ \A h \in DOMAIN handles : handles[h] \in Handle
  BY DEF HandlesSound
<1>3. \A h \in DOMAIN handles : Sound(handles[h], writable)
  BY DEF HandlesSound
<1>4. \A h \in DOMAIN handles : Sound(handles[h], writable')
  BY <1>2, <1>3, SoundOfLonger
<1> QED
  BY <1>1, <1>4 DEF HandlesSound

LEMMA GivenSound ==
    ASSUME HandlesSound, MapsToBytes(writable), MapsToBytes(writable'),
           Longer(writable, writable'),
           NEW kind \in {"writable", "shipped"},
           NEW file \in Names \cup {NormalizeWritablePath(n) : n \in Names},
           NEW bytes \in Seq(Nat), kind = "writable" => file \in DOMAIN writable',
           Give(kind, file, bytes)
    PROVE  HandlesSound'
<1>1. CASE Len(handles) < MaxHandles
  <2> DEFINE new == [open |-> TRUE, kind |-> kind, file |-> file, bytes |-> bytes,
                     position |-> 0]
  <2>1. handles' = Append(handles, new) /\ last' = Len(handles) + 1
    BY <1>1 DEF Give
  <2>2. new \in Handle
    BY DEF Handle
  <2>3. new.kind = kind /\ new.file = file /\ new.bytes = bytes /\ new.position = 0
    OBVIOUS
  <2>4. Sound(new, writable')
    <3>1. kind = "writable" => Len(writable'[file]) \in Nat
      BY DEF MapsToBytes
    <3>2. Len(bytes) \in Nat
      OBVIOUS
    <3>3. 0 <= Len(IF kind = "writable" THEN writable'[file] ELSE bytes)
      BY <3>1, <3>2
    <3> HIDE DEF new
    <3> QED
      BY <2>3, <3>3 DEF Sound
  <2> HIDE DEF new
  <2>5. handles \in Seq(Handle) /\ last \in 0 .. Len(handles)
    BY DEF HandlesSound
  <2>6. handles' \in Seq(Handle) /\ Len(handles') = Len(handles) + 1
    BY <2>1, <2>2, <2>5
  <2>7. last' \in 0 .. Len(handles')
    BY <2>1, <2>5, <2>6
  <2>8. ASSUME NEW h \in DOMAIN handles'
        PROVE  Sound(handles'[h], writable')
    <3>1. h \in 1 .. Len(handles) + 1
      BY <2>6, <2>8
    <3>2. CASE h \in DOMAIN handles
      <4>1. handles'[h] = handles[h] /\ handles[h] \in Handle
        BY <2>1, <2>5, <3>2
      <4>2. Sound(handles[h], writable)
        BY <3>2 DEF HandlesSound
      <4> QED
        BY <4>1, <4>2, SoundOfLonger
    <3>3. CASE h \notin DOMAIN handles
      <4>1. h = Len(handles) + 1
        BY <2>5, <3>1, <3>3
      <4>2. handles'[h] = new
        BY <2>1, <2>5, <4>1
      <4> QED
        BY <2>4, <4>2
    <3> QED
      BY <3>2, <3>3
  <2> QED
    BY <2>6, <2>7, <2>8 DEF HandlesSound
<1>2. CASE ~(Len(handles) < MaxHandles)
  <2>1. UNCHANGED <<handles, last>>
    BY <1>2 DEF Give
  <2> QED
    BY <2>1, HandlesStay
<1> QED
  BY <1>1, <1>2

LEMMA ChangedSound ==
    ASSUME HandlesSound, MapsToBytes(writable), MapsToBytes(writable'),
           Longer(writable, writable'),
           NEW h \in DOMAIN handles, NEW r \in Handle, Sound(r, writable'),
           handles' = [handles EXCEPT ![h] = r], last' = last
    PROVE  HandlesSound'
<1>1. handles \in Seq(Handle) /\ last \in 0 .. Len(handles)
  BY DEF HandlesSound
<1>2. handles' \in Seq(Handle) /\ Len(handles') = Len(handles)
  BY <1>1
<1>3. ASSUME NEW k \in DOMAIN handles'
      PROVE  Sound(handles'[k], writable')
  <2>1. k \in DOMAIN handles
    BY <1>1, <1>2, <1>3
  <2>2. CASE k = h
    BY <2>2, <2>1
  <2>3. CASE k # h
    <3>1. handles'[k] = handles[k] /\ handles[k] \in Handle
      BY <1>1, <2>1, <2>3
    <3>2. Sound(handles[k], writable)
      BY <2>1 DEF HandlesSound
    <3> QED
      BY <3>1, <3>2, SoundOfLonger
  <2> QED
    BY <2>2, <2>3
<1>4. last' \in 0 .. Len(handles')
  BY <1>1, <1>2
<1> QED
  BY <1>2, <1>3, <1>4 DEF HandlesSound

(* A handle that has moved inside its file. *)
LEMMA MovedSound ==
    ASSUME HandlesSound, MapsToBytes(writable), MapsToBytes(writable'),
           Longer(writable, writable'), NEW h \in DOMAIN handles, NEW p \in Nat,
           p <= Len(IF handles[h].kind = "writable" THEN writable'[handles[h].file]
                    ELSE handles[h].bytes),
           handles' = [handles EXCEPT ![h].position = p], last' = last
    PROVE  HandlesSound'
<1> DEFINE r == [handles[h] EXCEPT !.position = p]
<1>1. handles[h] \in Handle /\ handles \in Seq(Handle)
  BY DEF HandlesSound
<1>2. r \in Handle
  BY <1>1 DEF Handle
<1>3. /\ r.kind = handles[h].kind /\ r.file = handles[h].file
      /\ r.bytes = handles[h].bytes /\ r.position = p
  BY <1>1 DEF Handle
<1>4. handles' = [handles EXCEPT ![h] = r]
  OBVIOUS
<1> HIDE DEF r
<1>5. r.kind = "writable" => r.file \in DOMAIN writable'
  <2>1. Sound(handles[h], writable)
    BY DEF HandlesSound
  <2> QED
    BY <1>3, <2>1 DEF Sound, Longer
<1>6. Sound(r, writable')
  BY <1>3, <1>5 DEF Sound
<1> QED
  BY <1>2, <1>4, <1>6, ChangedSound

(* What the file of an open handle holds. *)
LEMMA BytesTyped ==
    ASSUME HandlesSound, MapsToBytes(writable), NEW h, IsOpen(h)
    PROVE  /\ h \in DOMAIN handles /\ handles[h] \in Handle
           /\ handles[h].kind = "writable" => handles[h].file \in DOMAIN writable
           /\ Bytes(h) \in Seq(Nat) /\ Len(Bytes(h)) \in Nat
           /\ handles[h].position \in Nat /\ handles[h].position <= Len(Bytes(h))
<1>1. h \in DOMAIN handles /\ handles[h].open
  BY DEF IsOpen
<1>2. handles[h] \in Handle /\ Sound(handles[h], writable)
  BY <1>1 DEF HandlesSound
<1>3. handles[h].position \in Nat /\ handles[h].bytes \in Seq(Nat)
  BY <1>2 DEF Handle
<1>4. handles[h].kind = "writable" => handles[h].file \in DOMAIN writable
  BY <1>2 DEF Sound
<1>5. Bytes(h) \in Seq(Nat)
  BY <1>3, <1>4 DEF Bytes, MapsToBytes
<1>6. handles[h].position <= Len(Bytes(h))
  BY <1>1, <1>2 DEF Sound, Bytes
<1> QED
  BY <1>1, <1>2, <1>3, <1>4, <1>5, <1>6

(* Files may be added, nothing else: what was promised is still there. *)
LEMMA FilesAdded ==
    ASSUME FileInv, vfs' \in Seq(Entry), MapsToBytes(writable'), HandlesSound',
           \A g \in DOMAIN writable : g \in DOMAIN writable' /\ writable'[g] = writable[g],
           UNCHANGED <<dirty, userdata, promised>>
    PROVE  FileInv'
<1>1. ContentsTyped'
  BY DEF FileInv, ContentsTyped, MapsToBytes
<1>2. PromisesIn(writable)'
  BY DEF FileInv, PromisesIn
<1>3. (userdata.torn \/ ~dirty => PromisesIn(userdata.files))'
  BY DEF FileInv, PromisesIn
<1> QED
  BY <1>1, <1>2, <1>3 DEF FileInv

LEMMA SameIsLonger ==
    ASSUME NEW old, NEW new, MapsToBytes(old),
           \A g \in DOMAIN old : g \in DOMAIN new /\ new[g] = old[g]
    PROVE  Longer(old, new)
<1>1. \A g \in DOMAIN old : Len(old[g]) \in Nat
  BY DEF MapsToBytes
<1> QED
  BY <1>1 DEF Longer

LEMMA OpenFileKeeps ==
    ASSUME FileBounds, FileInv, NEW name \in Names, NEW write, NEW create,
           OpenFile(name, write, create)
    PROVE  FileInv'
<1> DEFINE f == NormalizeWritablePath(name)
           file == Names \cup {NormalizeWritablePath(n) : n \in Names}
<1>1. /\ MapsToBytes(writable) /\ HandlesSound /\ vfs \in Seq(Entry)
      /\ f \in file /\ name \in file /\ <<>> \in Seq(Nat)
      /\ UNCHANGED <<dirty, userdata, promised>>
  <2>1. MapsToBytes(writable) /\ HandlesSound /\ vfs \in Seq(Entry)
    BY DEF FileInv, ContentsTyped, MapsToBytes
  <2>2. f \in file /\ name \in file
    OBVIOUS
  <2>3. <<>> \in Seq(Nat)
    OBVIOUS
  <2>4. UNCHANGED <<dirty, userdata, promised>>
    BY DEF OpenFile
  <2> QED
    BY <2>1, <2>2, <2>3, <2>4
<1>2. /\ Registered(name) \in Seq(Entry)
      /\ Find(name).found => Find(name).bytes \in Seq(Nat)
  BY <1>1, FindTyped
\* the map of written files as it was
<1>3. ASSUME UNCHANGED writable,
             vfs' \in Seq(Entry),
             \/ UNCHANGED <<handles, last>>
             \/ Give("writable", f, <<>>) /\ f \in DOMAIN writable
             \/ \E b \in Seq(Nat) : Give("shipped", name, b)
      PROVE  FileInv'
  <2>1. \A g \in DOMAIN writable : g \in DOMAIN writable' /\ writable'[g] = writable[g]
    BY <1>3
  <2>2. MapsToBytes(writable') /\ Longer(writable, writable')
    BY <1>1, <1>3, <2>1, SameIsLonger
  <2>3. CASE UNCHANGED <<handles, last>>
    <3>1. HandlesSound'
      BY <1>1, <2>2, <2>3, HandlesStay
    <3> QED
      BY <1>1, <1>3, <2>1, <2>2, <3>1, FilesAdded
  <2>4. CASE Give("writable", f, <<>>) /\ f \in DOMAIN writable
    <3>1. f \in DOMAIN writable'
      BY <1>3, <2>4
    <3> HIDE DEF f
    <3>2. HandlesSound'
      BY <1>1, <2>2, <2>4, <3>1, GivenSound
    <3> QED
      BY <1>1, <1>3, <2>1, <2>2, <3>2, FilesAdded
  <2>5. CASE \E b \in Seq(Nat) : Give("shipped", name, b)
    <3>1. PICK b \in Seq(Nat) : Give("shipped", name, b)
      BY <2>5
    <3>2. HandlesSound'
      BY <1>1, <2>2, <3>1, GivenSound
    <3> QED
      BY <1>1, <1>3, <2>1, <2>2, <3>2, FilesAdded
  <2> QED
    BY <1>3, <2>3, <2>4, <2>5
\* a file created or copied
<1>4. ASSUME f \notin DOMAIN writable, NEW b \in Seq(Nat), writable' = With(f, b),
             vfs' \in Seq(Entry), Give("writable", f, <<>>)
      PROVE  FileInv'
  <2> HIDE DEF f
  <2>1. /\ DOMAIN writable' = DOMAIN writable \cup {f}
        /\ \A g \in DOMAIN writable : g # f => writable'[g] = writable[g]
    BY <1>4 DEF With
  <2>2. \A g \in DOMAIN writable : g \in DOMAIN writable' /\ writable'[g] = writable[g]
    BY <1>4, <2>1
  <2>3. Longer(writable, writable') /\ f \in DOMAIN writable'
    BY <1>1, <2>1, <2>2, SameIsLonger
  <2>4. MapsToBytes(writable')
    BY <1>1, <1>4, WithFile
  <2>5. HandlesSound'
    BY <1>1, <1>4, <2>3, <2>4, GivenSound
  <2> QED
    BY <1>1, <1>4, <2>2, <2>4, <2>5, FilesAdded
<1>5. CASE f \in DOMAIN writable
  <2>1. Give("writable", f, <<>>) /\ UNCHANGED <<vfs, writable>>
    BY <1>5 DEF OpenFile
  <2>2. vfs' \in Seq(Entry)
    BY <1>1, <2>1
  <2> QED
    BY <1>3, <1>5, <2>1, <2>2
<1>6. CASE f \notin DOMAIN writable
  <2>1. /\ vfs' = Registered(name)
        /\ IF Find(name).found
           THEN IF write
                THEN writable' = With(f, Find(name).bytes) /\ Give("writable", f, <<>>)
                ELSE Give("shipped", name, Find(name).bytes) /\ UNCHANGED writable
           ELSE IF create
           THEN writable' = With(f, <<>>) /\ Give("writable", f, <<>>)
           ELSE IF Len(name) > 1 /\ Tail1(name) = "" /\ DirExists(name)
           THEN Give("shipped", name, <<>>) /\ UNCHANGED writable
           ELSE UNCHANGED <<handles, last, writable>>
    BY <1>6 DEF OpenFile
  <2> HIDE DEF f
  <2>2. vfs' \in Seq(Entry)
    BY <1>2, <2>1
  <2>3. CASE Find(name).found
    <3>1. CASE write
      BY <1>2, <1>4, <1>6, <2>1, <2>2, <2>3, <3>1
    <3>2. CASE ~write
      BY <1>2, <1>3, <2>1, <2>2, <2>3, <3>2
    <3> QED
      BY <3>1, <3>2
  <2>4. CASE ~Find(name).found
    <3>1. CASE create
      BY <1>1, <1>4, <1>6, <2>1, <2>2, <2>4, <3>1
    <3>2. CASE ~create
      <4>1. \/ Give("shipped", name, <<>>) /\ UNCHANGED writable
            \/ UNCHANGED <<handles, last, writable>>
        BY <2>1, <2>4, <3>2
      <4> QED
        BY <1>1, <1>3, <2>2, <4>1
    <3> QED
      BY <3>1, <3>2
  <2> QED
    BY <2>3, <2>4
<1> QED
  BY <1>5, <1>6

\* the handles and the written files as they were
LEMMA FilesAsTheyWere ==
    ASSUME FileInv, vfs' \in Seq(Entry), UNCHANGED <<writable, handles, last>>
    PROVE  /\ HandlesSound' /\ MapsToBytes(writable')
           /\ \A g \in DOMAIN writable : g \in DOMAIN writable' /\ writable'[g] = writable[g]
<1>1. HandlesSound /\ MapsToBytes(writable)
  BY DEF FileInv, ContentsTyped, MapsToBytes
<1>2. \A g \in DOMAIN writable : g \in DOMAIN writable' /\ writable'[g] = writable[g]
  OBVIOUS
<1>3. MapsToBytes(writable')
  BY <1>1
<1>4. Longer(writable, writable')
  BY <1>1, <1>2, SameIsLonger
<1> QED
  BY <1>1, <1>2, <1>3, <1>4, HandlesStay

LEMMA TestKeeps ==
    ASSUME FileBounds, FileInv, NEW name, Test(name)
    PROVE  FileInv'
<1>1. vfs' \in Seq(Entry)
  BY FindTyped DEF FileInv, ContentsTyped, Test
<1>2. UNCHANGED <<writable, handles, last, dirty, userdata, promised>>
  BY DEF Test
<1> QED
  BY <1>1, <1>2, FilesAsTheyWere, FilesAdded

LEMMA MkDirKeeps ==
    ASSUME FileBounds, FileInv, NEW name, MkDir(name)
    PROVE  FileInv'
<1>1. vfs' \in Seq(Entry)
  BY FindTyped DEF FileInv, ContentsTyped, MkDir
<1>2. /\ UNCHANGED <<writable, handles, last, userdata, promised>>
      /\ dirty' = dirty \/ dirty' = TRUE
  BY DEF MkDir
<1>3. HandlesSound' /\ MapsToBytes(writable')
  BY <1>1, <1>2, FilesAsTheyWere
<1>4. ContentsTyped'
  BY <1>1, <1>2, <1>3 DEF FileInv, ContentsTyped, MapsToBytes
<1>5. PromisesIn(writable)'
  BY <1>2 DEF FileInv, PromisesIn
<1>6. (userdata.torn \/ ~dirty => PromisesIn(userdata.files))'
  BY <1>2 DEF FileInv, PromisesIn
<1> QED
  BY <1>3, <1>4, <1>5, <1>6 DEF FileInv

LEMMA ReadKeeps ==
    ASSUME FileInv, NEW h, NEW want \in Nat, Read(h, want)
    PROVE  FileInv'
<1>1. /\ IsOpen(h) /\ UNCHANGED <<vfs, writable, last, dirty, userdata, promised>>
      /\ handles' = [handles EXCEPT ![h].position =
                       @ + Lesser(want, Len(Bytes(h)) - handles[h].position)]
  BY DEF Read
<1>2. HandlesSound /\ MapsToBytes(writable) /\ vfs \in Seq(Entry)
  BY DEF FileInv, ContentsTyped, MapsToBytes
<1>3. /\ h \in DOMAIN handles /\ Len(Bytes(h)) \in Nat
      /\ handles[h].position \in Nat /\ handles[h].position <= Len(Bytes(h))
  BY <1>1, <1>2, BytesTyped
<1> DEFINE n == Lesser(want, Len(Bytes(h)) - handles[h].position)
           p == handles[h].position + n
<1>4. n \in Nat /\ n <= Len(Bytes(h)) - handles[h].position
  BY <1>3 DEF Lesser
<1> HIDE DEF n
<1>5. p \in Nat /\ p <= Len(Bytes(h))
  BY <1>3, <1>4
<1>6. handles' = [handles EXCEPT ![h].position = p]
  BY <1>1 DEF n
<1> HIDE DEF p
<1>7. /\ \A g \in DOMAIN writable : g \in DOMAIN writable' /\ writable'[g] = writable[g]
      /\ MapsToBytes(writable') /\ vfs' \in Seq(Entry)
  BY <1>1, <1>2
<1>8. Longer(writable, writable')
  BY <1>2, <1>7, SameIsLonger
<1>9. p <= Len(IF handles[h].kind = "writable" THEN writable'[handles[h].file]
               ELSE handles[h].bytes)
  BY <1>1, <1>5 DEF Bytes
<1>10. last' = last
  BY <1>1
<1>11. HandlesSound'
  BY <1>2, <1>3, <1>5, <1>6, <1>7, <1>8, <1>9, <1>10, MovedSound
<1>12. UNCHANGED <<dirty, userdata, promised>>
  BY <1>1
<1> QED
  BY <1>7, <1>11, <1>12, FilesAdded

(* Writing over a file leaves bytes, and no fewer than before. *)
LEMMA OverlaidTyped ==
    ASSUME NEW bytes \in Seq(Nat), NEW new \in Seq(Nat), NEW position \in Nat,
           position <= Len(bytes)
    PROVE  /\ Overlaid(bytes, position, new) \in Seq(Nat)
           /\ Len(bytes) <= Len(Overlaid(bytes, position, new))
           /\ position + Len(new) <= Len(Overlaid(bytes, position, new))
<1> DEFINE n == IF position + Len(new) > Len(bytes) THEN position + Len(new)
                ELSE Len(bytes)
           b(k) == IF k > position /\ k <= position + Len(new) THEN new[k - position]
                   ELSE bytes[k]
           r == Overlaid(bytes, position, new)
<1>1. n \in Nat /\ Len(bytes) <= n /\ position + Len(new) <= n
  OBVIOUS
<1>2. \A k \in 1..n : b(k) \in Nat
  <2> SUFFICES ASSUME NEW k \in 1..n  PROVE b(k) \in Nat
    OBVIOUS
  <2>1. CASE k > position /\ k <= position + Len(new)
    <3>1. k - position \in 1..Len(new)
      BY <1>1, <2>1
    <3> QED
      BY <2>1, <3>1
  <2>2. CASE ~(k > position /\ k <= position + Len(new))
    <3>1. k \in 1..Len(bytes)
      BY <1>1, <2>2
    <3> QED
      BY <2>2, <3>1
  <2> QED
    BY <2>1, <2>2
<1>3. r = [k \in 1..n |-> b(k)]
  BY DEF Overlaid
<1> HIDE DEF n, b, r
<1>4. r \in [1..n -> Nat]
  BY <1>2, <1>3
<1>5. r \in Seq(Nat) /\ Len(r) = n
  BY <1>1, <1>4
<1> QED
  BY <1>1, <1>5 DEF r

LEMMA WriteKeeps ==
    ASSUME FileBounds, FileInv, ~userdata.torn, NEW h, NEW new \in Written, Write(h, new)
    PROVE  FileInv'
<1>1. IsOpen(h) /\ UNCHANGED <<vfs, last, userdata>>
  BY DEF Write
<1>2. HandlesSound /\ MapsToBytes(writable) /\ vfs \in Seq(Entry) /\ MapsToBytes(promised)
  BY DEF FileInv, ContentsTyped, MapsToBytes
<1>3. /\ h \in DOMAIN handles /\ Bytes(h) \in Seq(Nat) /\ Len(Bytes(h)) \in Nat
      /\ handles[h].position \in Nat /\ handles[h].position <= Len(Bytes(h))
      /\ handles[h].kind = "writable" => handles[h].file \in DOMAIN writable
  BY <1>1, <1>2, BytesTyped
<1>4. new \in Seq(Nat) /\ Len(new) \in Nat
  BY DEF FileBounds
<1>5. CASE handles[h].kind = "writable" /\ handles[h].position + Len(new) <= MaxSize
  <2> DEFINE f == handles[h].file
             after == Overlaid(Bytes(h), handles[h].position, new)
             p == handles[h].position + Len(new)
  <2>1. /\ writable' = With(f, after)
        /\ handles' = [handles EXCEPT ![h].position = p]
        /\ dirty' = TRUE
        /\ promised' = [g \in DOMAIN promised \cup {f} |->
                          IF g = f THEN after ELSE promised[g]]
    BY <1>5 DEF Write, DirtyAfter
  <2>2. after \in Seq(Nat) /\ Len(Bytes(h)) <= Len(after) /\ p <= Len(after) /\ p \in Nat
    BY <1>3, <1>4, OverlaidTyped
  <2>3. f \in DOMAIN writable /\ Bytes(h) = writable[f]
    BY <1>3, <1>5 DEF Bytes
  <2> HIDE DEF f, after, p
  <2>4. MapsToBytes(writable')
    BY <1>2, <2>1, <2>2, WithFile
  <2>5. Longer(writable, writable')
    BY <1>2, <2>1, <2>2, <2>3, WithLonger
  <2>6. /\ DOMAIN writable' = DOMAIN writable \cup {f} /\ writable'[f] = after
        /\ \A g \in DOMAIN writable : g # f => writable'[g] = writable[g]
    BY <2>1 DEF With
  <2>7. p <= Len(IF handles[h].kind = "writable" THEN writable'[handles[h].file]
                 ELSE handles[h].bytes)
    BY <1>5, <2>2, <2>6 DEF f
  <2>8. last' = last
    BY <1>1
  <2>9. HandlesSound'
    BY <1>2, <1>3, <2>1, <2>2, <2>4, <2>5, <2>7, <2>8, MovedSound
  <2>10. /\ DOMAIN promised' = DOMAIN promised \cup {f} /\ promised'[f] = after
         /\ \A g \in DOMAIN promised : g # f => promised'[g] = promised[g]
    BY <2>1
  <2>11. MapsToBytes(promised')
    <3>1. \A g \in DOMAIN promised \cup {f} :
            (IF g = f THEN after ELSE promised[g]) \in Seq(Nat)
      BY <1>2, <2>2 DEF MapsToBytes
    <3>2. promised' \in [DOMAIN promised \cup {f} -> Seq(Nat)]
      BY <2>1, <3>1
    <3>3. promised' \in [DOMAIN promised' -> Seq(Nat)]
      BY <2>10, <3>2
    <3> QED
      BY <3>3 DEF MapsToBytes
  <2>12. PromisesIn(writable)'
    <3> SUFFICES ASSUME NEW g \in DOMAIN promised'
                 PROVE  g \in DOMAIN writable' /\ IsPrefix(promised'[g], writable'[g])
      BY DEF PromisesIn
    <3>1. CASE g = f
      BY <2>2, <2>6, <2>10, <3>1, PrefixOfItself
    <3>2. CASE g # f
      <4>1. g \in DOMAIN promised /\ promised'[g] = promised[g]
        BY <2>10, <3>2
      <4>2. g \in DOMAIN writable /\ IsPrefix(promised[g], writable[g])
        BY <4>1 DEF FileInv, PromisesIn
      <4> QED
        BY <2>6, <3>2, <4>1, <4>2
    <3> QED
      BY <3>1, <3>2
  <2>13. ~(userdata'.torn \/ ~dirty')
    BY <1>1, <2>1
  <2>14. ContentsTyped'
    <3>1. vfs' \in Seq(Entry) /\ dirty' \in BOOLEAN
      BY <1>1, <1>2, <2>1
    <3> QED
      BY <1>1, <2>4, <2>11, <3>1 DEF FileInv, ContentsTyped, MapsToBytes
  <2> QED
    BY <2>9, <2>12, <2>13, <2>14 DEF FileInv
<1>6. CASE ~(handles[h].kind = "writable" /\ handles[h].position + Len(new) <= MaxSize)
  <2>1. UNCHANGED <<vfs, writable, handles, last, dirty, userdata, promised>>
    BY <1>1, <1>6 DEF Write
  <2>2. vfs' \in Seq(Entry)
    BY <1>2, <2>1
  <2> QED
    BY <2>1, <2>2, FilesAsTheyWere, FilesAdded
<1> QED
  BY <1>5, <1>6

LEMMA SeekKeeps ==
    ASSUME FileBounds, FileInv, NEW h, NEW whence, NEW distance \in Int,
           Seek(h, whence, distance)
    PROVE  FileInv'
<1> DEFINE size == Len(Bytes(h))
           to == distance + CASE whence = "start" -> 0 [] whence = "end" -> size
                              [] OTHER -> handles[h].position
           can == to >= 0 /\ (handles[h].kind = "writable" \/ to <= size)
           zeros == [k \in 1 .. to - size |-> 0]
           longer == With(handles[h].file, Bytes(h) \o zeros)
<1>1. /\ IsOpen(h) /\ UNCHANGED <<vfs, dirs, last, dirty, userdata, promised>>
      /\ handles' = IF can THEN [handles EXCEPT ![h].position = to] ELSE handles
      /\ writable' = IF can /\ to > size THEN longer ELSE writable
  BY DEF Seek
<1>2. HandlesSound /\ MapsToBytes(writable) /\ vfs \in Seq(Entry) /\ MapsToBytes(promised)
  BY DEF FileInv, ContentsTyped, MapsToBytes
<1>3. /\ h \in DOMAIN handles /\ Bytes(h) \in Seq(Nat) /\ size \in Nat
      /\ handles[h].position \in Nat
      /\ handles[h].kind = "writable" => handles[h].file \in DOMAIN writable
  BY <1>1, <1>2, BytesTyped
<1>4. to \in Int
  <2>1. CASE whence = "start"
    BY <2>1, <1>3
  <2>2. CASE whence = "end"
    BY <2>2, <1>3
  <2>3. CASE whence # "start" /\ whence # "end"
    BY <2>3, <1>3
  <2> QED
    BY <2>1, <2>2, <2>3
<1>5. size = Len(Bytes(h))
  OBVIOUS
<1>6. vfs' \in Seq(Entry)
  BY <1>1, <1>2
<1> HIDE DEF size, to
<1>7. CASE can /\ to > size
  <2> DEFINE f == handles[h].file
             after == Bytes(h) \o zeros
  <2>1. handles' = [handles EXCEPT ![h].position = to] /\ writable' = With(f, after)
    BY <1>1, <1>7
  <2>2. zeros \in Seq(Nat) /\ Len(zeros) = to - size
    BY <1>3, <1>4, <1>7
  <2>3. f \in DOMAIN writable /\ Bytes(h) = writable[f]
    BY <1>3, <1>4, <1>7 DEF Bytes
  <2> HIDE DEF zeros
  <2>4. after \in Seq(Nat) /\ Len(after) = to
    BY <1>3, <1>4, <1>5, <2>2
  <2>5. \A g \in DOMAIN promised : IsPrefix(promised[g], writable[g]) /\ g \in DOMAIN writable
    BY DEF FileInv, PromisesIn
  <2>6. f \in DOMAIN promised => IsPrefix(promised[f], after)
    <3> SUFFICES ASSUME f \in DOMAIN promised
                 PROVE  IsPrefix(promised[f], after)
      OBVIOUS
    <3>1. promised[f] \in Seq(Nat)
      BY <1>2 DEF MapsToBytes
    <3>2. IsPrefix(promised[f], Bytes(h))
      BY <2>3, <2>5
    <3> QED
      BY <1>3, <2>2, <3>1, <3>2, PrefixOfLonger
  <2> HIDE DEF f, after
  <2>7. MapsToBytes(writable')
    BY <1>2, <2>1, <2>4, WithFile
  <2>8. Longer(writable, writable')
    <3>1. Len(writable[f]) <= Len(after)
      BY <1>3, <1>4, <1>5, <1>7, <2>3, <2>4
    <3> QED
      BY <1>2, <2>1, <2>4, <3>1, WithLonger
  <2>9. /\ DOMAIN writable' = DOMAIN writable \cup {f} /\ writable'[f] = after
        /\ \A g \in DOMAIN writable : g # f => writable'[g] = writable[g]
    BY <2>1 DEF With
  <2>10. to \in Nat
    BY <1>3, <1>4, <1>7
  <2>11. to <= Len(IF handles[h].kind = "writable" THEN writable'[handles[h].file]
                   ELSE handles[h].bytes)
    <3>1. handles[h].kind = "writable"
      BY <1>3, <1>4, <1>7
    <3> QED
      BY <2>4, <2>9, <2>10, <3>1 DEF f
  <2>12. last' = last
    BY <1>1
  <2>13. HandlesSound'
    BY <1>2, <1>3, <2>1, <2>7, <2>8, <2>10, <2>11, <2>12, MovedSound
  <2>14. PromisesIn(writable)'
    <3> SUFFICES ASSUME NEW g \in DOMAIN promised'
                 PROVE  g \in DOMAIN writable' /\ IsPrefix(promised'[g], writable'[g])
      BY DEF PromisesIn
    <3>1. promised' = promised
      BY <1>1
    <3> QED
      BY <2>3, <2>5, <2>6, <2>9, <3>1
  <2>15. (userdata.torn \/ ~dirty => PromisesIn(userdata.files))'
    BY <1>1 DEF FileInv, PromisesIn
  <2>16. ContentsTyped'
    BY <1>1, <1>6, <2>7 DEF FileInv, ContentsTyped, MapsToBytes
  <2> QED
    BY <2>13, <2>14, <2>15, <2>16 DEF FileInv
<1>8. CASE ~(can /\ to > size)
  <2>1. writable' = writable
    BY <1>1, <1>8
  <2>2. /\ \A g \in DOMAIN writable : g \in DOMAIN writable' /\ writable'[g] = writable[g]
        /\ MapsToBytes(writable')
    BY <1>2, <2>1
  <2>3. Longer(writable, writable')
    BY <1>2, <2>2, SameIsLonger
  <2>4. UNCHANGED <<dirty, userdata, promised>> /\ last' = last
    BY <1>1
  <2>5. CASE can
    <3>1. to \in Nat /\ to <= size
      BY <1>3, <1>4, <1>8, <2>5
    <3>2. to <= Len(IF handles[h].kind = "writable" THEN writable'[handles[h].file]
                    ELSE handles[h].bytes)
      BY <1>5, <2>1, <3>1 DEF Bytes
    <3>3. handles' = [handles EXCEPT ![h].position = to]
      BY <1>1, <2>5
    <3>4. HandlesSound'
      BY <1>2, <1>3, <2>2, <2>3, <2>4, <3>1, <3>2, <3>3, MovedSound
    <3> QED
      BY <1>6, <2>2, <2>4, <3>4, FilesAdded
  <2>6. CASE ~can
    <3>1. UNCHANGED <<writable, handles, last>>
      BY <1>1, <2>1, <2>4, <2>6
    <3> QED
      BY <1>6, <2>4, <3>1, FilesAsTheyWere, FilesAdded
  <2> QED
    BY <2>5, <2>6
<1> QED
  BY <1>7, <1>8

LEMMA CloseKeeps ==
    ASSUME FileInv, NEW h, Close(h)
    PROVE  FileInv'
<1>1. /\ IsOpen(h) /\ handles' = [handles EXCEPT ![h].open = FALSE]
      /\ UNCHANGED <<vfs, writable, last, dirty, userdata, promised>>
  BY DEF Close
<1>2. HandlesSound /\ MapsToBytes(writable) /\ vfs \in Seq(Entry)
  BY DEF FileInv, ContentsTyped, MapsToBytes
<1> DEFINE r == [handles[h] EXCEPT !.open = FALSE]
<1>3. h \in DOMAIN handles /\ handles[h] \in Handle /\ Sound(handles[h], writable)
  BY <1>1 DEF IsOpen, FileInv, HandlesSound
<1>4. r \in Handle /\ r.kind = handles[h].kind /\ r.file = handles[h].file /\ ~r.open
  BY <1>3 DEF Handle
<1>5. handles' = [handles EXCEPT ![h] = r]
  BY <1>1
<1> HIDE DEF r
<1>6. /\ \A g \in DOMAIN writable : g \in DOMAIN writable' /\ writable'[g] = writable[g]
      /\ MapsToBytes(writable') /\ vfs' \in Seq(Entry) /\ last' = last
  BY <1>1, <1>2
<1>7. Longer(writable, writable')
  BY <1>2, <1>6, SameIsLonger
<1>8. Sound(r, writable')
  BY <1>3, <1>4, <1>6 DEF Sound
<1>9. HandlesSound'
  BY <1>2, <1>3, <1>4, <1>5, <1>6, <1>7, <1>8, ChangedSound
<1>10. UNCHANGED <<dirty, userdata, promised>>
  BY <1>1
<1> QED
  BY <1>6, <1>9, <1>10, FilesAdded

\* the userdata file, by what it holds
UserFile(files, names) ==
  [found : BOOLEAN, torn : BOOLEAN, files : {files}, dirs : {names}]
LEMMA UserdataTyped ==
    ASSUME FileInv
    PROVE  userdata \in UserFile(userdata.files, userdata.dirs)
<1>1. PICK a, b, c, d : userdata = [found |-> a, torn |-> b, files |-> c, dirs |-> d]
  BY DEF FileInv, ContentsTyped
<1>2. userdata.found = a /\ userdata.torn = b /\ userdata.files = c /\ userdata.dirs = d
  BY <1>1
<1>3. a \in BOOLEAN /\ b \in BOOLEAN
  BY <1>2 DEF FileInv, ContentsTyped
<1> QED
  BY <1>1, <1>2, <1>3 DEF UserFile

(* The file on the host is given all that is in memory before the unsaved   *)
(* writes are forgotten.                                                    *)
LEMMA BeginFlushKeeps ==
    ASSUME FileInv, BeginFlush
    PROVE  FileInv'
<1> DEFINE new == [userdata EXCEPT !.found = TRUE, !.torn = TRUE,
                                   !.files = writable, !.dirs = dirs]
<1>1. userdata' = new /\ UNCHANGED <<vfs, writable, handles, last, dirty, promised>>
  BY DEF BeginFlush
<1>2. userdata \in UserFile(userdata.files, userdata.dirs)
  BY UserdataTyped
<1>3. new \in UserFile(writable, dirs) /\ new.found = TRUE /\ new.torn = TRUE
  BY <1>2 DEF UserFile
<1> HIDE DEF new
<1>4. userdata' = [found |-> TRUE, torn |-> TRUE, files |-> writable, dirs |-> dirs]
  BY <1>1, <1>3 DEF UserFile
<1>5. vfs' \in Seq(Entry)
  BY <1>1 DEF FileInv, ContentsTyped
<1>6. HandlesSound' /\ MapsToBytes(writable')
  BY <1>1, <1>5, FilesAsTheyWere
<1>7. PromisesIn(writable)' /\ PromisesIn(userdata.files)'
  <2>1. promised' = promised /\ writable' = writable /\ userdata'.files = writable
    BY <1>1, <1>4
  <2>2. PromisesIn(writable)
    BY DEF FileInv
  <2>3. PromisesIn(writable)'
    BY <2>1, <2>2 DEF PromisesIn
  <2>4. PromisesIn(userdata.files)'
    BY <2>1, <2>2 DEF PromisesIn
  <2> QED
    BY <2>3, <2>4
<1>8. ContentsTyped'
  <2>1. /\ userdata'.found = TRUE /\ userdata'.torn = TRUE /\ userdata'.files = writable
        /\ userdata' = [found |-> userdata'.found, torn |-> userdata'.torn,
                        files |-> userdata'.files, dirs |-> userdata'.dirs]
    BY <1>4
  <2>2. MapsToBytes(userdata'.files)
    BY <1>1, <1>6, <2>1
  <2> QED
    BY <1>1, <1>5, <1>6, <2>1, <2>2 DEF FileInv, ContentsTyped, MapsToBytes
<1> QED
  BY <1>6, <1>7, <1>8 DEF FileInv

LEMMA SerializeKeeps ==
    ASSUME FileInv, Serialize
    PROVE  FileInv'
<1> DEFINE new == [userdata EXCEPT !.torn = FALSE]
<1>1. /\ userdata' = new /\ dirty' = FALSE /\ userdata.torn
      /\ UNCHANGED <<vfs, writable, handles, last, promised>>
  BY DEF Serialize
<1>2. userdata \in UserFile(userdata.files, userdata.dirs)
  BY UserdataTyped
<1>3. /\ new \in UserFile(userdata.files, userdata.dirs)
      /\ new.found = userdata.found /\ new.torn = FALSE
  BY <1>2 DEF UserFile
<1> HIDE DEF new
<1>4. /\ userdata'.found = userdata.found /\ userdata'.torn = FALSE
      /\ userdata'.files = userdata.files
      /\ userdata' = [found |-> userdata'.found, torn |-> userdata'.torn,
                      files |-> userdata'.files, dirs |-> userdata'.dirs]
  BY <1>1, <1>3 DEF UserFile
<1>5. vfs' \in Seq(Entry)
  BY <1>1 DEF FileInv, ContentsTyped
<1>6. HandlesSound' /\ MapsToBytes(writable')
  BY <1>1, <1>5, FilesAsTheyWere
<1>7. PromisesIn(writable)' /\ PromisesIn(userdata.files)'
  <2>1. /\ promised' = promised /\ writable' = writable
        /\ userdata'.files = userdata.files
    BY <1>1, <1>4
  <2>2. PromisesIn(writable) /\ PromisesIn(userdata.files)
    BY <1>1 DEF FileInv
  <2>3. PromisesIn(writable)'
    BY <2>1, <2>2 DEF PromisesIn
  <2>4. PromisesIn(userdata.files)'
    BY <2>1, <2>2 DEF PromisesIn
  <2> QED
    BY <2>3, <2>4
<1>8. ContentsTyped'
  BY <1>1, <1>4, <1>5, <1>6 DEF FileInv, ContentsTyped, MapsToBytes
<1> QED
  BY <1>6, <1>7, <1>8 DEF FileInv

(* A run starts with what the last one flushed, with nothing when it finds  *)
(* no file; and where it started is what it has promised.                   *)
LEMMA RestartKeeps ==
    ASSUME FileBounds, FileInv, Restart
    PROVE  FileInv'
<1>1. /\ vfs' = Shipped /\ handles' = <<>> /\ last' = 0 /\ dirty' = FALSE
      /\ \/ /\ ~userdata.torn /\ writable' = userdata.files
            /\ promised' = IF dirty THEN userdata.files ELSE promised
         \/ writable' = userdata.files /\ promised' = userdata.files
         \/ writable' = <<>> /\ promised' = <<>>
  BY DEF Restart
<1>2. MapsToBytes(userdata.files) /\ MapsToBytes(promised)
  BY DEF FileInv, ContentsTyped, MapsToBytes
<1>3. MapsToBytes(<<>>)
  <2>1. <<>> \in Seq(Seq(Nat)) /\ \A i : i \notin DOMAIN <<>>
    OBVIOUS
  <2>2. <<>> \in [DOMAIN <<>> -> Seq(Nat)]
    BY <2>1
  <2> QED
    BY <2>2 DEF MapsToBytes
<1>4. MapsToBytes(writable') /\ MapsToBytes(promised')
  BY <1>1, <1>2, <1>3
<1>5. \A files : MapsToBytes(files) =>
        \A f \in DOMAIN files : IsPrefix(files[f], files[f])
  BY PrefixOfItself DEF MapsToBytes
<1>6. \A f \in DOMAIN promised' :
        f \in DOMAIN writable' /\ IsPrefix(promised'[f], writable'[f])
  <2>1. CASE /\ ~userdata.torn /\ writable' = userdata.files
             /\ promised' = IF dirty THEN userdata.files ELSE promised
    <3>1. CASE dirty
      BY <1>2, <1>5, <2>1, <3>1
    <3>2. CASE ~dirty
      <4>1. \A f \in DOMAIN promised :
              f \in DOMAIN userdata.files /\ IsPrefix(promised[f], userdata.files[f])
        BY <3>2 DEF FileInv, PromisesIn
      <4> QED
        BY <2>1, <3>2, <4>1
    <3> QED
      BY <3>1, <3>2
  <2>2. CASE writable' = userdata.files /\ promised' = userdata.files
    BY <1>2, <1>5, <2>2
  <2>3. CASE writable' = <<>> /\ promised' = <<>>
    BY <1>3, <1>5, <2>3
  <2> QED
    BY <1>1, <2>1, <2>2, <2>3
<1>7. PICK found \in BOOLEAN :
        userdata' = [found |-> found, torn |-> FALSE, files |-> writable', dirs |-> dirs']
  <2> DEFINE found == userdata.found /\ Loads /\ writable' # <<>>
             new == [userdata EXCEPT !.torn = FALSE, !.found = found,
                                     !.files = writable', !.dirs = dirs']
  <2>1. userdata' = new
    BY DEF Restart
  <2>2. userdata \in UserFile(userdata.files, userdata.dirs)
    BY UserdataTyped
  <2>3. found \in BOOLEAN
    OBVIOUS
  <2> HIDE DEF found
  <2>4. new \in UserFile(writable', dirs') /\ new.found = found /\ new.torn = FALSE
    BY <2>2, <2>3 DEF UserFile
  <2> HIDE DEF new
  <2>5. new = [found |-> found, torn |-> FALSE, files |-> writable', dirs |-> dirs']
    BY <2>4 DEF UserFile
  <2> QED
    BY <2>1, <2>3, <2>5
<1>8. /\ userdata'.found \in BOOLEAN /\ userdata'.torn = FALSE
      /\ userdata'.files = writable'
      /\ userdata' = [found |-> userdata'.found, torn |-> userdata'.torn,
                      files |-> userdata'.files, dirs |-> userdata'.dirs]
  BY <1>7
<1>9. HandlesSound'
  <2>1. <<>> \in Seq(Handle) /\ (\A i : i \notin DOMAIN <<>>) /\ Len(<<>>) = 0
    OBVIOUS
  <2> QED
    BY <1>1, <2>1 DEF HandlesSound
<1>10. ContentsTyped'
  <2>1. vfs' \in Seq(Entry)
    BY <1>1 DEF FileBounds
  <2> QED
    BY <1>1, <1>4, <1>8, <2>1 DEF ContentsTyped, MapsToBytes
<1>11. PromisesIn(writable)'
  BY <1>6 DEF PromisesIn
<1>12. PromisesIn(userdata.files)'
  BY <1>6, <1>8 DEF PromisesIn
<1> QED
  BY <1>9, <1>10, <1>11, <1>12 DEF FileInv

LEMMA FileInvInitially ==
    ASSUME FileBounds, FileInit
    PROVE  FileInv
<1>1. <<>> \in Seq(Seq(Nat)) /\ \A i : i \notin DOMAIN <<>>
  OBVIOUS
<1>2. MapsToBytes(<<>>)
  <2>1. <<>> \in [DOMAIN <<>> -> Seq(Nat)]
    BY <1>1
  <2> QED
    BY <2>1 DEF MapsToBytes
<1>3. /\ vfs \in Seq(Entry) /\ writable = <<>> /\ promised = <<>> /\ handles = <<>>
      /\ last = 0 /\ dirty = FALSE
      /\ userdata = [found |-> FALSE, torn |-> FALSE, files |-> <<>>, dirs |-> {}]
  BY DEF FileInit, FileBounds
<1>4. /\ userdata.found = FALSE /\ userdata.torn = FALSE /\ userdata.files = <<>>
      /\ userdata = [found |-> userdata.found, torn |-> userdata.torn,
                     files |-> userdata.files, dirs |-> userdata.dirs]
  BY <1>3
<1>5. ContentsTyped
  BY <1>2, <1>3, <1>4 DEF ContentsTyped, MapsToBytes
<1>6. HandlesSound
  <2>1. <<>> \in Seq(Handle) /\ Len(<<>>) = 0
    OBVIOUS
  <2> QED
    BY <1>1, <1>3, <2>1 DEF HandlesSound
<1>7. PromisesIn(writable) /\ PromisesIn(userdata.files)
  BY <1>1, <1>3 DEF PromisesIn
<1> QED
  BY <1>5, <1>6, <1>7 DEF FileInv

(* Every step keeps the invariant: one case for each action.                *)
LEMMA FileInvStays ==
    ASSUME FileBounds, FileInv, [FileNext]_fileVars
    PROVE  FileInv'
<1>1. ASSUME NEW name \in Names, NEW write \in BOOLEAN, NEW create \in BOOLEAN,
             OpenFile(name, write, create)
      PROVE  FileInv'
  BY <1>1, OpenFileKeeps
<1>2. ASSUME NEW name \in Names, Test(name)
      PROVE  FileInv'
  BY <1>2, TestKeeps
<1>3. ASSUME NEW name \in Names, MkDir(name)
      PROVE  FileInv'
  BY <1>3, MkDirKeeps
<1>4. ASSUME NEW h, NEW want \in {1, MaxSize}, Read(h, want)
      PROVE  FileInv'
  <2>1. want \in Nat
    BY DEF FileBounds
  <2> QED
    BY <1>4, <2>1, ReadKeeps
<1>5. ASSUME ReadLast(1)
      PROVE  FileInv'
  <2>1. Read(last, 1)
    BY <1>5 DEF ReadLast
  <2> QED
    BY <2>1, ReadKeeps
<1>6. ASSUME ~userdata.torn, NEW h, NEW new \in Written, Write(h, new)
      PROVE  FileInv'
  BY <1>6, WriteKeeps
<1>7. ASSUME NEW h, NEW whence, NEW d \in {0 - 1, 0, 1}, Seek(h, whence, d)
      PROVE  FileInv'
  <2>1. d \in Int
    OBVIOUS
  <2> QED
    BY <1>7, <2>1, SeekKeeps
<1>8. ASSUME NEW h, Close(h)
      PROVE  FileInv'
  BY <1>8, CloseKeeps
<1>9. CASE ~userdata.torn /\ Guest
  BY <1>1, <1>2, <1>3, <1>4, <1>5, <1>6, <1>7, <1>8, <1>9 DEF Guest
<1>10. CASE BeginFlush
  BY <1>10, BeginFlushKeeps
<1>11. CASE Serialize
  BY <1>11, SerializeKeeps
<1>12. CASE Restart
  BY <1>12, RestartKeeps
<1>13. CASE UNCHANGED fileVars
  <2>1. UNCHANGED <<vfs, writable, dirs, handles, last, dirty, userdata, promised>>
    BY <1>13 DEF fileVars
  <2>2. vfs' \in Seq(Entry)
    BY <2>1 DEF FileInv, ContentsTyped
  <2> QED
    BY <2>1, <2>2, FilesAsTheyWere, FilesAdded
<1> QED
  BY <1>9, <1>10, <1>11, <1>12, <1>13 DEF FileNext

LEMMA FileInvShows ==
    ASSUME FileInv
    PROVE  WritesSurvive /\ PositionsInside
<1>1. WritesSurvive
  BY DEF FileInv, PromisesIn, WritesSurvive
<1>2. PositionsInside
  <2> SUFFICES ASSUME NEW h \in DOMAIN handles, handles[h].open
               PROVE  handles[h].position \in 0 .. Len(Bytes(h))
    BY DEF PositionsInside
  <2>1. HandlesSound /\ MapsToBytes(writable) /\ IsOpen(h)
    BY DEF FileInv, ContentsTyped, MapsToBytes, IsOpen
  <2>2. /\ Len(Bytes(h)) \in Nat /\ handles[h].position \in Nat
        /\ handles[h].position <= Len(Bytes(h))
    BY <2>1, BytesTyped
  <2> QED
    BY <2>2
<1> QED
  BY <1>1, <1>2

(* Whatever is opened, written, moved in and closed, and whenever the       *)
(* player is killed: what the title wrote is on the host when nothing is    *)
(* left to flush, and no handle stands past the end of its file             *)
(* (FileHle::WriteToHandle, ReadFromHandle, the loop's flush and the load   *)
(* of the userdata file).                                                   *)
THEOREM FilesKept ==
    ASSUME FileBounds
    PROVE  FileSpec => [](WritesSurvive /\ PositionsInside)
<1>1. FileInit => FileInv
  BY FileInvInitially
<1>2. FileInv /\ [FileNext]_fileVars => FileInv'
  BY FileInvStays
<1>3. FileInv => WritesSurvive /\ PositionsInside
  BY FileInvShows
<1> QED
  BY <1>1, <1>2, <1>3, PTL DEF FileSpec
=============================================================================
