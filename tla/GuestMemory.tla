---------------------------- MODULE GuestMemory ----------------------------
(***************************************************************************)
(* Memory (core/memory/memory.{h,cpp}): pages made when first written,     *)
(* accesses of one, two and four bytes that may cross them, blocks of half *)
(* words, the guard that keeps media pointers from being cleared, the      *)
(* replaced read, and the pages a save state writes and reads.  Every      *)
(* access passes through the hooks of DebugHooks                           *)
(* (core/control/debug_hooks.{h,cpp}): the breakpoints and watchpoints a   *)
(* control command sets, and the traces an environment variable starts.    *)
(* The hooks only observe; their armed flags are what Rearm computes from  *)
(* the sets, so they are not kept.                                         *)
(***************************************************************************)
EXTENDS Integers, Sequences, TLAPS

CONSTANTS
    Top,        \* addresses; 2^32
    Off,        \* a trace or a log that is not open
    PageSize,   \* kPageSize
    At,         \* the addresses the program accesses
    Pointer,    \* the word of a media object: the guard region
    Words,      \* the words it writes
    MaxOps      \* accesses of a behaviour

VARIABLES
    pages,      \* pages_
    bound,      \* media_bound_slots_: slot -> the pointer it holds
    seed,       \* seed_read_addr_ and seed_read_value_, or Off
    saved,      \* a save state's pages, or Off
    hooks,      \* DebugHooks
    asked,      \* the last access: its kind, address and bytes
    ops

memoryVars == <<pages, bound, seed, saved, hooks, asked, ops>>

-----------------------------------------------------------------------------
(* The hooks: operators from hooks to hooks. *)

HooksStart ==
    [bps |-> {}, wps |-> {}, hit |-> FALSE, trace |-> Off, log |-> Off, pc |-> 0]

AddBreakpoint(h, pc) == [h EXCEPT !.bps = @ \cup {pc}]

ClearBreakpoint(h, pc) == [h EXCEPT !.bps = @ \ {pc}]

(* A watchpoint of no bytes watches one. *)
AddWatchpoint(h, at, len, mode) ==
    [h EXCEPT !.wps = @ \cup {[at |-> at, len |-> IF len = 0 THEN 1 ELSE len, mode |-> mode]}]

ClearAll(h) == [h EXCEPT !.bps = {}, !.wps = {}, !.hit = FALSE]

ClearHit(h) == [h EXCEPT !.hit = FALSE]

EnableTrace(h, lo, hi, limit) ==
    [h EXCEPT !.trace = [lo |-> lo, hi |-> IF hi = 0 THEN lo + 4 ELSE hi, limit |-> limit, count |-> 0]]

EnableWriteWatchLog(h, at, len) ==
    [h EXCEPT !.log = [lo |-> at, hi |-> (at + (IF len = 0 THEN 4 ELSE len)) % Top, seen |-> {}]]

(* The overlap test, in 32 bits. *)
Overlap(at, len, from, to) == at < to /\ from < (at + len) % Top

OnTraceSlow(h, pc) ==
    IF h.trace = Off \/ pc < h.trace.lo \/ pc >= h.trace.hi THEN h
    ELSE IF h.trace.count >= h.trace.limit THEN [h EXCEPT !.trace = Off]
    ELSE [h EXCEPT !.trace.count = @ + 1]

OnExec(h, pc) ==
    LET h1 == OnTraceSlow(IF h.log = Off THEN h ELSE [h EXCEPT !.pc = pc], pc) IN
    IF pc \in h.bps THEN [h1 EXCEPT !.hit = TRUE] ELSE h1

OnMemSlow(h, at, len, kind) ==
    IF \E w \in h.wps : kind \in w.mode /\ Overlap(at, len, w.at, (w.at + w.len) % Top)
    THEN [h EXCEPT !.hit = TRUE] ELSE h

OnMemRead(h, at, len) == OnMemSlow(h, at, len, "r")

OnMemWrite(h, at, len) ==
    LET h1 == IF h.log # Off /\ Overlap(at, len, h.log.lo, h.log.hi)
              THEN [h EXCEPT !.log.seen = @ \cup {<<at, h.pc>>}] ELSE h
    IN  OnMemSlow(h1, at, len, "w")

-----------------------------------------------------------------------------
(* The memory. *)

Zero == <<0, 0, 0, 0>>

EmptyPage == [k \in 0..PageSize - 1 |-> 0]

Page(a) == (a % Top) \div PageSize

Offset(a) == a % PageSize

(* FindPage and Read8. *)
Read8(p, a) == IF Page(a) \in DOMAIN p THEN p[Page(a)][Offset(a)] ELSE 0

(* MutablePage and the bytes written there. *)
Stored(p, a, bs) ==
    LET old == IF Page(a) \in DOMAIN p THEN p[Page(a)] ELSE EmptyPage
        new == [k \in DOMAIN old |-> IF k - Offset(a) + 1 \in DOMAIN bs THEN bs[k - Offset(a) + 1] ELSE old[k]]
    IN  [q \in DOMAIN p \cup {Page(a)} |-> IF q = Page(a) THEN new ELSE p[q]]

Write8(p, a, b) == Stored(p, a, <<b>>)

(* One look-up when the access stays in its page; byte by byte when not. *)
Write16(p, a, bs) ==
    IF Offset(a) <= PageSize - 2 THEN Stored(p, a, bs) ELSE Write8(Write8(p, a, bs[1]), a + 1, bs[2])

Write32Bytes_NoCrossing(p, a, bs) == Stored(p, a, bs)

Write32Bytes(p, a, bs) ==
    IF Offset(a) <= PageSize - 4 THEN Stored(p, a, bs)
    ELSE Write8(Write8(Write8(Write8(p, a, bs[1]), a + 1, bs[2]), a + 2, bs[3]), a + 3, bs[4])

Word(p, a) == <<Read8(p, a), Read8(p, a + 1), Read8(p, a + 2), Read8(p, a + 3)>>

(* Read32: a word that reads 0 is replaced at the armed address. *)
Read32(p, a) ==
    LET w == IF Offset(a) > PageSize - 4 THEN Word(p, a)
             ELSE IF Page(a) \in DOMAIN p THEN SubSeq([k \in 1..PageSize |-> p[Page(a)][k - 1]],
                                                      Offset(a) + 1, Offset(a) + 4)
             ELSE Zero
    IN  IF seed # Off /\ seed.at = a /\ w = Zero THEN seed.value ELSE w

(* The hooks see a wide access byte by byte. *)
HookedBytes(h, a, n, On(_, _, _)) ==
    LET h2 == On(On(h, a, 1), (a + 1) % Top, 1)
    IN  IF n = 2 THEN h2 ELSE On(On(h2, (a + 2) % Top, 1), (a + 3) % Top, 1)

MemoryInit ==
    /\ pages = [q \in {} |-> EmptyPage] /\ bound = [a \in {} |-> Pointer]
    /\ seed \in {Off} \cup {[at |-> a, value |-> Pointer] : a \in At}
    /\ saved = Off /\ hooks = HooksStart
    /\ asked = [kind |-> "none", at |-> 0, bytes |-> <<>>] /\ ops = 0

Asks(kind, a, bs) == /\ ops < MaxOps /\ ops' = ops + 1
                     /\ asked' = [kind |-> kind, at |-> a, bytes |-> bs]

DoWrite8 ==
    \E a \in At, b \in {1, 2} :
        /\ Asks("write", a, <<b>>)
        /\ pages' = Write8(pages, a, b) /\ hooks' = OnMemWrite(hooks, a, 1)
        /\ UNCHANGED <<bound, seed, saved>>

DoWrite16 ==
    \E a \in At :
        /\ Asks("write", a, <<2, 2>>)
        /\ pages' = Write16(pages, a, <<2, 2>>) /\ hooks' = HookedBytes(hooks, a, 2, OnMemWrite)
        /\ UNCHANGED <<bound, seed, saved>>

(* The slot still holds the pointer that was bound there. *)
Live_Always(a) == TRUE

Live(a) == Read32(pages, a) = bound[a]

(* A zero to a slot that holds a media pointer is not written; the guard's own
   read of the slot passes the hooks too. *)
Kept(a, w) == w = Zero /\ a \in DOMAIN bound /\ Live(a)

DoWrite32 ==
    \E a \in At, w \in Words :
        LET peeked == IF w = Zero /\ a \in DOMAIN bound THEN HookedBytes(hooks, a, 4, OnMemRead) ELSE hooks IN
        /\ Asks("write", a, w)
        /\ bound' = IF w = Pointer THEN [x \in DOMAIN bound \cup {a} |-> IF x = a THEN w ELSE bound[x]]
                    ELSE IF w = Zero /\ ~Kept(a, w) THEN [x \in DOMAIN bound \ {a} |-> bound[x]] ELSE bound
        /\ IF Kept(a, w) THEN pages' = pages /\ hooks' = peeked
           ELSE pages' = Write32Bytes(pages, a, w) /\ hooks' = HookedBytes(peeked, a, 4, OnMemWrite)
        /\ UNCHANGED <<seed, saved>>

Min2(m, n) == IF m < n THEN m ELSE n

(* What fits of a block of half words in the page it has reached: one look-up and
   one hook. *)
BlockStep(s) ==
    LET n == 2 * Min2(Len(s.bs) \div 2, (PageSize - Offset(s.a)) \div 2) IN
    IF n = 0 THEN s
    ELSE [p |-> Stored(s.p, s.a, SubSeq(s.bs, 1, n)), h |-> OnMemWrite(s.h, s.a, n),
          a |-> (s.a + n) % Top, bs |-> SubSeq(s.bs, n + 1, Len(s.bs))]

(* WriteBlock16; bitmaps and GL surfaces are even.  A block of two or three half
   words is done after three turns of the loop. *)
WriteBlock16 ==
    \E a \in {x \in At : x % 2 = 0}, bs \in {<<1, 2, 1, 2>>, <<1, 1, 2, 2, 2, 1>>} :
        LET done == BlockStep(BlockStep(BlockStep([p |-> pages, h |-> hooks, a |-> a, bs |-> bs])))
        IN  /\ Asks("write", a, bs)
            /\ pages' = done.p /\ hooks' = done.h
            /\ UNCHANGED <<bound, seed, saved>>

DoRead32 ==
    \E a \in At :
        /\ Asks("read", a, Read32(pages, a))
        /\ hooks' = HookedBytes(hooks, a, 4, OnMemRead)
        /\ UNCHANGED <<pages, bound, seed, saved>>

(* An instruction, from any address. *)
Exec ==
    \E pc \in At :
        /\ Asks("exec", pc, <<>>)
        /\ hooks' = OnExec(hooks, pc)
        /\ UNCHANGED <<pages, bound, seed, saved>>

(* The control channel's commands, and what the environment arms. *)
Command ==
    /\ Asks("command", 0, <<>>)
    /\ hooks' \in {AddBreakpoint(hooks, a) : a \in At} \cup {ClearBreakpoint(hooks, a) : a \in At}
                  \cup {AddWatchpoint(hooks, a, n, m) : a \in At, n \in {1, 2}, m \in {{"w"}, {"r", "w"}}}
                  \cup {ClearAll(hooks), ClearHit(hooks), EnableTrace(hooks, 0, 3, 1)}
                  \cup {EnableWriteWatchLog(hooks, a, 2) : a \in At}
    /\ UNCHANGED <<pages, bound, seed, saved>>

Serialize ==
    /\ Asks("save", 0, <<>>)
    /\ saved' = pages
    /\ UNCHANGED <<pages, bound, seed, hooks>>

(* A stream that ends early, or says what cannot be, changes nothing. *)
Deserialize ==
    /\ saved # Off
    /\ Asks("load", 0, <<>>)
    /\ pages' \in {saved, pages}
    /\ UNCHANGED <<bound, seed, saved, hooks>>

MemoryNext == DoWrite8 \/ DoWrite16 \/ DoWrite32 \/ WriteBlock16 \/ DoRead32 \/ Exec \/ Command
              \/ Serialize \/ Deserialize

MemorySpec == MemoryInit /\ [][MemoryNext]_memoryVars

MemoryTypeOK ==
    /\ DOMAIN pages \subseteq 0..(Top \div PageSize) - 1
    /\ \A q \in DOMAIN pages : pages[q] \in [0..PageSize - 1 -> 0..2]
    /\ \A a \in DOMAIN bound : bound[a] = Pointer
    /\ hooks.trace # Off => hooks.trace.count <= hooks.trace.limit

-----------------------------------------------------------------------------
Touched == {(asked.at + k - 1) % Top : k \in DOMAIN asked.bytes}

(* Memory at a after the bytes of the access x were put at its address. *)
Put(x, a) ==
    LET k == ((a - x.at) % Top) + 1 IN IF k \in DOMAIN x.bytes THEN x.bytes[k] ELSE Read8(pages, a)

(* A write puts its bytes where it was asked to, over a page's end too, and
   nothing anywhere else; what it may drop is a zero over a media pointer that is
   still there.  A read gives the word that is there (Memory::Write8 to
   WriteBlock16, Read32). *)
AccessLands ==
        CASE asked'.kind = "write" ->
                \/ \A a \in 0..Top - 1 : Read8(pages', a) = Put(asked', a)
                \/ asked'.bytes = Zero /\ Word(pages, asked'.at) = Pointer /\ pages' = pages
          [] asked'.kind = "read" ->
                \/ asked'.bytes = Word(pages, asked'.at)
                \/ seed # Off /\ seed.at = asked'.at /\ Word(pages, seed.at) = Zero
          [] OTHER -> TRUE

WritesLand == [][AccessLands]_memoryVars

Watched(w) == {a \in 0..Top - 1 : w.at <= a /\ a < w.at + w.len}

(* A watchpoint sees every access to a byte it covers, however wide the access
   and whichever path it took.  An access or a range that reaches the end of the
   address space is beyond the 32-bit test (DebugHooks::OnMemSlow). *)
AccessIsSeen ==
        \A w \in hooks.wps :
          \/ ~ (asked'.kind = "read" /\ "r" \in w.mode)
             /\ ~ (asked'.kind = "write" /\ "w" \in w.mode /\ pages' # pages)
          \/ w.at + w.len >= Top \/ asked'.at + Len(asked'.bytes) >= Top
          \/ Watched(w) \cap Touched' = {}
          \/ hooks'.hit

WatchpointsSee == [][AccessIsSeen]_memoryVars

-----------------------------------------------------------------------------
(* What the proofs need to know: the pages are whole, only a media pointer is bound
   or armed, and the hooks have their fields. *)

MemoryBounds ==
    /\ PageSize \in Nat \ {0} /\ PageSize % 2 = 0
    /\ Top \in Nat /\ Top >= 6 /\ Top % PageSize = 0
    /\ At \subseteq 0..Top - 1
    /\ Pointer \in Seq(Nat) /\ Len(Pointer) = 4
    /\ \A w \in Words : w \in Seq(Nat) /\ Len(w) = 4

PagesWhole(p) == \A q \in DOMAIN p : q \in Nat /\ p[q] \in [0..PageSize - 1 -> Nat]

HookFields == {"bps", "wps", "hit", "trace", "log", "pc"}

HooksWhole(h) ==
    /\ h = [f \in HookFields |-> h[f]]
    /\ h.hit \in BOOLEAN /\ \A w \in h.wps : w.at \in Nat /\ w.len \in Nat

MemoryInv ==
    /\ PagesWhole(pages) /\ HooksWhole(hooks)
    /\ saved # Off => PagesWhole(saved)
    /\ \A a \in DOMAIN bound : bound[a] = Pointer
    /\ seed # Off => seed.value = Pointer

-----------------------------------------------------------------------------
(* Proofs.  What a step of the memory keeps, for any memory, page size and   *)
(* addresses within the bounds of MemoryBounds.                             *)

(* A multiple of m and a rest below m. *)
LEMMA Euclid ==
    ASSUME NEW m \in Nat, m > 0, NEW k \in Nat, NEW o \in 0..m - 1
    PROVE  (m * k + o) \div m = k /\ (m * k + o) % m = o
<1> DEFINE n == m * k + o
           q == n \div m
           r == n % m
<1>1. m * k \in Nat
  OBVIOUS
<1>2. q \in Nat /\ r \in 0..m - 1 /\ n = m * q + r
  BY <1>1
<1> HIDE DEF q, r
<1>3. m * q \in Nat
  BY <1>2
<1>4. q = k
  <2>1. ASSUME q > k
        PROVE  FALSE
    <3>1. m * q >= m * (k + 1)
      BY <2>1, <1>2
    <3>2. m * (k + 1) = m * k + m
      OBVIOUS
    <3> QED
      BY <3>1, <3>2, <1>1, <1>2, <1>3
  <2>2. ASSUME q < k
        PROVE  FALSE
    <3>1. m * k >= m * (q + 1)
      BY <2>2, <1>2
    <3>2. m * (q + 1) = m * q + m
      BY <1>2
    <3> QED
      BY <3>1, <3>2, <1>1, <1>2, <1>3
  <2> QED
    BY <2>1, <2>2, <1>2
<1>5. r = o
  BY <1>1, <1>2, <1>4
<1> QED
  BY <1>4, <1>5 DEF q, r

LEMMA Whole ==
    ASSUME NEW w \in Nat, w > 0, NEW m \in Nat, m % w = 0
    PROVE  \E k \in Nat : m = w * k
<1> DEFINE k == m \div w
           r == m % w
<1>1. k \in Nat /\ r \in 0..w - 1 /\ m = w * k + r
  OBVIOUS
<1>2. r = 0
  OBVIOUS
<1> HIDE DEF k, r
<1>3. w * k \in Nat
  BY <1>1
<1>4. m = w * k
  BY <1>1, <1>2, <1>3
<1> QED
  BY <1>1, <1>4

(* An address is a page and an offset. *)
LEMMA Place ==
    ASSUME MemoryBounds, NEW a \in Nat
    PROVE  /\ Page(a) \in Nat /\ Offset(a) \in 0..PageSize - 1
           /\ a % Top \in 0..Top - 1 /\ a % Top = PageSize * Page(a) + Offset(a)
           /\ PageSize * Page(a) + PageSize <= Top
<1> USE DEF MemoryBounds
<1>0. PageSize \in Nat /\ PageSize > 0 /\ Top \in Nat /\ Top > 0
  OBVIOUS
<1>1. PICK n \in Nat : Top = PageSize * n
  BY <1>0, Whole
<1> DEFINE c == a % Top
           p == c \div PageSize
           o == c % PageSize
           t == a \div Top
<1>2. c \in 0..Top - 1 /\ t \in Nat /\ a = Top * t + c
  BY <1>0
<1>3. p \in Nat /\ o \in 0..PageSize - 1 /\ c = PageSize * p + o
  BY <1>0, <1>2
<1>4. Page(a) = p
  BY DEF Page
<1> HIDE DEF c, p, o, t, MemoryBounds
<1>5. a = PageSize * (n * t + p) + o
  <2>1. Top * t = PageSize * (n * t)
    BY <1>0, <1>1, <1>2
  <2>2. PageSize * (n * t + p) = PageSize * (n * t) + PageSize * p
    BY <1>0, <1>1, <1>2, <1>3
  <2>3. PageSize * (n * t) \in Nat /\ PageSize * p \in Nat
    BY <1>0, <1>1, <1>2, <1>3
  <2> QED
    BY <2>1, <2>2, <2>3, <1>2, <1>3
<1>6. n * t + p \in Nat
  BY <1>1, <1>2, <1>3
<1>7. a % PageSize = o
  BY <1>0, <1>3, <1>5, <1>6, Euclid
<1>8. PageSize * p + PageSize <= Top
  <2>1. p < n
    <3>1. SUFFICES ASSUME p >= n
                   PROVE  FALSE
      BY <1>1, <1>3
    <3>2. PageSize * p >= PageSize * n
      BY <3>1, <1>0, <1>1, <1>3
    <3> QED
      BY <3>2, <1>0, <1>1, <1>2, <1>3
  <2>2. PageSize * n >= PageSize * (p + 1)
    BY <2>1, <1>0, <1>1, <1>3
  <2>3. PageSize * (p + 1) = PageSize * p + PageSize
    BY <1>0, <1>3
  <2> QED
    BY <2>2, <2>3, <1>1
<1>9. Offset(a) = o /\ a % Top = c
  BY <1>7 DEF Offset, c
<1> QED
  BY <1>2, <1>3, <1>4, <1>8, <1>9

(* An address as the memory takes it, and where its page starts. *)
Cell(a) == a % Top

Start(a) == PageSize * Page(a)

LEMMA Cells ==
    ASSUME MemoryBounds, NEW a \in Nat
    PROVE  /\ Page(a) \in Nat /\ Offset(a) \in Nat /\ Offset(a) < PageSize
           /\ Cell(a) \in Nat /\ Cell(a) < Top /\ Cell(a) = Start(a) + Offset(a)
           /\ Start(a) \in Nat /\ Start(a) + PageSize <= Top
           /\ PageSize \in Nat /\ Top \in Nat /\ PageSize > 0 /\ Top >= 6
<1>1. PageSize \in Nat /\ Top \in Nat /\ PageSize > 0 /\ Top >= 6
  BY DEF MemoryBounds
<1>2. /\ Page(a) \in Nat /\ Offset(a) \in 0..PageSize - 1
      /\ Cell(a) \in 0..Top - 1 /\ Cell(a) = Start(a) + Offset(a)
      /\ Start(a) + PageSize <= Top
  BY Place DEF Cell, Start
<1>3. Start(a) \in Nat
  BY <1>1, <1>2 DEF Start
<1> QED
  BY <1>1, <1>2, <1>3

(* The page and offset tell the address. *)
LEMMA PlaceIs ==
    ASSUME MemoryBounds, NEW a \in Nat, NEW c \in Nat, NEW o \in Nat, o < PageSize,
           Cell(c) = Start(a) + o
    PROVE  Page(c) = Page(a) /\ Offset(c) = o
<1>1. /\ PageSize \in Nat /\ PageSize > 0 /\ Page(a) \in Nat /\ Page(c) \in Nat
      /\ Offset(c) \in 0..PageSize - 1 /\ Cell(c) = Start(c) + Offset(c)
  BY Cells
<1>2. /\ (PageSize * Page(c) + Offset(c)) \div PageSize = Page(c)
      /\ (PageSize * Page(c) + Offset(c)) % PageSize = Offset(c)
  BY <1>1, Euclid
<1>3. o \in 0..PageSize - 1
  BY <1>1
<1>4. (PageSize * Page(a) + o) \div PageSize = Page(a) /\ (PageSize * Page(a) + o) % PageSize = o
  BY <1>1, <1>3, Euclid
<1>5. PageSize * Page(c) + Offset(c) = PageSize * Page(a) + o
  BY <1>1 DEF Start
<1> QED
  BY <1>2, <1>4, <1>5

(* Bytes that stay within their page. *)
LEMMA SamePage ==
    ASSUME MemoryBounds, NEW a \in Nat, NEW c \in Nat, NEW n \in Nat, Offset(a) + n <= PageSize
    PROVE  (Page(c) = Page(a) /\ Offset(c) - Offset(a) \in 0..n - 1)
           <=> Cell(c) - Cell(a) \in 0..n - 1
<1>1. ASSUME Page(c) = Page(a), Offset(c) - Offset(a) \in 0..n - 1
      PROVE  Cell(c) - Cell(a) \in 0..n - 1
  <2>1. Start(c) = Start(a)
    BY <1>1 DEF Start
  <2> QED
    BY <2>1, <1>1, Cells
<1>2. ASSUME Cell(c) - Cell(a) \in 0..n - 1
      PROVE  Page(c) = Page(a) /\ Offset(c) - Offset(a) \in 0..n - 1
  <2>1. PICK j \in 0..n - 1 : Cell(c) - Cell(a) = j
    BY <1>2
  <2>2. Offset(a) + j \in Nat /\ Offset(a) + j < PageSize
    BY Cells
  <2>3. Cell(c) = Start(a) + (Offset(a) + j)
    BY <2>1, Cells
  <2>4. Page(c) = Page(a) /\ Offset(c) = Offset(a) + j
    BY <2>2, <2>3, PlaceIs
  <2> QED
    BY <2>1, <2>4, Cells
<1> QED
  BY <1>1, <1>2

(* The address as an access gives it: with the end of the space gone over or not. *)
LEMMA SamePlace ==
    ASSUME MemoryBounds, NEW a \in Nat, NEW c \in Nat, Cell(a) = Cell(c)
    PROVE  Page(c) = Page(a) /\ Offset(c) = Offset(a)
<1>1. Cell(c) = Start(a) + Offset(a)
  BY Cells
<1> QED
  BY <1>1, Cells, PlaceIs

-----------------------------------------------------------------------------
(* What is read after bytes were stored within a page. *)
LEMMA StoredReads ==
    ASSUME MemoryBounds, NEW p, PagesWhole(p), NEW a \in Nat, NEW bs \in Seq(Nat),
           Offset(a) + Len(bs) <= PageSize
    PROVE  /\ PagesWhole(Stored(p, a, bs))
           /\ \A c \in Nat :
                Read8(Stored(p, a, bs), c)
                  = IF Cell(c) - Cell(a) \in 0..Len(bs) - 1 THEN bs[Cell(c) - Cell(a) + 1]
                    ELSE Read8(p, c)
<1> DEFINE old == IF Page(a) \in DOMAIN p THEN p[Page(a)] ELSE EmptyPage
           new == [k \in DOMAIN old |->
                     IF k - Offset(a) + 1 \in DOMAIN bs THEN bs[k - Offset(a) + 1] ELSE old[k]]
           q == [x \in DOMAIN p \cup {Page(a)} |-> IF x = Page(a) THEN new ELSE p[x]]
<1>1. Stored(p, a, bs) = q
  BY DEF Stored
<1>2. old \in [0..PageSize - 1 -> Nat]
  <2>1. EmptyPage \in [0..PageSize - 1 -> Nat]
    BY DEF EmptyPage
  <2> QED
    BY <2>1 DEF PagesWhole
<1>3. DOMAIN bs = 1..Len(bs) /\ \A k \in 1..Len(bs) : bs[k] \in Nat
  OBVIOUS
<1> HIDE DEF old
<1>4. new \in [0..PageSize - 1 -> Nat]
  BY <1>2, <1>3
<1>5. PagesWhole(q)
  <2>1. Page(a) \in Nat
    BY Cells
  <2> HIDE DEF new
  <2> QED
    BY <2>1, <1>4 DEF PagesWhole
<1>6. ASSUME NEW c \in Nat
      PROVE  Read8(q, c) = IF Cell(c) - Cell(a) \in 0..Len(bs) - 1 THEN bs[Cell(c) - Cell(a) + 1]
                           ELSE Read8(p, c)
  <2>1. CASE Page(c) = Page(a)
    <3>1. Read8(q, c) = new[Offset(c)]
      <4> HIDE DEF new
      <4> QED
        BY <2>1 DEF Read8
    <3>2. Offset(c) \in 0..PageSize - 1 /\ Offset(c) \in DOMAIN old
      <4>0. Offset(c) \in Nat /\ Offset(c) < PageSize /\ PageSize \in Nat
        BY Cells
      <4>1. Offset(c) \in 0..PageSize - 1
        BY <4>0
      <4> QED
        BY <4>1, <1>2
    <3>3. new[Offset(c)] = IF Offset(c) - Offset(a) + 1 \in DOMAIN bs
                           THEN bs[Offset(c) - Offset(a) + 1] ELSE old[Offset(c)]
      BY <3>2
    <3>4. old[Offset(c)] = Read8(p, c)
      BY <2>1, <3>2 DEF old, Read8, EmptyPage
    <3>5. Cell(c) - Cell(a) = Offset(c) - Offset(a)
      <4>1. Start(c) = Start(a)
        BY <2>1 DEF Start
      <4> QED
        BY <4>1, Cells
    <3>6. Offset(c) - Offset(a) \in Int
      BY Cells
    <3>7. Offset(c) - Offset(a) + 1 \in DOMAIN bs <=> Offset(c) - Offset(a) \in 0..Len(bs) - 1
      BY <1>3, <3>6
    <3> HIDE DEF new, q
    <3> QED
      BY <3>1, <3>3, <3>4, <3>5, <3>7
  <2>2. CASE Page(c) # Page(a)
    <3>1. ~ (Cell(c) - Cell(a) \in 0..Len(bs) - 1)
      BY <2>2, SamePage
    <3>2. Read8(q, c) = Read8(p, c)
      <4> HIDE DEF new
      <4> QED
        BY <2>2 DEF Read8
    <3> QED
      BY <3>1, <3>2
  <2> QED
    BY <2>1, <2>2
<1> HIDE DEF q
<1> QED
  BY <1>1, <1>5, <1>6

(* The memory q is p with the bytes bs put at a. *)
Turn(x, a) == (x - a) % Top

Puts(q, p, a, bs) ==
    \A x \in 0..Top - 1 :
      Read8(q, x) = IF Turn(x, a) + 1 \in 1..Len(bs) THEN bs[Turn(x, a) + 1] ELSE Read8(p, x)

LEMMA Turns ==
    ASSUME MemoryBounds, NEW a \in Nat, NEW x \in 0..Top - 1
    PROVE  /\ Turn(x, a) \in Nat /\ Turn(x, a) < Top /\ Cell(x) = x
           /\ Turn(x, a) = IF Cell(a) <= x THEN x - Cell(a) ELSE x - Cell(a) + Top
<1>1. Top \in Nat /\ Top > 0
  BY DEF MemoryBounds
<1> DEFINE t == a \div Top
           c == a % Top
           d == IF c <= x THEN x - c ELSE x - c + Top
<1>2. t \in Nat /\ c \in 0..Top - 1 /\ a = Top * t + c
  BY <1>1
<1>3. Cell(a) = c
  BY DEF Cell
<1> HIDE DEF t, c
<1>4. d \in 0..Top - 1
  BY <1>1, <1>2
<1>5. (x - a) % Top = d
  <2> DEFINE q == (x - a) \div Top
             r == (x - a) % Top
  <2>1. x - a \in Int
    OBVIOUS
  <2>2. q \in Int /\ r \in 0..Top - 1 /\ x - a = Top * q + r
    BY <1>1, <2>1
  <2> HIDE DEF q, r
  <2>3. Top * t \in Nat /\ Top * q \in Int
    BY <1>1, <1>2, <2>2
  <2>4. Top * (q + t) = Top * q + Top * t
    BY <1>1, <1>2, <2>2
  <2>5. x - c = Top * (q + t) + r
    BY <1>1, <1>2, <2>2, <2>3, <2>4
  <2>6. q + t \in Int /\ q + t < 1 /\ q + t > -2
    <3>0. q + t \in Int
      BY <1>2, <2>2
    <3>1. ASSUME q + t >= 1
          PROVE  FALSE
      <4>1. Top * (q + t) >= Top * 1
        BY <3>0, <3>1, <1>1
      <4> QED
        BY <4>1, <2>5, <2>2, <1>1, <1>2, <2>3, <2>4
    <3>2. ASSUME q + t <= -2
          PROVE  FALSE
      <4>1. Top * (q + t) <= Top * (-2)
        BY <3>0, <3>2, <1>1
      <4> QED
        BY <4>1, <2>5, <2>2, <1>1, <1>2, <2>3, <2>4
    <3> QED
      BY <3>0, <3>1, <3>2
  <2>7. CASE q + t = 0
    <3>1. x - c = r
      BY <2>7, <2>5, <1>1, <2>2
    <3> QED
      BY <3>1, <1>1, <1>2, <2>2 DEF r
  <2>8. CASE q + t = -1
    <3>1. x - c = r - Top
      BY <2>8, <2>5, <1>1, <2>2
    <3> QED
      BY <3>1, <1>1, <1>2, <2>2 DEF r
  <2> QED
    BY <2>6, <2>7, <2>8
<1>6. Cell(x) = x
  BY <1>1 DEF Cell
<1> QED
  BY <1>3, <1>4, <1>5, <1>6, <1>1 DEF Turn

(* Going on from an address. *)
LEMMA CellAdds ==
    ASSUME MemoryBounds, NEW a \in Nat, NEW n \in Nat, n <= Top
    PROVE  Cell(a + n) = IF Cell(a) + n < Top THEN Cell(a) + n ELSE Cell(a) + n - Top
<1>1. Top \in Nat /\ Top > 0
  BY DEF MemoryBounds
<1> DEFINE t == a \div Top
           c == a % Top
<1>2. t \in Nat /\ c \in 0..Top - 1 /\ a = Top * t + c
  BY <1>1
<1>3. Cell(a) = c
  BY DEF Cell
<1> HIDE DEF t, c
<1>4. Top * t \in Nat /\ Top * (t + 1) = Top * t + Top
  BY <1>1, <1>2
<1>5. CASE c + n < Top
  <2>1. a + n = Top * t + (c + n) /\ c + n \in 0..Top - 1
    BY <1>1, <1>2, <1>4, <1>5
  <2>2. (Top * t + (c + n)) % Top = c + n
    BY <2>1, <1>1, <1>2, Euclid
  <2> QED
    BY <2>1, <2>2, <1>3, <1>5 DEF Cell
<1>6. CASE ~ (c + n < Top)
  <2>1. a + n = Top * (t + 1) + (c + n - Top) /\ c + n - Top \in 0..Top - 1
    BY <1>1, <1>2, <1>4, <1>6
  <2>2. (Top * (t + 1) + (c + n - Top)) % Top = c + n - Top
    <3>1. t + 1 \in Nat
      BY <1>2
    <3> QED
      BY <2>1, <3>1, <1>1, Euclid
  <2>3. (a + n) % Top = c + n - Top
    BY <2>1, <2>2
  <2> QED
    BY <2>3, <1>3, <1>6 DEF Cell
<1> QED
  BY <1>5, <1>6

(* Bytes stored within a page are put. *)
LEMMA StoredPuts ==
    ASSUME MemoryBounds, NEW p, PagesWhole(p), NEW a \in Nat, NEW bs \in Seq(Nat),
           Offset(a) + Len(bs) <= PageSize
    PROVE  PagesWhole(Stored(p, a, bs)) /\ Puts(Stored(p, a, bs), p, a, bs)
<1>1. PagesWhole(Stored(p, a, bs))
  BY StoredReads
<1>2. ASSUME NEW x \in 0..Top - 1
      PROVE  Read8(Stored(p, a, bs), x)
               = IF Turn(x, a) + 1 \in 1..Len(bs) THEN bs[Turn(x, a) + 1] ELSE Read8(p, x)
  <2>1. x \in Nat
    OBVIOUS
  <2>2. Read8(Stored(p, a, bs), x)
          = IF Cell(x) - Cell(a) \in 0..Len(bs) - 1 THEN bs[Cell(x) - Cell(a) + 1] ELSE Read8(p, x)
    BY <2>1, StoredReads
  <2>3. /\ Turn(x, a) \in Nat /\ Cell(x) = x
        /\ Turn(x, a) = IF Cell(a) <= x THEN x - Cell(a) ELSE x - Cell(a) + Top
    BY Turns
  <2>4. /\ Cell(a) \in Nat /\ Offset(a) \in Nat /\ Start(a) \in Nat /\ Cell(a) = Start(a) + Offset(a)
        /\ Start(a) + PageSize <= Top /\ PageSize \in Nat /\ Top \in Nat
    BY Cells
  <2>5. Len(bs) \in Nat
    OBVIOUS
  <2>6. Cell(a) + Len(bs) <= Top
    BY <2>4, <2>5
  <2>7. CASE Cell(a) <= x
    <3>1. Turn(x, a) = Cell(x) - Cell(a)
      BY <2>3, <2>7
    <3> QED
      BY <2>2, <2>3, <2>5, <3>1
  <2>8. CASE ~ (Cell(a) <= x)
    <3>1. Turn(x, a) = x - Cell(a) + Top /\ x - Cell(a) < 0
      BY <2>3, <2>4, <2>8, <2>1
    <3>2. ~ (Cell(x) - Cell(a) \in 0..Len(bs) - 1)
      BY <2>3, <3>1
    <3>3. ~ (Turn(x, a) + 1 \in 1..Len(bs))
      <4>1. PICK n \in Nat : n = Len(bs)
        BY <2>5
      <4>2. PICK c \in Nat : c = Cell(a)
        BY <2>4
      <4>3. PICK t \in Nat : t = Turn(x, a)
        BY <2>3
      <4>4. c + n <= Top /\ t = x - c + Top
        BY <2>6, <3>1, <4>1, <4>2, <4>3
      <4> QED
        BY <4>1, <4>3, <4>4, <2>1, <2>4
    <3> QED
      BY <2>2, <3>2, <3>3
  <2> QED
    BY <2>7, <2>8
<1> QED
  BY <1>1, <1>2 DEF Puts

LEMMA TurnsOn ==
    ASSUME NEW top \in Nat, NEW n \in Nat, n <= top, NEW x \in Nat, x < top,
           NEW c \in Nat, c < top, NEW e \in Nat, e < top, NEW t, NEW u,
           t = IF c <= x THEN x - c ELSE x - c + top,
           u = IF e <= x THEN x - e ELSE x - e + top,
           e = IF c + n < top THEN c + n ELSE c + n - top
    PROVE  u = IF t >= n THEN t - n ELSE t - n + top
<1>1. CASE c + n < top
  <2>1. CASE c + n <= x
    BY <1>1, <2>1
  <2>2. CASE c <= x /\ x < c + n
    BY <1>1, <2>2
  <2>3. CASE x < c
    BY <1>1, <2>3
  <2> QED
    BY <2>1, <2>2, <2>3
<1>2. CASE c + n >= top
  <2>1. CASE c <= x
    BY <1>2, <2>1
  <2>2. CASE x < c /\ c + n - top <= x
    BY <1>2, <2>2
  <2>3. CASE x < c /\ x < c + n - top
    BY <1>2, <2>3
  <2> QED
    BY <2>1, <2>2, <2>3
<1> QED
  BY <1>1, <1>2

(* One piece of the bytes after another. *)
LEMMA PutsJoin ==
    ASSUME MemoryBounds, NEW p, NEW q, NEW r, NEW a \in Nat, NEW e \in Nat,
           NEW bs \in Seq(Nat), NEW cs \in Seq(Nat),
           Len(bs) + Len(cs) <= Top, Cell(e) = Cell(a + Len(bs)),
           Puts(q, p, a, bs), Puts(r, q, e, cs)
    PROVE  Puts(r, p, a, bs \o cs)
<1>1. /\ Len(bs \o cs) = Len(bs) + Len(cs) /\ Len(bs) \in Nat /\ Len(cs) \in Nat
      /\ \A k \in 1..Len(bs) : (bs \o cs)[k] = bs[k]
      /\ \A k \in 1..Len(cs) : (bs \o cs)[Len(bs) + k] = cs[k]
  OBVIOUS
<1>2. SUFFICES ASSUME NEW x \in 0..Top - 1
               PROVE  Read8(r, x) = IF Turn(x, a) + 1 \in 1..Len(bs \o cs) THEN (bs \o cs)[Turn(x, a) + 1]
                                    ELSE Read8(p, x)
  BY DEF Puts
<1>3. Read8(q, x) = IF Turn(x, a) + 1 \in 1..Len(bs) THEN bs[Turn(x, a) + 1] ELSE Read8(p, x)
  BY DEF Puts
<1>4. Read8(r, x) = IF Turn(x, e) + 1 \in 1..Len(cs) THEN cs[Turn(x, e) + 1] ELSE Read8(q, x)
  BY DEF Puts
<1>5. /\ Turn(x, a) \in Nat /\ Turn(x, a) < Top
      /\ Turn(x, a) = IF Cell(a) <= x THEN x - Cell(a) ELSE x - Cell(a) + Top
  BY Turns
<1>6. /\ Turn(x, e) \in Nat /\ Turn(x, e) < Top
      /\ Turn(x, e) = IF Cell(e) <= x THEN x - Cell(e) ELSE x - Cell(e) + Top
  BY Turns
<1>7. /\ Cell(a) \in Nat /\ Cell(a) < Top /\ Cell(e) \in Nat /\ Cell(e) < Top /\ Top \in Nat
  BY Cells
<1>8. Cell(e) = IF Cell(a) + Len(bs) < Top THEN Cell(a) + Len(bs) ELSE Cell(a) + Len(bs) - Top
  BY <1>1, <1>7, CellAdds
<1>9. Turn(x, e) = IF Turn(x, a) >= Len(bs) THEN Turn(x, a) - Len(bs) ELSE Turn(x, a) - Len(bs) + Top
  <2>1. Len(bs) <= Top /\ x \in Nat /\ x < Top /\ Len(bs) \in Nat
    BY <1>1, <1>7
  <2>2. /\ Turn(x, a) = IF Cell(a) <= x THEN x - Cell(a) ELSE x - Cell(a) + Top
        /\ Turn(x, e) = IF Cell(e) <= x THEN x - Cell(e) ELSE x - Cell(e) + Top
        /\ Top \in Nat /\ Cell(a) \in Nat /\ Cell(a) < Top /\ Cell(e) \in Nat /\ Cell(e) < Top
    BY <1>5, <1>6, <1>7
  <2>3. PICK n \in Nat : n = Len(bs)
    BY <2>1
  <2>4. PICK c \in Nat : c = Cell(a)
    BY <2>2
  <2>5. PICK f \in Nat : f = Cell(e)
    BY <2>2
  <2>6. PICK t : t = Turn(x, a)
    OBVIOUS
  <2>7. PICK u : u = Turn(x, e)
    OBVIOUS
  <2>8. /\ t = IF c <= x THEN x - c ELSE x - c + Top
        /\ u = IF f <= x THEN x - f ELSE x - f + Top
        /\ f = IF c + n < Top THEN c + n ELSE c + n - Top
    BY <2>2, <2>3, <2>4, <2>5, <2>6, <2>7, <1>8
  <2>9. n <= Top /\ x \in Nat /\ x < Top /\ c < Top /\ f < Top /\ Top \in Nat
    BY <2>1, <2>2, <2>3, <2>4, <2>5
  <2>10. u = IF t >= n THEN t - n ELSE t - n + Top
    BY <2>8, <2>9, TurnsOn
  <2> QED
    BY <2>3, <2>6, <2>7, <2>10
<1>10. CASE Turn(x, a) + 1 \in 1..Len(bs)
  <2>1. Turn(x, e) = Turn(x, a) - Len(bs) + Top
    BY <1>1, <1>5, <1>9, <1>10
  <2>2. ~ (Turn(x, e) + 1 \in 1..Len(cs))
    <3>1. PICK n \in Nat : n = Len(bs)
      BY <1>1
    <3>2. PICK m \in Nat : m = Len(cs)
      BY <1>1
    <3>3. PICK t \in Nat : t = Turn(x, a)
      BY <1>5
    <3>4. n + m <= Top /\ Turn(x, e) = t - n + Top
      BY <2>1, <3>1, <3>2, <3>3
    <3> QED
      BY <3>2, <3>4, <1>7
  <2>3. Turn(x, a) + 1 \in 1..Len(bs \o cs)
    BY <1>1, <1>5, <1>10
  <2> QED
    BY <2>2, <2>3, <1>1, <1>3, <1>4, <1>10
<1>11. CASE Turn(x, a) >= Len(bs) /\ Turn(x, a) < Len(bs) + Len(cs)
  <2>1. Turn(x, e) = Turn(x, a) - Len(bs)
    BY <1>9, <1>11
  <2>2. Turn(x, e) + 1 \in 1..Len(cs) /\ Turn(x, a) + 1 = Len(bs) + (Turn(x, e) + 1)
    BY <2>1, <1>1, <1>5, <1>11
  <2>3. Turn(x, a) + 1 \in 1..Len(bs \o cs)
    BY <1>1, <1>5, <1>11
  <2>4. (bs \o cs)[Turn(x, a) + 1] = cs[Turn(x, e) + 1]
    <3>1. PICK k \in 1..Len(cs) : k = Turn(x, e) + 1
      BY <2>2
    <3>2. (bs \o cs)[Len(bs) + k] = cs[k]
      BY <1>1
    <3> QED
      BY <2>2, <3>1, <3>2
  <2> QED
    BY <2>2, <2>3, <2>4, <1>4
<1>12. CASE Turn(x, a) >= Len(bs) + Len(cs)
  <2>1. Turn(x, e) = Turn(x, a) - Len(bs)
    BY <1>1, <1>5, <1>9, <1>12
  <2>2. ~ (Turn(x, e) + 1 \in 1..Len(cs)) /\ ~ (Turn(x, a) + 1 \in 1..Len(bs))
    BY <2>1, <1>1, <1>5, <1>12
  <2>3. ~ (Turn(x, a) + 1 \in 1..Len(bs \o cs))
    BY <1>1, <1>5, <1>12
  <2> QED
    BY <2>2, <2>3, <1>3, <1>4
<1> QED
  BY <1>1, <1>5, <1>10, <1>11, <1>12

-----------------------------------------------------------------------------
(* Every way of writing puts the bytes. *)
Written(q, p, a, bs) == PagesWhole(q) /\ Puts(q, p, a, bs)

LEMMA Write8Puts ==
    ASSUME MemoryBounds, NEW p, PagesWhole(p), NEW a \in Nat, NEW b \in Nat
    PROVE  Written(Write8(p, a, b), p, a, <<b>>)
<1>1. <<b>> \in Seq(Nat) /\ Len(<<b>>) = 1
  OBVIOUS
<1>2. Offset(a) + Len(<<b>>) <= PageSize
  <2>1. Offset(a) \in Nat /\ Offset(a) < PageSize /\ PageSize \in Nat
    BY Cells
  <2> QED
    BY <1>1, <2>1
<1> QED
  BY <1>1, <1>2, StoredPuts DEF Write8, Written

LEMMA FourElems ==
    ASSUME NEW S, NEW s \in Seq(S), Len(s) = 4
    PROVE  s = [k \in 1..4 |-> s[k]]
OBVIOUS

LEMMA FourAt ==
    ASSUME NEW f \in Seq(Nat), NEW o \in Nat, o + 4 <= Len(f)
    PROVE  SubSeq(f, o + 1, o + 4) = <<f[o + 1], f[o + 2], f[o + 3], f[o + 4]>>
<1> DEFINE s == SubSeq(f, o + 1, o + 4)
           t == <<f[o + 1], f[o + 2], f[o + 3], f[o + 4]>>
<1>1. Len(f) \in Nat /\ o + 1 \in 1..Len(f) /\ o + 4 \in 1..Len(f)
  OBVIOUS
<1>2. s \in Seq(Nat) /\ Len(s) = 4 /\ \A k \in 1..4 : s[k] = f[o + k]
  BY <1>1
<1>3. f[o + 1] \in Nat /\ f[o + 2] \in Nat /\ f[o + 3] \in Nat /\ f[o + 4] \in Nat
  <2>1. \A k \in 1..Len(f) : f[k] \in Nat
    OBVIOUS
  <2>2. o + 2 \in 1..Len(f) /\ o + 3 \in 1..Len(f)
    BY <1>1
  <2> QED
    BY <1>1, <2>1, <2>2
<1>4. t \in Seq(Nat) /\ Len(t) = 4
  BY <1>3
<1>5. t[1] = f[o + 1] /\ t[2] = f[o + 2] /\ t[3] = f[o + 3] /\ t[4] = f[o + 4]
  OBVIOUS
<1> HIDE DEF s, t
<1>6. \A k \in 1..4 : s[k] = t[k]
  <2> TAKE k \in 1..4
  <2>1. k = 1 \/ k = 2 \/ k = 3 \/ k = 4
    OBVIOUS
  <2> QED
    BY <2>1, <1>2, <1>5
<1>7. s = t
  <2>1. s = [k \in 1..4 |-> s[k]] /\ t = [k \in 1..4 |-> t[k]]
    BY <1>2, <1>4, FourElems
  <2> QED
    BY <2>1, <1>6
<1> QED
  BY <1>7 DEF s, t

(* The first n of the bytes are put. *)
WrittenTo(q, p, a, bs, n) ==
    /\ PagesWhole(q)
    /\ \A x \in 0..Top - 1 :
         Read8(q, x) = IF Turn(x, a) + 1 \in 1..n THEN bs[Turn(x, a) + 1] ELSE Read8(p, x)

LEMMA WrittenAll ==
    ASSUME NEW p, NEW q, NEW a, NEW bs
    PROVE  Written(q, p, a, bs) <=> WrittenTo(q, p, a, bs, Len(bs))
BY DEF Written, WrittenTo, Puts

(* One byte more. *)
LEMMA ByteMore ==
    ASSUME MemoryBounds, NEW p, NEW q, NEW a \in Nat, NEW bs \in Seq(Nat), NEW n \in 0..3,
           n < Len(bs), WrittenTo(q, p, a, bs, n)
    PROVE  WrittenTo(Write8(q, a + n, bs[n + 1]), p, a, bs, n + 1)
<1> DEFINE r == Write8(q, a + n, bs[n + 1])
<1>1. n \in Nat /\ a + n \in Nat /\ bs[n + 1] \in Nat
  <2>1. Len(bs) \in Nat /\ n + 1 \in 1..Len(bs)
    OBVIOUS
  <2> QED
    BY <2>1
<1>2. PagesWhole(q)
  BY DEF WrittenTo
<1>3. PagesWhole(r) /\ Puts(r, q, a + n, <<bs[n + 1]>>)
  BY <1>1, <1>2, Write8Puts DEF Written
<1> HIDE DEF r
<1>4. ASSUME NEW x \in 0..Top - 1
      PROVE  Read8(r, x) = IF Turn(x, a) + 1 \in 1..n + 1 THEN bs[Turn(x, a) + 1] ELSE Read8(p, x)
  <2>1. Read8(r, x) = IF Turn(x, a + n) = 0 THEN bs[n + 1] ELSE Read8(q, x)
    <3>1. Read8(r, x) = IF Turn(x, a + n) + 1 \in 1..Len(<<bs[n + 1]>>)
                        THEN <<bs[n + 1]>>[Turn(x, a + n) + 1] ELSE Read8(q, x)
      BY <1>3 DEF Puts
    <3>2. Turn(x, a + n) \in Nat
      BY <1>1, Turns
    <3>3. Len(<<bs[n + 1]>>) = 1 /\ <<bs[n + 1]>>[1] = bs[n + 1]
      OBVIOUS
    <3>4. Turn(x, a + n) + 1 \in 1..1 <=> Turn(x, a + n) = 0
      BY <3>2
    <3> QED
      BY <3>1, <3>3, <3>4
  <2>2. Read8(q, x) = IF Turn(x, a) + 1 \in 1..n THEN bs[Turn(x, a) + 1] ELSE Read8(p, x)
    BY DEF WrittenTo
  <2>3. Turn(x, a) \in Nat /\ Turn(x, a) < Top
    BY Turns
  <2>4. Turn(x, a + n) = 0 <=> Turn(x, a) = n
    <3>1. PICK c \in Nat : c = Cell(a)
      BY Cells
    <3>2. PICK e \in Nat : e = Cell(a + n)
      BY <1>1, Cells
    <3>3. c < Top /\ e < Top /\ Top \in Nat /\ Top >= 6
      BY <1>1, <3>1, <3>2, Cells
    <3>4. e = IF c + n < Top THEN c + n ELSE c + n - Top
      <4>1. n <= Top
        BY <3>3
      <4> QED
        BY <1>1, <3>1, <3>2, <4>1, CellAdds
    <3>5. Turn(x, a) = IF c <= x THEN x - c ELSE x - c + Top
      BY <3>1, Turns
    <3>6. Turn(x, a + n) = IF e <= x THEN x - e ELSE x - e + Top
      BY <3>2, <1>1, Turns
    <3> QED
      BY <3>3, <3>4, <3>5, <3>6
  <2>5. CASE Turn(x, a) = n
    BY <2>1, <2>3, <2>4, <2>5, <1>1
  <2>6. CASE Turn(x, a) # n
    <3>1. Turn(x, a) + 1 \in 1..n + 1 <=> Turn(x, a) + 1 \in 1..n
      BY <2>3, <2>6, <1>1
    <3> QED
      BY <3>1, <2>1, <2>2, <2>4, <2>6
  <2> QED
    BY <2>5, <2>6
<1> QED
  BY <1>3, <1>4 DEF WrittenTo, r

(* No byte yet. *)
LEMMA NoneYet ==
    ASSUME NEW p, PagesWhole(p), NEW a, NEW bs
    PROVE  WrittenTo(p, p, a, bs, 0)
<1>1. 1..0 = {}
  OBVIOUS
<1> QED
  BY <1>1 DEF WrittenTo

LEMMA Write16Puts ==
    ASSUME MemoryBounds, NEW p, PagesWhole(p), NEW a \in Nat, NEW bs \in Seq(Nat), Len(bs) = 2
    PROVE  Written(Write16(p, a, bs), p, a, bs)
<1>0. Offset(a) \in Nat /\ PageSize \in Nat
  BY Cells
<1>1. CASE Offset(a) <= PageSize - 2
  <2>1. Offset(a) + Len(bs) <= PageSize
    BY <1>0, <1>1
  <2> QED
    BY <1>1, <2>1, StoredPuts DEF Write16, Written
<1>2. CASE ~ (Offset(a) <= PageSize - 2)
  <2>1. WrittenTo(p, p, a, bs, 0)
    BY NoneYet
  <2>2. WrittenTo(Write8(p, a + 0, bs[0 + 1]), p, a, bs, 0 + 1)
    <3>1. 0 \in 0..3 /\ 0 < Len(bs)
      OBVIOUS
    <3> QED
      BY <2>1, <3>1, ByteMore
  <2> DEFINE q == Write8(p, a, bs[1])
  <2>3. WrittenTo(q, p, a, bs, 1)
    BY <2>2
  <2> HIDE DEF q
  <2>4. WrittenTo(Write8(q, a + 1, bs[1 + 1]), p, a, bs, 1 + 1)
    <3>1. 1 \in 0..3 /\ 1 < Len(bs)
      OBVIOUS
    <3> QED
      BY <2>3, <3>1, ByteMore
  <2>5. Write16(p, a, bs) = Write8(q, a + 1, bs[2])
    BY <1>2 DEF Write16, q
  <2>6. WrittenTo(Write16(p, a, bs), p, a, bs, Len(bs))
    <3>1. 1 + 1 = 2
      OBVIOUS
    <3> QED
      BY <2>4, <2>5, <3>1
  <2> QED
    BY <2>6, WrittenAll, Zenon
<1> QED
  BY <1>1, <1>2

LEMMA Write32Puts ==
    ASSUME MemoryBounds, NEW p, PagesWhole(p), NEW a \in Nat, NEW bs \in Seq(Nat), Len(bs) = 4
    PROVE  Written(Write32Bytes(p, a, bs), p, a, bs)
<1>0. Offset(a) \in Nat /\ PageSize \in Nat
  BY Cells
<1>1. CASE Offset(a) <= PageSize - 4
  <2>1. Offset(a) + Len(bs) <= PageSize
    BY <1>0, <1>1
  <2> QED
    BY <1>1, <2>1, StoredPuts DEF Write32Bytes, Written
<1>2. CASE ~ (Offset(a) <= PageSize - 4)
  <2>1. WrittenTo(p, p, a, bs, 0)
    BY NoneYet
  <2>2. WrittenTo(Write8(p, a + 0, bs[0 + 1]), p, a, bs, 0 + 1)
    <3>1. 0 \in 0..3 /\ 0 < Len(bs)
      OBVIOUS
    <3> QED
      BY <2>1, <3>1, ByteMore
  <2> DEFINE q == Write8(p, a, bs[1])
             r == Write8(q, a + 1, bs[2])
             s == Write8(r, a + 2, bs[3])
  <2>3. WrittenTo(q, p, a, bs, 1)
    BY <2>2
  <2>4. Write32Bytes(p, a, bs) = Write8(s, a + 3, bs[4])
    BY <1>2 DEF Write32Bytes
  <2> HIDE DEF q
  <2>5. WrittenTo(Write8(q, a + 1, bs[1 + 1]), p, a, bs, 1 + 1)
    <3>1. 1 \in 0..3 /\ 1 < Len(bs)
      OBVIOUS
    <3> QED
      BY <2>3, <3>1, ByteMore
  <2>6. WrittenTo(r, p, a, bs, 2)
    BY <2>5
  <2> HIDE DEF r
  <2>7. WrittenTo(Write8(r, a + 2, bs[2 + 1]), p, a, bs, 2 + 1)
    <3>1. 2 \in 0..3 /\ 2 < Len(bs)
      OBVIOUS
    <3> QED
      BY <2>6, <3>1, ByteMore
  <2>8. WrittenTo(s, p, a, bs, 3)
    BY <2>7
  <2> HIDE DEF s
  <2>9. WrittenTo(Write8(s, a + 3, bs[3 + 1]), p, a, bs, 3 + 1)
    <3>1. 3 \in 0..3 /\ 3 < Len(bs)
      OBVIOUS
    <3> QED
      BY <2>8, <3>1, ByteMore
  <2>10. WrittenTo(Write32Bytes(p, a, bs), p, a, bs, Len(bs))
    <3>1. 3 + 1 = 4
      OBVIOUS
    <3> QED
      BY <2>4, <2>9, <3>1
  <2> QED
    BY <2>10, WrittenAll, Zenon
<1> QED
  BY <1>1, <1>2

-----------------------------------------------------------------------------
(* What is read. *)
LEMMA ReadsWord ==
    ASSUME MemoryBounds, MemoryInv, NEW a \in Nat
    PROVE  \/ Read32(pages, a) = Word(pages, a)
           \/ /\ Read32(pages, a) = Pointer /\ Word(pages, a) = Zero
              /\ seed # Off /\ seed.at = a
<1> DEFINE w == IF Offset(a) > PageSize - 4 THEN Word(pages, a)
                ELSE IF Page(a) \in DOMAIN pages
                     THEN SubSeq([k \in 1..PageSize |-> pages[Page(a)][k - 1]], Offset(a) + 1, Offset(a) + 4)
                ELSE Zero
<1>1. Read32(pages, a) = IF seed # Off /\ seed.at = a /\ w = Zero THEN seed.value ELSE w
  BY DEF Read32
<1>2. w = Word(pages, a)
  <2>1. CASE ~ (Offset(a) > PageSize - 4)
    <3>1. ASSUME NEW j \in 0..3
          PROVE  Page(a + j) = Page(a) /\ Offset(a + j) = Offset(a) + j
      <4>1. /\ Cell(a) = Start(a) + Offset(a) /\ Offset(a) \in Nat /\ Start(a) \in Nat
            /\ Start(a) + PageSize <= Top /\ PageSize \in Nat /\ Top \in Nat /\ Top >= 6
        BY Cells
      <4>2. Cell(a + j) = IF Cell(a) + j < Top THEN Cell(a) + j ELSE Cell(a) + j - Top
        BY <4>1, CellAdds
      <4>3. Cell(a + j) = Start(a) + (Offset(a) + j) /\ Offset(a) + j < PageSize
        BY <4>1, <4>2, <2>1
      <4> QED
        BY <4>1, <4>3, PlaceIs
    <3>2. Page(a + 0) = Page(a) /\ Offset(a + 0) = Offset(a) /\ a + 0 = a
      OBVIOUS
    <3>3. /\ Page(a + 1) = Page(a) /\ Offset(a + 1) = Offset(a) + 1
          /\ Page(a + 2) = Page(a) /\ Offset(a + 2) = Offset(a) + 2
          /\ Page(a + 3) = Page(a) /\ Offset(a + 3) = Offset(a) + 3
      BY <3>1
    <3>4. CASE Page(a) \in DOMAIN pages
      <4> DEFINE f == [k \in 1..PageSize |-> pages[Page(a)][k - 1]]
      <4>1. w = SubSeq(f, Offset(a) + 1, Offset(a) + 4)
        BY <2>1, <3>4
      <4>2. Offset(a) \in Nat /\ PageSize \in Nat /\ Offset(a) + 4 <= PageSize
        BY <2>1, Cells
      <4>3. f \in Seq(Nat) /\ Len(f) = PageSize
        BY <4>2, <3>4 DEF MemoryInv, PagesWhole
      <4>4. /\ f[Offset(a) + 1] = Read8(pages, a) /\ f[Offset(a) + 2] = Read8(pages, a + 1)
            /\ f[Offset(a) + 3] = Read8(pages, a + 2) /\ f[Offset(a) + 4] = Read8(pages, a + 3)
        <5>1. \A j \in 0..3 : f[Offset(a) + j + 1] = pages[Page(a)][Offset(a) + j]
          <6>1. PICK o \in Nat : o = Offset(a)
            BY <4>2
          <6>2. \A j \in 0..3 : o + j + 1 \in 1..PageSize /\ (o + j + 1) - 1 = o + j
            BY <4>2, <6>1
          <6>3. \A k \in 1..PageSize : f[k] = pages[Page(a)][k - 1]
            OBVIOUS
          <6> HIDE DEF f
          <6>4. \A j \in 0..3 : f[o + j + 1] = pages[Page(a)][(o + j + 1) - 1]
            BY <6>2, <6>3
          <6>5. \A j \in 0..3 : f[o + j + 1] = pages[Page(a)][o + j]
            BY <6>2, <6>4
          <6> QED
            BY <6>1, <6>5
        <5> HIDE DEF f
        <5>2. /\ f[Offset(a) + 1] = pages[Page(a)][Offset(a)]
              /\ f[Offset(a) + 2] = pages[Page(a)][Offset(a) + 1]
              /\ f[Offset(a) + 3] = pages[Page(a)][Offset(a) + 2]
              /\ f[Offset(a) + 4] = pages[Page(a)][Offset(a) + 3]
          <6>1. \A j \in 0..3 : Offset(a) + j + 1 = Offset(a) + (j + 1) /\ Offset(a) + 0 = Offset(a)
            BY <4>2
          <6> QED
            BY <5>1, <6>1
        <5> QED
          BY <5>2, <3>3, <3>4 DEF Read8
      <4> HIDE DEF f
      <4>5. PICK o \in Nat : o = Offset(a)
        BY <4>2
      <4>6. SubSeq(f, o + 1, o + 4) = <<f[o + 1], f[o + 2], f[o + 3], f[o + 4]>>
        BY <4>2, <4>3, <4>5, FourAt
      <4> QED
        BY <4>1, <4>4, <4>5, <4>6 DEF Word
    <3>5. CASE ~ (Page(a) \in DOMAIN pages)
      <4>1. /\ Read8(pages, a) = 0 /\ Read8(pages, a + 1) = 0
            /\ Read8(pages, a + 2) = 0 /\ Read8(pages, a + 3) = 0
        BY <3>3, <3>5 DEF Read8
      <4> QED
        BY <4>1, <2>1, <3>5 DEF Word, Zero
    <3> QED
      BY <3>4, <3>5
  <2> QED
    BY <2>1
<1> HIDE DEF w
<1> QED
  BY <1>1, <1>2 DEF MemoryInv

(* A zero that is not written for a seeded pointer is there already. *)
LEMMA ZeroIsThere ==
    ASSUME MemoryBounds, NEW p, NEW a \in Nat, Word(p, a) = Zero
    PROVE  Puts(p, p, a, Zero)
<1>1. Len(Zero) = 4 /\ \A k \in 1..4 : Zero[k] = 0
  BY DEF Zero
<1>2. /\ Read8(p, a) = 0 /\ Read8(p, a + 1) = 0
      /\ Read8(p, a + 2) = 0 /\ Read8(p, a + 3) = 0
  BY DEF Word, Zero
<1>3. SUFFICES ASSUME NEW x \in 0..Top - 1, Turn(x, a) + 1 \in 1..4
               PROVE  Read8(p, x) = 0
  BY <1>1 DEF Puts
<1>4. PICK j \in 0..3 : Turn(x, a) = j
  <2>1. Turn(x, a) \in Nat
    BY Turns
  <2> QED
    BY <2>1, <1>3
<1>5. /\ Cell(a) \in Nat /\ Cell(a) < Top /\ Top \in Nat /\ Top >= 6
      /\ Turn(x, a) = IF Cell(a) <= x THEN x - Cell(a) ELSE x - Cell(a) + Top
      /\ Cell(x) = x
  BY Cells, Turns
<1>6. Cell(a + j) = IF Cell(a) + j < Top THEN Cell(a) + j ELSE Cell(a) + j - Top
  BY <1>5, CellAdds
<1>7. Cell(a + j) = x
  BY <1>4, <1>5, <1>6
<1>8. Page(a + j) = Page(x) /\ Offset(a + j) = Offset(x)
  BY <1>5, <1>7, SamePlace
<1>9. Read8(p, a + j) = 0
  <2>1. a + 0 = a
    OBVIOUS
  <2> QED
    BY <2>1, <1>2
<1> QED
  BY <1>8, <1>9 DEF Read8

-----------------------------------------------------------------------------
(* Blocks: half words, from an even address. *)
Even(m) == \E k \in Nat : m = 2 * k

LEMMA EvenIs ==
    ASSUME NEW m \in Nat
    PROVE  Even(m) <=> m % 2 = 0
BY DEF Even

LEMMA EvenPages ==
    ASSUME MemoryBounds, NEW a \in Nat
    PROVE  Even(Start(a)) /\ Even(PageSize) /\ Even(Top)
<1>1. PageSize \in Nat /\ PageSize > 0 /\ Top \in Nat /\ PageSize % 2 = 0 /\ Top % PageSize = 0
      /\ Page(a) \in Nat
  BY Cells DEF MemoryBounds
<1>2. PICK j \in Nat : PageSize = 2 * j
  BY <1>1
<1>3. PICK n \in Nat : Top = PageSize * n
  BY <1>1, Whole
<1>4. Start(a) = 2 * (j * Page(a)) /\ Top = 2 * (j * n)
  BY <1>1, <1>2, <1>3 DEF Start
<1>5. j * Page(a) \in Nat /\ j * n \in Nat
  BY <1>1, <1>2, <1>3
<1> QED
  BY <1>2, <1>4, <1>5 DEF Even

LEMMA Halves ==
    ASSUME NEW i \in Nat, NEW j \in Nat, NEW m \in Nat, NEW o \in Nat, 2 * i = 2 * j + o, o < 2 * m
    PROVE  o = 2 * (i - j) /\ 2 * m - o = 2 * (m - i + j) /\ m - i + j > 0
<1>1. o = 2 * (i - j)
  OBVIOUS
<1>2. i - j < m
  BY <1>1
<1> QED
  BY <1>1, <1>2

(* How many bytes of a block one turn of the loop takes. *)
Taken(a, bs) == 2 * Min2(Len(bs) \div 2, (PageSize - Offset(a)) \div 2)

LEMMA TakenIs ==
    ASSUME MemoryBounds, NEW a \in Nat, NEW bs \in Seq(Nat), Even(Cell(a)), Even(Len(bs)), bs # <<>>
    PROVE  /\ Taken(a, bs) \in Nat /\ Taken(a, bs) >= 2 /\ Even(Taken(a, bs))
           /\ Taken(a, bs) <= Len(bs) /\ Offset(a) + Taken(a, bs) <= PageSize
           /\ Even(Len(bs) - Taken(a, bs)) /\ Even(Cell(a + Taken(a, bs)))
<1>1. PICK x \in Nat : Len(bs) = 2 * x
  BY DEF Even
<1>2. x > 0
  BY <1>1
<1>3. PICK i \in Nat : Cell(a) = 2 * i
  BY DEF Even
<1>4. PICK j \in Nat : Start(a) = 2 * j
  BY EvenPages DEF Even
<1>5. PICK m \in Nat : PageSize = 2 * m
  BY EvenPages DEF Even
<1>6. PICK t \in Nat : Top = 2 * t
  BY EvenPages DEF Even
<1>7. /\ Offset(a) \in Nat /\ Offset(a) < PageSize /\ Cell(a) = Start(a) + Offset(a)
      /\ Cell(a) < Top /\ Start(a) + PageSize <= Top
  BY Cells
<1>8. Offset(a) = 2 * (i - j) /\ PageSize - Offset(a) = 2 * (m - i + j) /\ m - i + j > 0
  <2>1. PICK o \in Nat : o = Offset(a)
    BY <1>7
  <2>2. 2 * i = 2 * j + o /\ o < 2 * m
    BY <1>3, <1>4, <1>5, <1>7, <2>1
  <2>3. o = 2 * (i - j) /\ 2 * m - o = 2 * (m - i + j) /\ m - i + j > 0
    BY <2>2, Halves
  <2> QED
    BY <2>1, <2>3, <1>5
<1>9. Len(bs) \div 2 = x /\ (PageSize - Offset(a)) \div 2 = m - i + j
  BY <1>1, <1>8
<1>10. PICK k \in Nat : k = Min2(x, m - i + j)
  <2>1. m - i + j \in Nat
    BY <1>8
  <2> QED
    BY <2>1 DEF Min2
<1>11. k > 0 /\ k <= x /\ k <= m - i + j
  BY <1>2, <1>8, <1>10 DEF Min2
<1>12. Taken(a, bs) = 2 * k
  BY <1>9, <1>10 DEF Taken
<1>13. Len(bs) - 2 * k = 2 * (x - k) /\ x - k \in Nat
  BY <1>1, <1>11
<1>14. Offset(a) + 2 * k <= PageSize
  BY <1>8, <1>11, <1>5
<1>15. Even(Cell(a + 2 * k))
  <2>1. 2 * k \in Nat /\ 2 * k <= Top
    BY <1>14, <1>7, <1>4, <1>6, <1>5
  <2>2. Cell(a + 2 * k) = IF Cell(a) + 2 * k < Top THEN Cell(a) + 2 * k ELSE Cell(a) + 2 * k - Top
    BY <2>1, CellAdds
  <2>3. CASE Cell(a) + 2 * k < Top
    <3>1. Cell(a + 2 * k) = 2 * (i + k) /\ i + k \in Nat
      BY <2>2, <2>3, <1>3
    <3> QED
      BY <3>1 DEF Even
  <2>4. CASE ~ (Cell(a) + 2 * k < Top)
    <3>1. Cell(a + 2 * k) = 2 * (i + k - t) /\ i + k - t \in Nat
      BY <2>2, <2>4, <1>3, <1>6
    <3> QED
      BY <3>1 DEF Even
  <2> QED
    BY <2>3, <2>4
<1>16. 2 * k \in Nat /\ 2 * k >= 2 /\ 2 * k <= Len(bs) /\ Even(2 * k)
  <2>1. 2 * k \in Nat /\ 2 * k >= 2 /\ 2 * k <= 2 * x
    BY <1>11
  <2>2. Even(2 * k)
    BY DEF Even
  <2> QED
    BY <2>1, <2>2, <1>1
<1>17. Even(Len(bs) - 2 * k)
  BY <1>13 DEF Even
<1> QED
  BY <1>12, <1>14, <1>15, <1>16, <1>17

-----------------------------------------------------------------------------
(* What the hooks saw: g is h after an access of n bytes at a. *)
Covers(w, a, n) == \E c \in Nat : a <= c /\ c < a + n /\ w.at <= c /\ c < w.at + w.len

Sees(g, h, a, n, kind) ==
    /\ HooksWhole(g) /\ g.wps = h.wps /\ (h.hit => g.hit)
    /\ a + n < Top =>
         \A w \in h.wps : kind \in w.mode /\ w.at + w.len < Top /\ Covers(w, a, n) => g.hit

LEMMA SlowSees ==
    ASSUME MemoryBounds, NEW h, HooksWhole(h), NEW a \in 0..Top - 1, NEW n \in Nat, NEW kind
    PROVE  Sees(OnMemSlow(h, a, n, kind), h, a, n, kind)
<1>1. Top \in Nat /\ a \in Nat
  BY DEF MemoryBounds
<1> DEFINE hits == \E w \in h.wps : kind \in w.mode /\ Overlap(a, n, w.at, (w.at + w.len) % Top)
           g == OnMemSlow(h, a, n, kind)
<1>2. g = IF hits THEN [h EXCEPT !.hit = TRUE] ELSE h
  BY DEF OnMemSlow
<1>3. HooksWhole(g) /\ g.wps = h.wps /\ (h.hit => g.hit) /\ (hits => g.hit)
  <2>1. /\ h = [f \in HookFields |-> h[f]] /\ h.hit \in BOOLEAN
        /\ \A w \in h.wps : w.at \in Nat /\ w.len \in Nat
    BY DEF HooksWhole
  <2>2. "hit" \in HookFields /\ "wps" \in HookFields
    BY DEF HookFields
  <2> DEFINE e == [h EXCEPT !.hit = TRUE]
  <2>3. e = [f \in HookFields |-> e[f]] /\ e.hit = TRUE /\ e.wps = h.wps
    BY <2>1, <2>2
  <2> HIDE DEF hits, e
  <2>4. HooksWhole(e)
    BY <2>1, <2>3 DEF HooksWhole
  <2>5. CASE hits
    BY <1>2, <2>3, <2>4, <2>5 DEF e
  <2>6. CASE ~ hits
    BY <1>2, <2>6
  <2> QED
    BY <2>5, <2>6
<1>4. ASSUME a + n < Top, NEW w \in h.wps, kind \in w.mode, w.at + w.len < Top, Covers(w, a, n)
      PROVE  hits
  <2>1. PICK c \in Nat : a <= c /\ c < a + n /\ w.at <= c /\ c < w.at + w.len
    BY <1>4 DEF Covers
  <2>2. w.at \in Nat /\ w.len \in Nat
    BY DEF HooksWhole
  <2>3. (w.at + w.len) % Top = w.at + w.len /\ (a + n) % Top = a + n
    BY <1>1, <1>4, <2>2
  <2>4. a < w.at + w.len /\ w.at < a + n
    BY <1>1, <2>1, <2>2
  <2> QED
    BY <1>4, <2>3, <2>4 DEF Overlap
<1> HIDE DEF hits, g
<1> QED
  BY <1>3, <1>4 DEF Sees, g

LEMMA ReadSees ==
    ASSUME MemoryBounds, NEW h, HooksWhole(h), NEW a \in 0..Top - 1, NEW n \in Nat
    PROVE  Sees(OnMemRead(h, a, n), h, a, n, "r")
BY SlowSees DEF OnMemRead

LEMMA WriteSees ==
    ASSUME MemoryBounds, NEW h, HooksWhole(h), NEW a \in 0..Top - 1, NEW n \in Nat
    PROVE  Sees(OnMemWrite(h, a, n), h, a, n, "w")
<1> DEFINE e == [h EXCEPT !.log.seen = @ \cup {<<a, h.pc>>}]
           f == IF h.log # Off /\ Overlap(a, n, h.log.lo, h.log.hi) THEN e ELSE h
<1>1. OnMemWrite(h, a, n) = OnMemSlow(f, a, n, "w")
  BY DEF OnMemWrite
<1>2. HooksWhole(e) /\ e.wps = h.wps /\ e.hit = h.hit
  <2>1. /\ h = [x \in HookFields |-> h[x]] /\ h.hit \in BOOLEAN
        /\ \A w \in h.wps : w.at \in Nat /\ w.len \in Nat
    BY DEF HooksWhole
  <2>2. "hit" \in HookFields /\ "wps" \in HookFields /\ "log" \in HookFields
    BY DEF HookFields
  <2>3. e = [x \in HookFields |-> e[x]] /\ e.hit = h.hit /\ e.wps = h.wps
    BY <2>1, <2>2
  <2> HIDE DEF e
  <2> QED
    BY <2>1, <2>3 DEF HooksWhole
<1>3. HooksWhole(f) /\ f.wps = h.wps /\ f.hit = h.hit
  <2> HIDE DEF e
  <2> QED
    BY <1>2
<1> HIDE DEF f
<1>4. Sees(OnMemSlow(f, a, n, "w"), f, a, n, "w")
  BY <1>3, SlowSees
<1> QED
  BY <1>1, <1>3, <1>4 DEF Sees

LEMMA SeesMore ==
    ASSUME MemoryBounds, NEW f, NEW g, NEW h, NEW a \in Nat, NEW m \in Nat, NEW n \in Nat, NEW e, NEW kind,
           a + m < Top => e = a + m, Sees(g, h, a, m, kind), Sees(f, g, e, n, kind)
    PROVE  Sees(f, h, a, m + n, kind)
<1>1. Top \in Nat
  BY DEF MemoryBounds
<1>2. HooksWhole(f) /\ f.wps = h.wps /\ (h.hit => f.hit) /\ (g.hit => f.hit) /\ g.wps = h.wps
  BY DEF Sees
<1>3. ASSUME a + (m + n) < Top, NEW w \in h.wps, kind \in w.mode, w.at + w.len < Top,
             Covers(w, a, m + n)
      PROVE  f.hit
  <2>1. a + m < Top /\ e = a + m /\ e + n < Top
    BY <1>1, <1>3
  <2>2. PICK c \in Nat : a <= c /\ c < a + (m + n) /\ w.at <= c /\ c < w.at + w.len
    BY <1>3 DEF Covers
  <2>3. CASE c < a + m
    <3>1. Covers(w, a, m)
      BY <2>2, <2>3 DEF Covers
    <3> QED
      BY <3>1, <2>1, <1>2, <1>3 DEF Sees
  <2>4. CASE ~ (c < a + m)
    <3>1. Covers(w, e, n)
      <4>1. e <= c /\ c < e + n
        BY <2>1, <2>2, <2>4
      <4> QED
        BY <4>1, <2>2 DEF Covers
    <3> QED
      BY <3>1, <2>1, <1>2, <1>3 DEF Sees
  <2> QED
    BY <2>3, <2>4
<1> QED
  BY <1>2, <1>3 DEF Sees

LEMMA NoneSeen ==
    ASSUME NEW h, HooksWhole(h), NEW a \in Nat, NEW kind
    PROVE  Sees(h, h, a, 0, kind)
<1>1. \A w : ~ Covers(w, a, 0)
  BY DEF Covers
<1> QED
  BY <1>1 DEF Sees

(* One byte more of an access that is seen byte by byte. *)
LEMMA SeesByte ==
    ASSUME MemoryBounds, NEW f, NEW g, NEW h, NEW a \in Nat, NEW m \in Nat, NEW kind,
           Sees(g, h, a, m, kind), Sees(f, g, (a + m) % Top, 1, kind)
    PROVE  Sees(f, h, a, m + 1, kind)
<1>1. a + m < Top => (a + m) % Top = a + m
  <2>1. Top \in Nat /\ Top > 0
    BY DEF MemoryBounds
  <2> QED
    BY <2>1
<1> QED
  BY <1>1, SeesMore

LEMMA TwoWritesSeen ==
    ASSUME MemoryBounds, NEW h, HooksWhole(h), NEW a \in 0..Top - 1
    PROVE  Sees(HookedBytes(h, a, 2, OnMemWrite), h, a, 2, "w")
<1> DEFINE h1 == OnMemWrite(h, a, 1)
           h2 == OnMemWrite(h1, (a + 1) % Top, 1)
<1>0. Top \in Nat /\ Top > 0 /\ a \in Nat /\ \A j \in 0..3 : (a + j) % Top \in 0..Top - 1
  BY DEF MemoryBounds
<1>1. HookedBytes(h, a, 2, OnMemWrite) = h2
  BY DEF HookedBytes
<1>2. Sees(h1, h, a, 1, "w")
  BY WriteSees
<1> HIDE DEF h1
<1>3. Sees(h2, h, a, 2, "w")
  <2>1. HooksWhole(h1)
    BY <1>2 DEF Sees
  <2>2. (a + 1) % Top \in 0..Top - 1
    BY <1>0
  <2>3. Sees(h2, h1, (a + 1) % Top, 1, "w")
    BY <2>1, <2>2, WriteSees
  <2>4. Sees(h2, h, a, 1 + 1, "w")
    BY <1>0, <1>2, <2>3, SeesByte
  <2> QED
    BY <2>4
<1> HIDE DEF h2
<1> QED
  BY <1>1, <1>3

LEMMA FourWritesSeen ==
    ASSUME MemoryBounds, NEW h, HooksWhole(h), NEW a \in 0..Top - 1
    PROVE  Sees(HookedBytes(h, a, 4, OnMemWrite), h, a, 4, "w")
<1> DEFINE h1 == OnMemWrite(h, a, 1)
           h2 == OnMemWrite(h1, (a + 1) % Top, 1)
           h3 == OnMemWrite(h2, (a + 2) % Top, 1)
           h4 == OnMemWrite(h3, (a + 3) % Top, 1)
<1>0. Top \in Nat /\ Top > 0 /\ a \in Nat /\ \A j \in 0..3 : (a + j) % Top \in 0..Top - 1
  BY DEF MemoryBounds
<1>1. HookedBytes(h, a, 4, OnMemWrite) = h4
  BY DEF HookedBytes
<1>2. Sees(h1, h, a, 1, "w")
  BY WriteSees
<1> HIDE DEF h1
<1>3. Sees(h2, h, a, 2, "w")
  <2>1. HooksWhole(h1)
    BY <1>2 DEF Sees
  <2>2. (a + 1) % Top \in 0..Top - 1
    BY <1>0
  <2>3. Sees(h2, h1, (a + 1) % Top, 1, "w")
    BY <2>1, <2>2, WriteSees
  <2>4. Sees(h2, h, a, 1 + 1, "w")
    BY <1>0, <1>2, <2>3, SeesByte
  <2> QED
    BY <2>4
<1> HIDE DEF h2
<1>4. Sees(h3, h, a, 3, "w")
  <2>1. HooksWhole(h2)
    BY <1>3 DEF Sees
  <2>2. (a + 2) % Top \in 0..Top - 1
    BY <1>0
  <2>3. Sees(h3, h2, (a + 2) % Top, 1, "w")
    BY <2>1, <2>2, WriteSees
  <2>4. Sees(h3, h, a, 2 + 1, "w")
    BY <1>0, <1>3, <2>3, SeesByte
  <2> QED
    BY <2>4
<1> HIDE DEF h3
<1>5. Sees(h4, h, a, 4, "w")
  <2>1. HooksWhole(h3)
    BY <1>4 DEF Sees
  <2>2. (a + 3) % Top \in 0..Top - 1
    BY <1>0
  <2>3. Sees(h4, h3, (a + 3) % Top, 1, "w")
    BY <2>1, <2>2, WriteSees
  <2>4. Sees(h4, h, a, 3 + 1, "w")
    BY <1>0, <1>4, <2>3, SeesByte
  <2> QED
    BY <2>4
<1> HIDE DEF h4
<1> QED
  BY <1>1, <1>5

LEMMA FourReadsSeen ==
    ASSUME MemoryBounds, NEW h, HooksWhole(h), NEW a \in 0..Top - 1
    PROVE  Sees(HookedBytes(h, a, 4, OnMemRead), h, a, 4, "r")
<1> DEFINE h1 == OnMemRead(h, a, 1)
           h2 == OnMemRead(h1, (a + 1) % Top, 1)
           h3 == OnMemRead(h2, (a + 2) % Top, 1)
           h4 == OnMemRead(h3, (a + 3) % Top, 1)
<1>0. Top \in Nat /\ Top > 0 /\ a \in Nat /\ \A j \in 0..3 : (a + j) % Top \in 0..Top - 1
  BY DEF MemoryBounds
<1>1. HookedBytes(h, a, 4, OnMemRead) = h4
  BY DEF HookedBytes
<1>2. Sees(h1, h, a, 1, "r")
  BY ReadSees
<1> HIDE DEF h1
<1>3. Sees(h2, h, a, 2, "r")
  <2>1. HooksWhole(h1)
    BY <1>2 DEF Sees
  <2>2. (a + 1) % Top \in 0..Top - 1
    BY <1>0
  <2>3. Sees(h2, h1, (a + 1) % Top, 1, "r")
    BY <2>1, <2>2, ReadSees
  <2>4. Sees(h2, h, a, 1 + 1, "r")
    BY <1>0, <1>2, <2>3, SeesByte
  <2> QED
    BY <2>4
<1> HIDE DEF h2
<1>4. Sees(h3, h, a, 3, "r")
  <2>1. HooksWhole(h2)
    BY <1>3 DEF Sees
  <2>2. (a + 2) % Top \in 0..Top - 1
    BY <1>0
  <2>3. Sees(h3, h2, (a + 2) % Top, 1, "r")
    BY <2>1, <2>2, ReadSees
  <2>4. Sees(h3, h, a, 2 + 1, "r")
    BY <1>0, <1>3, <2>3, SeesByte
  <2> QED
    BY <2>4
<1> HIDE DEF h3
<1>5. Sees(h4, h, a, 4, "r")
  <2>1. HooksWhole(h3)
    BY <1>4 DEF Sees
  <2>2. (a + 3) % Top \in 0..Top - 1
    BY <1>0
  <2>3. Sees(h4, h3, (a + 3) % Top, 1, "r")
    BY <2>1, <2>2, ReadSees
  <2>4. Sees(h4, h, a, 3 + 1, "r")
    BY <1>0, <1>4, <2>3, SeesByte
  <2> QED
    BY <2>4
<1> HIDE DEF h4
<1> QED
  BY <1>1, <1>5

LEMMA CutJoins ==
    ASSUME NEW s \in Seq(Nat), NEW n \in Nat, n <= Len(s)
    PROVE  SubSeq(s, 1, n) \o SubSeq(s, n + 1, Len(s)) = s
<1> DEFINE x == SubSeq(s, 1, n)
           y == SubSeq(s, n + 1, Len(s))
           z == x \o y
<1>1. Len(s) \in Nat /\ s = [k \in 1..Len(s) |-> s[k]]
  OBVIOUS
<1>2. x \in Seq(Nat) /\ Len(x) = n /\ \A k \in 1..n : x[k] = s[k]
  OBVIOUS
<1>3. y \in Seq(Nat) /\ Len(y) = Len(s) - n /\ \A k \in 1..Len(s) - n : y[k] = s[n + k]
  <2>1. PICK l \in Nat : l = Len(s)
    BY <1>1
  <2> DEFINE v == SubSeq(s, n + 1, l)
  <2>2. v = [k \in 1..l - n |-> s[n + k]]
    <3>1. l - (n + 1) + 1 = l - n /\ \A k \in 1..l - n : (n + 1) + k - 1 = n + k
      OBVIOUS
    <3> QED
      BY <3>1, SMTT(30)
  <2>3. \A k \in 1..l - n : s[n + k] \in Nat
    BY <2>1
  <2>4. l - n \in Nat
    BY <2>1
  <2> HIDE DEF v
  <2>5. v \in Seq(Nat) /\ Len(v) = l - n
    BY <2>2, <2>3, <2>4
  <2>6. \A k \in 1..l - n : v[k] = s[n + k]
    BY <2>2
  <2> QED
    BY <2>1, <2>5, <2>6 DEF v
<1> HIDE DEF x, y
<1>4. /\ z \in Seq(Nat) /\ Len(z) = Len(s)
      /\ \A k \in 1..Len(s) : z[k] = IF k <= n THEN x[k] ELSE y[k - n]
  <2>0. x \in Seq(Nat) /\ y \in Seq(Nat)
    BY <1>2, <1>3
  <2>1. z \in Seq(Nat) /\ Len(z) = Len(x) + Len(y)
    BY <2>0
  <2>2. Len(z) = Len(s)
    BY <2>1, <1>1, <1>2, <1>3
  <2>3. \A k \in 1..Len(x) + Len(y) : z[k] = IF k <= Len(x) THEN x[k] ELSE y[k - Len(x)]
    BY <1>2, <1>3
  <2> HIDE DEF z
  <2> QED
    BY <2>1, <2>2, <2>3, <1>2
<1>5. z = [k \in 1..Len(s) |-> z[k]]
  <2>1. z = [k \in 1..Len(z) |-> z[k]]
    <3> HIDE DEF z
    <3> QED
      BY <1>4
  <2> HIDE DEF z
  <2> QED
    BY <2>1, <1>4
<1> HIDE DEF z
<1>6. ASSUME NEW k \in 1..Len(s)
      PROVE  z[k] = s[k]
  <2>1. CASE k <= n
    BY <2>1, <1>2, <1>4
  <2>2. CASE ~ (k <= n)
    <3>1. k - n \in 1..Len(s) - n /\ n + (k - n) = k
      BY <2>2, <1>1
    <3> QED
      BY <3>1, <2>2, <1>3, <1>4
  <2> QED
    BY <2>1, <2>2
<1>7. z = s
  BY <1>1, <1>5, <1>6
<1> QED
  BY <1>7 DEF x, y, z

(* One turn of the loop that writes a block. *)
Ready(s) ==
    /\ PagesWhole(s.p) /\ HooksWhole(s.h)
    /\ s.a \in Nat /\ s.a < Top /\ Even(s.a)
    /\ s.bs \in Seq(Nat) /\ Len(s.bs) <= Top /\ Even(Len(s.bs))

LEMMA BlockTurn ==
    ASSUME MemoryBounds, NEW s, Ready(s), NEW t, t = BlockStep(s)
    PROVE  /\ Ready(t)
           /\ Len(t.bs) = 0 \/ Len(t.bs) <= Len(s.bs) - 2
           /\ \A r : Puts(r, t.p, t.a, t.bs) => Puts(r, s.p, s.a, s.bs)
           /\ \A g : Sees(g, t.h, t.a, Len(t.bs), "w") => Sees(g, s.h, s.a, Len(s.bs), "w")
<1>0. Top \in Nat /\ Top > 0 /\ Top >= 6
  BY DEF MemoryBounds
<1>1. /\ PagesWhole(s.p) /\ HooksWhole(s.h) /\ s.a \in Nat /\ s.a < Top /\ Even(s.a)
      /\ s.bs \in Seq(Nat) /\ Len(s.bs) <= Top /\ Even(Len(s.bs)) /\ Len(s.bs) \in Nat
  BY DEF Ready
<1>2. Cell(s.a) = s.a
  <2>1. s.a \in 0..Top - 1 /\ Top * 0 + s.a = s.a
    BY <1>0, <1>1
  <2>2. (Top * 0 + s.a) % Top = s.a
    BY <1>0, <2>1, Euclid
  <2> QED
    BY <2>1, <2>2 DEF Cell
<1> DEFINE n == Taken(s.a, s.bs)
<1>3. t = IF n = 0 THEN s
          ELSE [p |-> Stored(s.p, s.a, SubSeq(s.bs, 1, n)), h |-> OnMemWrite(s.h, s.a, n),
                a |-> (s.a + n) % Top, bs |-> SubSeq(s.bs, n + 1, Len(s.bs))]
  BY DEF BlockStep, Taken
<1>4. CASE s.bs = <<>>
  <2>1. Len(s.bs) = 0
    BY <1>4
  <2>2. n = 0
    <3>1. PICK x \in Nat : x = (PageSize - Offset(s.a)) \div 2
      <4>1. Offset(s.a) \in Nat /\ Offset(s.a) < PageSize /\ PageSize \in Nat
        BY <1>1, Cells
      <4> QED
        BY <4>1
    <3>2. Len(s.bs) \div 2 = 0
      BY <2>1
    <3>3. Min2(0, x) = 0
      BY DEF Min2
    <3> QED
      <4>1. Min2(Len(s.bs) \div 2, (PageSize - Offset(s.a)) \div 2) = 0
        BY <3>1, <3>2, <3>3, Zenon
      <4>2. n = 2 * 0
        BY <4>1, Zenon DEF Taken
      <4> QED
        BY <4>2
  <2> HIDE DEF n
  <2>3. t = s
    BY <1>3, <2>2
  <2> QED
    BY <2>1, <2>3
<1>5. CASE s.bs # <<>>
  <2>1. /\ n \in Nat /\ n >= 2 /\ Even(n) /\ n <= Len(s.bs) /\ Offset(s.a) + n <= PageSize
        /\ Even(Len(s.bs) - n) /\ Even(Cell(s.a + n))
    BY <1>1, <1>2, <1>5, TakenIs
  <2> HIDE DEF n
  <2> DEFINE xs == SubSeq(s.bs, 1, n)
             ys == SubSeq(s.bs, n + 1, Len(s.bs))
  <2>2. /\ t.p = Stored(s.p, s.a, xs) /\ t.h = OnMemWrite(s.h, s.a, n)
        /\ t.a = (s.a + n) % Top /\ t.bs = ys
    <3>1. n # 0
      BY <2>1
    <3> HIDE DEF xs, ys
    <3>2. t = [p |-> Stored(s.p, s.a, xs), h |-> OnMemWrite(s.h, s.a, n), a |-> (s.a + n) % Top, bs |-> ys]
      BY <1>3, <3>1, Zenon DEF xs, ys
    <3> QED
      BY <3>2
  <2>3. xs \in Seq(Nat) /\ Len(xs) = n
    BY <1>1, <2>1
  <2>4. ys \in Seq(Nat) /\ Len(ys) = Len(s.bs) - n
    BY <1>1, <2>1
  <2>5. xs \o ys = s.bs
    BY <1>1, <2>1, CutJoins
  <2> HIDE DEF xs, ys
  <2>6. PagesWhole(t.p) /\ Puts(t.p, s.p, s.a, xs)
    <3>1. Offset(s.a) + Len(xs) <= PageSize
      BY <2>1, <2>3
    <3> QED
      BY <1>1, <2>2, <2>3, <3>1, StoredPuts
  <2>7. Sees(t.h, s.h, s.a, n, "w")
    <3>1. s.a \in 0..Top - 1
      BY <1>0, <1>1
    <3> QED
      BY <3>1, <1>1, <2>1, <2>2, WriteSees
  <2>8. t.a = Cell(s.a + n) /\ t.a \in Nat /\ t.a < Top
    <3>1. s.a + n \in Nat
      BY <1>1, <2>1
    <3> QED
      BY <3>1, <1>0, <2>2 DEF Cell
  <2>9. Ready(t)
    <3>1. HooksWhole(t.h)
      BY <2>7 DEF Sees
    <3>2. t.bs \in Seq(Nat) /\ Len(t.bs) <= Top /\ Even(Len(t.bs))
      BY <1>0, <1>1, <2>1, <2>2, <2>4
    <3>3. Even(t.a)
      BY <2>1, <2>8
    <3> QED
      BY <3>1, <3>2, <3>3, <2>6, <2>8 DEF Ready
  <2>10. ASSUME NEW r, Puts(r, t.p, t.a, t.bs)
         PROVE  Puts(r, s.p, s.a, s.bs)
    <3>1. Len(xs) + Len(ys) <= Top
      BY <1>0, <1>1, <2>1, <2>3, <2>4
    <3>2. Cell(t.a) = Cell(s.a + Len(xs))
      BY <2>3, <2>8, <1>0 DEF Cell
    <3> QED
      <4>1. Puts(r, t.p, t.a, ys)
        BY <2>2, <2>10
      <4>2. Puts(r, s.p, s.a, xs \o ys)
        BY <1>1, <2>3, <2>4, <2>6, <2>8, <4>1, <3>1, <3>2, PutsJoin
      <4> QED
        BY <4>2, <2>5
  <2>11. ASSUME NEW g, Sees(g, t.h, t.a, Len(t.bs), "w")
         PROVE  Sees(g, s.h, s.a, Len(s.bs), "w")
    <3>1. s.a + n < Top => t.a = s.a + n
      <4>1. PICK m \in Nat : m = s.a + n
        BY <1>1, <2>1
      <4>2. m < Top => m % Top = m
        BY <1>0
      <4> QED
        BY <4>1, <4>2, <2>2
    <3>2. Len(t.bs) \in Nat /\ n + Len(t.bs) = Len(s.bs)
      BY <1>1, <2>1, <2>2, <2>4
    <3>3. Sees(g, s.h, s.a, n + Len(t.bs), "w")
      BY <1>1, <2>1, <2>7, <2>11, <3>1, <3>2, SeesMore
    <3> QED
      BY <3>2, <3>3
  <2>12. Len(s.bs) # 0 /\ Len(t.bs) <= Len(s.bs) - 2
    BY <1>1, <2>1, <2>2, <2>4
  <2> QED
    BY <2>9, <2>10, <2>11, <2>12
<1> QED
  BY <1>4, <1>5

(* The block is written, and seen, as a whole. *)
LEMMA BlockWritten ==
    ASSUME MemoryBounds, NEW p, NEW h, PagesWhole(p), HooksWhole(h), NEW a \in Nat, a < Top, Even(a),
           NEW bs \in Seq(Nat), Len(bs) \in {4, 6}, NEW d,
           d = BlockStep(BlockStep(BlockStep([p |-> p, h |-> h, a |-> a, bs |-> bs])))
    PROVE  Written(d.p, p, a, bs) /\ Sees(d.h, h, a, Len(bs), "w")
<1>1. PICK s : s = [p |-> p, h |-> h, a |-> a, bs |-> bs]
  OBVIOUS
<1>2. PICK t : t = BlockStep(s)
  OBVIOUS
<1>3. PICK u : u = BlockStep(t)
  OBVIOUS
<1>4. d = BlockStep(u)
  BY <1>1, <1>2, <1>3
<1>5. s.p = p /\ s.h = h /\ s.a = a /\ s.bs = bs
  BY <1>1
<1>6. Ready(s) /\ Len(s.bs) \in 0..6
  <2>1. Top >= 6 /\ Top \in Nat
    BY DEF MemoryBounds
  <2>2. Even(4) /\ Even(6)
    BY DEF Even
  <2>3. Len(bs) <= Top /\ Even(Len(bs)) /\ Len(bs) \in 0..6
    <3>1. CASE Len(bs) = 4
      BY <3>1, <2>1, <2>2
    <3>2. CASE Len(bs) = 6
      BY <3>2, <2>1, <2>2
    <3> QED
      BY <3>1, <3>2
  <2> QED
    BY <1>5, <2>3 DEF Ready
<1>7. /\ Ready(t) /\ Len(t.bs) \in 0..4
      /\ \A r : Puts(r, t.p, t.a, t.bs) => Puts(r, s.p, s.a, s.bs)
      /\ \A g : Sees(g, t.h, t.a, Len(t.bs), "w") => Sees(g, s.h, s.a, Len(s.bs), "w")
  <2>1. /\ Ready(t) /\ (Len(t.bs) = 0 \/ Len(t.bs) <= Len(s.bs) - 2)
        /\ \A r : Puts(r, t.p, t.a, t.bs) => Puts(r, s.p, s.a, s.bs)
        /\ \A g : Sees(g, t.h, t.a, Len(t.bs), "w") => Sees(g, s.h, s.a, Len(s.bs), "w")
    BY <1>2, <1>6, BlockTurn
  <2>2. Len(t.bs) \in Nat
    BY <2>1 DEF Ready
  <2>3. Len(t.bs) \in 0..4
    <3>1. PICK m \in 0..6 : m = Len(s.bs)
      BY <1>6
    <3>2. PICK k \in Nat : k = Len(t.bs)
      BY <2>2
    <3>3. k = 0 \/ k <= m - 2
      BY <2>1, <3>1, <3>2
    <3>4. k \in 0..4
      BY <3>3
    <3> QED
      BY <3>2, <3>4
  <2> QED
    BY <2>1, <2>3
<1>8. /\ Ready(u) /\ Len(u.bs) \in 0..2
      /\ \A r : Puts(r, u.p, u.a, u.bs) => Puts(r, t.p, t.a, t.bs)
      /\ \A g : Sees(g, u.h, u.a, Len(u.bs), "w") => Sees(g, t.h, t.a, Len(t.bs), "w")
  <2>1. /\ Ready(u) /\ (Len(u.bs) = 0 \/ Len(u.bs) <= Len(t.bs) - 2)
        /\ \A r : Puts(r, u.p, u.a, u.bs) => Puts(r, t.p, t.a, t.bs)
        /\ \A g : Sees(g, u.h, u.a, Len(u.bs), "w") => Sees(g, t.h, t.a, Len(t.bs), "w")
    BY <1>3, <1>7, BlockTurn
  <2>2. Len(u.bs) \in Nat
    BY <2>1 DEF Ready
  <2>3. Len(u.bs) \in 0..2
    <3>1. PICK m \in 0..4 : m = Len(t.bs)
      BY <1>7
    <3>2. PICK k \in Nat : k = Len(u.bs)
      BY <2>2
    <3>3. k = 0 \/ k <= m - 2
      BY <2>1, <3>1, <3>2
    <3>4. k \in 0..2
      BY <3>3
    <3> QED
      BY <3>2, <3>4
  <2> QED
    BY <2>1, <2>3
<1>9. /\ Ready(d) /\ Len(d.bs) = 0
      /\ \A r : Puts(r, d.p, d.a, d.bs) => Puts(r, u.p, u.a, u.bs)
      /\ \A g : Sees(g, d.h, d.a, Len(d.bs), "w") => Sees(g, u.h, u.a, Len(u.bs), "w")
  <2>1. /\ Ready(d) /\ (Len(d.bs) = 0 \/ Len(d.bs) <= Len(u.bs) - 2)
        /\ \A r : Puts(r, d.p, d.a, d.bs) => Puts(r, u.p, u.a, u.bs)
        /\ \A g : Sees(g, d.h, d.a, Len(d.bs), "w") => Sees(g, u.h, u.a, Len(u.bs), "w")
    BY <1>4, <1>8, BlockTurn
  <2>2. Len(d.bs) \in Nat
    BY <2>1 DEF Ready
  <2>3. Len(d.bs) = 0
    <3>1. PICK m \in 0..2 : m = Len(u.bs)
      BY <1>8
    <3>2. PICK k \in Nat : k = Len(d.bs)
      BY <2>2
    <3>3. k = 0 \/ k <= m - 2
      BY <2>1, <3>1, <3>2
    <3>4. k = 0
      BY <3>3
    <3> QED
      BY <3>2, <3>4
  <2> QED
    BY <2>1, <2>3
<1>10. Puts(d.p, d.p, d.a, d.bs)
  <2>1. 1..0 = {}
    OBVIOUS
  <2> QED
    BY <2>1, <1>9 DEF Puts
<1>11. Sees(d.h, d.h, d.a, Len(d.bs), "w")
  <2>1. HooksWhole(d.h) /\ d.a \in Nat
    BY <1>9 DEF Ready
  <2> QED
    BY <2>1, <1>9, NoneSeen
<1>12. PagesWhole(d.p)
  BY <1>9 DEF Ready
<1>13. Puts(d.p, p, a, bs)
  BY <1>5, <1>7, <1>8, <1>9, <1>10
<1>14. Sees(d.h, h, a, Len(bs), "w")
  BY <1>5, <1>7, <1>8, <1>9, <1>11
<1> QED
  BY <1>12, <1>13, <1>14 DEF Written

-----------------------------------------------------------------------------
LEMMA MemoryInvInitially ==
    ASSUME MemoryInit
    PROVE  MemoryInv
<1>1. PagesWhole(pages)
  BY DEF MemoryInit, PagesWhole
<1>2. HooksWhole(hooks)
  BY DEF MemoryInit, HooksStart, HooksWhole, HookFields
<1>3. \A a \in DOMAIN bound : bound[a] = Pointer
  BY DEF MemoryInit
<1>4. seed # Off => seed.value = Pointer
  BY DEF MemoryInit
<1> QED
  BY <1>1, <1>2, <1>3, <1>4 DEF MemoryInit, MemoryInv

(* What lands, and what is seen. *)
LEMMA WriteLands ==
    ASSUME MemoryBounds, NEW a \in 0..Top - 1, NEW bs \in Seq(Nat),
           asked' = [kind |-> "write", at |-> a, bytes |-> bs], Puts(pages', pages, a, bs)
    PROVE  AccessLands
<1>1. asked'.kind = "write" /\ asked'.at = a /\ asked'.bytes = bs
  OBVIOUS
<1>2. DOMAIN bs = 1..Len(bs)
  OBVIOUS
<1>3. \A x \in 0..Top - 1 : Read8(pages', x) = Put(asked', x)
  BY <1>1, <1>2 DEF Puts, Put, Turn
<1> QED
  BY <1>1, <1>3 DEF AccessLands

LEMMA AccessSeen ==
    ASSUME MemoryBounds, NEW a \in 0..Top - 1, NEW bs \in Seq(Nat), NEW kind \in {"read", "write"},
           NEW m, m = IF kind = "read" THEN "r" ELSE "w",
           asked' = [kind |-> kind, at |-> a, bytes |-> bs], HooksWhole(hooks),
           Sees(hooks', hooks, a, Len(bs), m)
    PROVE  AccessIsSeen
<1>1. asked'.kind = kind /\ asked'.at = a /\ asked'.bytes = bs
  OBVIOUS
<1>2. DOMAIN bs = 1..Len(bs) /\ Len(bs) \in Nat
  OBVIOUS
<1>3. Top \in Nat /\ Top > 0
  BY DEF MemoryBounds
<1>4. ASSUME NEW w \in hooks.wps, m \in w.mode, ~ (w.at + w.len >= Top),
             ~ (a + Len(bs) >= Top), Watched(w) \cap Touched' # {}
      PROVE  hooks'.hit
  <2>1. w.at \in Nat /\ w.len \in Nat
    BY DEF HooksWhole
  <2>2. PICK c \in Watched(w) : c \in Touched'
    BY <1>4
  <2>3. PICK k \in 1..Len(bs) : c = (a + k - 1) % Top
    BY <1>1, <1>2, <2>2 DEF Touched
  <2>4. PICK n \in Nat : n = Len(bs)
    BY <1>2
  <2>5. c = a + k - 1 /\ a <= c /\ c < a + n /\ c \in Nat
    <3>1. a + n < Top /\ k <= n /\ k >= 1 /\ k \in Nat /\ a \in Nat
      BY <1>3, <1>4, <2>4
    <3>2. a + k - 1 \in Nat /\ a + k - 1 < Top
      BY <3>1, <1>3
    <3>3. (a + k - 1) % Top = a + k - 1
      <4>1. PICK t \in Nat : t = Top /\ t > 0
        BY <1>3
      <4>2. PICK x \in Nat : x = a + k - 1 /\ x < t
        BY <3>2, <4>1
      <4>3. x % t = x
        <5>1. t * 0 + x = x /\ x \in 0..t - 1 /\ 0 \in Nat
          BY <4>1, <4>2
        <5>2. (t * 0 + x) % t = x
          BY <4>1, <5>1, Euclid
        <5> QED
          BY <5>1, <5>2
      <4> QED
        BY <4>1, <4>2, <4>3
    <3> QED
      BY <3>1, <3>2, <3>3, <2>3
  <2>6. Covers(w, a, Len(bs))
    BY <2>2, <2>4, <2>5 DEF Covers, Watched
  <2>7. w.at + w.len < Top /\ a + Len(bs) < Top
    BY <1>2, <1>3, <1>4, <2>1
  <2> QED
    BY <1>4, <2>6, <2>7 DEF Sees
<1>5. CASE kind = "read"
  BY <1>1, <1>4, <1>5 DEF AccessIsSeen
<1>6. CASE kind = "write"
  BY <1>1, <1>4, <1>6 DEF AccessIsSeen
<1> QED
  BY <1>5, <1>6

(* Nothing landed and nothing was seen: any other step. *)
LEMMA NoAccess ==
    ASSUME asked'.kind \notin {"read", "write"}
    PROVE  AccessLands /\ AccessIsSeen
BY DEF AccessLands, AccessIsSeen

(* The parts of the invariant that a step leaves. *)
LEMMA MemoryKept ==
    ASSUME MemoryInv, PagesWhole(pages'), HooksWhole(hooks'), saved' \in {saved, pages},
           \A a \in DOMAIN bound' : bound'[a] = Pointer, seed' = seed
    PROVE  MemoryInv'
BY DEF MemoryInv, PagesWhole, HooksWhole

(* A write of one, two or more bytes. *)
LEMMA WriteIs ==
    ASSUME MemoryBounds, MemoryInv, NEW a \in 0..Top - 1, NEW bs \in Seq(Nat),
           asked' = [kind |-> "write", at |-> a, bytes |-> bs],
           Written(pages', pages, a, bs), Sees(hooks', hooks, a, Len(bs), "w"),
           saved' = saved, \A x \in DOMAIN bound' : bound'[x] = Pointer, seed' = seed
    PROVE  MemoryInv' /\ AccessLands /\ AccessIsSeen
<1>1. PagesWhole(pages') /\ Puts(pages', pages, a, bs) /\ HooksWhole(hooks') /\ HooksWhole(hooks)
  BY DEF Written, Sees, MemoryInv
<1>2. MemoryInv'
  BY <1>1, MemoryKept
<1>3. AccessLands
  BY <1>1, WriteLands
<1>4. AccessIsSeen
  <2>1. "write" \in {"read", "write"} /\ "w" = IF "write" = "read" THEN "r" ELSE "w"
    OBVIOUS
  <2> QED
    BY <1>1, <2>1, AccessSeen
<1> QED
  BY <1>2, <1>3, <1>4

LEMMA Write8Is ==
    ASSUME MemoryBounds, MemoryInv, DoWrite8
    PROVE  MemoryInv' /\ AccessLands /\ AccessIsSeen
<1>1. PICK a \in At, b \in {1, 2} :
        /\ Asks("write", a, <<b>>)
        /\ pages' = Write8(pages, a, b) /\ hooks' = OnMemWrite(hooks, a, 1)
        /\ UNCHANGED <<bound, seed, saved>>
  BY DEF DoWrite8
<1>2. a \in 0..Top - 1 /\ a \in Nat /\ b \in Nat
  BY DEF MemoryBounds
<1>3. PagesWhole(pages) /\ HooksWhole(hooks) /\ \A x \in DOMAIN bound : bound[x] = Pointer
  BY DEF MemoryInv
<1>4. Written(pages', pages, a, <<b>>)
  BY <1>1, <1>2, <1>3, Write8Puts
<1>5. <<b>> \in Seq(Nat) /\ Len(<<b>>) = 1
  BY <1>2
<1>6. Sees(hooks', hooks, a, Len(<<b>>), "w")
  BY <1>1, <1>2, <1>3, <1>5, WriteSees
<1>7. asked' = [kind |-> "write", at |-> a, bytes |-> <<b>>]
  BY <1>1 DEF Asks
<1> QED
  BY <1>1, <1>2, <1>3, <1>4, <1>5, <1>6, <1>7, WriteIs

LEMMA Write16Is ==
    ASSUME MemoryBounds, MemoryInv, DoWrite16
    PROVE  MemoryInv' /\ AccessLands /\ AccessIsSeen
<1>1. PICK a \in At :
        /\ Asks("write", a, <<2, 2>>)
        /\ pages' = Write16(pages, a, <<2, 2>>) /\ hooks' = HookedBytes(hooks, a, 2, OnMemWrite)
        /\ UNCHANGED <<bound, seed, saved>>
  BY DEF DoWrite16
<1>2. a \in 0..Top - 1 /\ a \in Nat
  BY DEF MemoryBounds
<1>3. PagesWhole(pages) /\ HooksWhole(hooks) /\ \A x \in DOMAIN bound : bound[x] = Pointer
  BY DEF MemoryInv
<1>4. <<2, 2>> \in Seq(Nat) /\ Len(<<2, 2>>) = 2
  OBVIOUS
<1>5. Written(pages', pages, a, <<2, 2>>)
  BY <1>1, <1>2, <1>3, <1>4, Write16Puts
<1>6. Sees(hooks', hooks, a, Len(<<2, 2>>), "w")
  BY <1>1, <1>2, <1>3, <1>4, TwoWritesSeen
<1>7. asked' = [kind |-> "write", at |-> a, bytes |-> <<2, 2>>]
  BY <1>1 DEF Asks
<1> QED
  BY <1>1, <1>2, <1>3, <1>4, <1>5, <1>6, <1>7, WriteIs

LEMMA WriteBlockIs ==
    ASSUME MemoryBounds, MemoryInv, WriteBlock16
    PROVE  MemoryInv' /\ AccessLands /\ AccessIsSeen
<1>1. PICK a \in {x \in At : x % 2 = 0}, bs \in {<<1, 2, 1, 2>>, <<1, 1, 2, 2, 2, 1>>} :
        LET done == BlockStep(BlockStep(BlockStep([p |-> pages, h |-> hooks, a |-> a, bs |-> bs])))
        IN  /\ Asks("write", a, bs)
            /\ pages' = done.p /\ hooks' = done.h
            /\ UNCHANGED <<bound, seed, saved>>
  BY DEF WriteBlock16
<1>2. PICK d : d = BlockStep(BlockStep(BlockStep([p |-> pages, h |-> hooks, a |-> a, bs |-> bs])))
  OBVIOUS
<1>3. Asks("write", a, bs) /\ pages' = d.p /\ hooks' = d.h /\ UNCHANGED <<bound, seed, saved>>
  BY <1>1, <1>2
<1>4. a \in 0..Top - 1 /\ a \in Nat /\ a < Top /\ Even(a)
  <2>1. a \in 0..Top - 1 /\ a \in Nat /\ a < Top
    BY DEF MemoryBounds
  <2> QED
    BY <2>1, EvenIs
<1>5. PagesWhole(pages) /\ HooksWhole(hooks) /\ \A x \in DOMAIN bound : bound[x] = Pointer
  BY DEF MemoryInv
<1>6. bs \in Seq(Nat) /\ Len(bs) \in {4, 6}
  <2>1. <<1, 2, 1, 2>> \in Seq(Nat) /\ Len(<<1, 2, 1, 2>>) = 4
    OBVIOUS
  <2>2. <<1, 1, 2, 2, 2, 1>> \in Seq(Nat) /\ Len(<<1, 1, 2, 2, 2, 1>>) = 6
    OBVIOUS
  <2> QED
    BY <2>1, <2>2
<1>7. Written(d.p, pages, a, bs) /\ Sees(d.h, hooks, a, Len(bs), "w")
  BY <1>2, <1>4, <1>5, <1>6, BlockWritten
<1>8. asked' = [kind |-> "write", at |-> a, bytes |-> bs]
  BY <1>3 DEF Asks
<1> QED
  BY <1>3, <1>4, <1>5, <1>6, <1>7, <1>8, WriteIs

LEMMA Write32Is ==
    ASSUME MemoryBounds, MemoryInv, DoWrite32
    PROVE  MemoryInv' /\ AccessLands /\ AccessIsSeen
<1>1. PICK a \in At, w \in Words :
        LET peeked == IF w = Zero /\ a \in DOMAIN bound THEN HookedBytes(hooks, a, 4, OnMemRead) ELSE hooks IN
        /\ Asks("write", a, w)
        /\ bound' = IF w = Pointer THEN [x \in DOMAIN bound \cup {a} |-> IF x = a THEN w ELSE bound[x]]
                    ELSE IF w = Zero /\ ~Kept(a, w) THEN [x \in DOMAIN bound \ {a} |-> bound[x]] ELSE bound
        /\ IF Kept(a, w) THEN pages' = pages /\ hooks' = peeked
           ELSE pages' = Write32Bytes(pages, a, w) /\ hooks' = HookedBytes(peeked, a, 4, OnMemWrite)
        /\ UNCHANGED <<seed, saved>>
  BY DEF DoWrite32
<1>2. a \in 0..Top - 1 /\ a \in Nat /\ w \in Seq(Nat) /\ Len(w) = 4
  BY DEF MemoryBounds
<1>3. PagesWhole(pages) /\ HooksWhole(hooks) /\ \A x \in DOMAIN bound : bound[x] = Pointer
  BY DEF MemoryInv
<1>4. asked' = [kind |-> "write", at |-> a, bytes |-> w]
  BY <1>1 DEF Asks
<1>5. seed' = seed /\ saved' = saved
  BY <1>1
<1>6. \A x \in DOMAIN bound' : bound'[x] = Pointer
  <2>1. CASE w = Pointer
    BY <1>1, <1>3, <2>1
  <2>2. CASE w # Pointer
    BY <1>1, <1>3, <2>2
  <2> QED
    BY <2>1, <2>2
<1>7. PICK h : h = IF w = Zero /\ a \in DOMAIN bound THEN HookedBytes(hooks, a, 4, OnMemRead) ELSE hooks
  OBVIOUS
<1>8. HooksWhole(h) /\ h.wps = hooks.wps /\ (hooks.hit => h.hit)
  <2>1. Sees(HookedBytes(hooks, a, 4, OnMemRead), hooks, a, 4, "r")
    BY <1>2, <1>3, FourReadsSeen
  <2> QED
    BY <2>1, <1>3, <1>7 DEF Sees
<1>9. CASE Kept(a, w)
  <2>1. pages' = pages /\ hooks' = h
    BY <1>1, <1>7, <1>9
  <2>2. MemoryInv'
    BY <1>3, <1>5, <1>6, <1>8, <2>1, MemoryKept
  <2>3. AccessIsSeen
    BY <1>4, <2>1 DEF AccessIsSeen
  <2>4. w = Zero /\ Read32(pages, a) = Pointer
    BY <1>9, <1>3 DEF Kept, Live
  <2>5. Word(pages, a) = Pointer \/ Word(pages, a) = Zero
    BY <1>2, <2>4, ReadsWord
  <2>6. CASE Word(pages, a) = Pointer
    <3>1. AccessLands
      BY <1>4, <2>1, <2>4, <2>6 DEF AccessLands
    <3> QED
      BY <3>1, <2>2, <2>3
  <2>7. CASE Word(pages, a) = Zero
    <3>1. Puts(pages', pages, a, w)
      BY <1>2, <2>1, <2>4, <2>7, ZeroIsThere
    <3>2. AccessLands
      BY <1>2, <1>4, <3>1, WriteLands
    <3> QED
      BY <3>2, <2>2, <2>3
  <2> QED
    BY <2>2, <2>3, <2>5, <2>6, <2>7
<1>10. CASE ~ Kept(a, w)
  <2>1. pages' = Write32Bytes(pages, a, w) /\ hooks' = HookedBytes(h, a, 4, OnMemWrite)
    BY <1>1, <1>7, <1>10
  <2>2. Written(pages', pages, a, w)
    BY <1>2, <1>3, <2>1, Write32Puts
  <2>3. Sees(hooks', h, a, 4, "w")
    BY <1>2, <1>8, <2>1, FourWritesSeen
  <2>4. Sees(hooks', hooks, a, Len(w), "w")
    BY <1>2, <1>8, <2>3 DEF Sees
  <2> QED
    BY <1>2, <1>4, <1>5, <1>6, <2>2, <2>4, WriteIs
<1> QED
  BY <1>9, <1>10

LEMMA Read32Is ==
    ASSUME MemoryBounds, MemoryInv, DoRead32
    PROVE  MemoryInv' /\ AccessLands /\ AccessIsSeen
<1>1. PICK a \in At :
        /\ Asks("read", a, Read32(pages, a))
        /\ hooks' = HookedBytes(hooks, a, 4, OnMemRead)
        /\ UNCHANGED <<pages, bound, seed, saved>>
  BY DEF DoRead32
<1>2. a \in 0..Top - 1 /\ a \in Nat
  BY DEF MemoryBounds
<1>3. PagesWhole(pages) /\ HooksWhole(hooks) /\ \A x \in DOMAIN bound : bound[x] = Pointer
  BY DEF MemoryInv
<1>4. PICK bs : bs = Read32(pages, a)
  OBVIOUS
<1>5. \/ bs = Word(pages, a)
      \/ bs = Pointer /\ Word(pages, a) = Zero /\ seed # Off /\ seed.at = a
  BY <1>2, <1>4, ReadsWord
<1>6. bs \in Seq(Nat) /\ Len(bs) = 4
  <2>1. Pointer \in Seq(Nat) /\ Len(Pointer) = 4
    BY DEF MemoryBounds
  <2>2. \A c \in Nat : Read8(pages, c) \in Nat
    <3> TAKE c \in Nat
    <3>1. Offset(c) \in 0..PageSize - 1
      BY Place
    <3> QED
      BY <3>1, <1>3 DEF Read8, PagesWhole
  <2>3. /\ Read8(pages, a) \in Nat /\ Read8(pages, a + 1) \in Nat
        /\ Read8(pages, a + 2) \in Nat /\ Read8(pages, a + 3) \in Nat
    BY <1>2, <2>2
  <2>4. Word(pages, a) \in Seq(Nat) /\ Len(Word(pages, a)) = 4
    BY <2>3 DEF Word
  <2> QED
    BY <2>1, <2>4, <1>5
<1>7. asked' = [kind |-> "read", at |-> a, bytes |-> bs]
  BY <1>1, <1>4 DEF Asks
<1>8. Sees(hooks', hooks, a, Len(bs), "r")
  BY <1>1, <1>2, <1>3, <1>6, FourReadsSeen
<1>9. MemoryInv'
  <2>1. HooksWhole(hooks')
    BY <1>8 DEF Sees
  <2>2. pages' = pages /\ bound' = bound /\ seed' = seed /\ saved' = saved
    BY <1>1
  <2> QED
    BY <2>1, <2>2, <1>3, MemoryKept
<1>10. AccessLands
  <2>1. asked'.kind = "read" /\ asked'.at = a /\ asked'.bytes = bs
    BY <1>7
  <2> QED
    BY <2>1, <1>5 DEF AccessLands
<1>11. AccessIsSeen
  <2>1. "read" \in {"read", "write"} /\ "r" = IF "read" = "read" THEN "r" ELSE "w"
    OBVIOUS
  <2> QED
    BY <2>1, <1>2, <1>3, <1>6, <1>7, <1>8, AccessSeen
<1> QED
  BY <1>9, <1>10, <1>11

(* The commands keep the hooks whole. *)
LEMMA CommandsKeep ==
    ASSUME MemoryBounds, NEW h, HooksWhole(h), NEW a \in Nat, NEW n \in Nat, NEW m, NEW lo, NEW hi, NEW limit
    PROVE  /\ HooksWhole(AddBreakpoint(h, a)) /\ HooksWhole(ClearBreakpoint(h, a))
           /\ HooksWhole(AddWatchpoint(h, a, n, m))
           /\ HooksWhole(ClearAll(h)) /\ HooksWhole(ClearHit(h))
           /\ HooksWhole(EnableTrace(h, lo, hi, limit)) /\ HooksWhole(EnableWriteWatchLog(h, a, n))
<1>1. /\ h = [f \in HookFields |-> h[f]] /\ h.hit \in BOOLEAN
      /\ \A w \in h.wps : w.at \in Nat /\ w.len \in Nat
  BY DEF HooksWhole
<1>2. ASSUME NEW g, g = [f \in HookFields |-> g[f]], g.hit \in BOOLEAN,
             \A w \in g.wps : w.at \in Nat /\ w.len \in Nat
      PROVE  HooksWhole(g)
  BY <1>2 DEF HooksWhole
<1>3. /\ "bps" \in HookFields /\ "wps" \in HookFields /\ "hit" \in HookFields
      /\ "trace" \in HookFields /\ "log" \in HookFields
  BY DEF HookFields
<1>4. ASSUME NEW v
      PROVE  HooksWhole([h EXCEPT !.bps = v]) /\ HooksWhole([h EXCEPT !.trace = v])
             /\ HooksWhole([h EXCEPT !.log = v])
  <2>1. HooksWhole([h EXCEPT !.bps = v])
    <3>1. PICK g : g = [h EXCEPT !.bps = v]
      OBVIOUS
    <3>2. g = [f \in HookFields |-> g[f]] /\ g.hit = h.hit /\ g.wps = h.wps
      BY <1>1, <1>3, <3>1
    <3> QED
      BY <1>1, <1>2, <3>1, <3>2
  <2>2. HooksWhole([h EXCEPT !.trace = v])
    <3>1. PICK g : g = [h EXCEPT !.trace = v]
      OBVIOUS
    <3>2. g = [f \in HookFields |-> g[f]] /\ g.hit = h.hit /\ g.wps = h.wps
      BY <1>1, <1>3, <3>1
    <3> QED
      BY <1>1, <1>2, <3>1, <3>2
  <2>3. HooksWhole([h EXCEPT !.log = v])
    <3>1. PICK g : g = [h EXCEPT !.log = v]
      OBVIOUS
    <3>2. g = [f \in HookFields |-> g[f]] /\ g.hit = h.hit /\ g.wps = h.wps
      BY <1>1, <1>3, <3>1
    <3> QED
      BY <1>1, <1>2, <3>1, <3>2
  <2> QED
    BY <2>1, <2>2, <2>3
<1>5. HooksWhole(AddBreakpoint(h, a)) /\ HooksWhole(ClearBreakpoint(h, a))
      /\ HooksWhole(EnableTrace(h, lo, hi, limit)) /\ HooksWhole(EnableWriteWatchLog(h, a, n))
  BY <1>4 DEF AddBreakpoint, ClearBreakpoint, EnableTrace, EnableWriteWatchLog
<1>6. HooksWhole(AddWatchpoint(h, a, n, m))
  <2>1. PICK x : x = [at |-> a, len |-> IF n = 0 THEN 1 ELSE n, mode |-> m]
    OBVIOUS
  <2>2. x.at \in Nat /\ x.len \in Nat
    BY <2>1
  <2>3. PICK g : g = AddWatchpoint(h, a, n, m)
    OBVIOUS
  <2>4. g = [h EXCEPT !.wps = @ \cup {x}]
    BY <2>1, <2>3 DEF AddWatchpoint
  <2>5. g = [f \in HookFields |-> g[f]] /\ g.hit = h.hit /\ g.wps = h.wps \cup {x}
    BY <1>1, <1>3, <2>4
  <2>6. \A w \in g.wps : w.at \in Nat /\ w.len \in Nat
    BY <1>1, <2>2, <2>5
  <2> QED
    BY <1>1, <1>2, <2>3, <2>5, <2>6
<1>7. HooksWhole(ClearHit(h))
  <2>1. PICK g : g = ClearHit(h)
    OBVIOUS
  <2>2. g = [f \in HookFields |-> g[f]] /\ g.hit = FALSE /\ g.wps = h.wps
    BY <1>1, <1>3, <2>1 DEF ClearHit
  <2> QED
    BY <1>1, <1>2, <2>1, <2>2
<1>8. HooksWhole(ClearAll(h))
  <2>1. PICK g : g = ClearAll(h)
    OBVIOUS
  <2>2. g = [f \in HookFields |-> g[f]] /\ g.hit = FALSE /\ g.wps = {}
    BY <1>1, <1>3, <2>1 DEF ClearAll
  <2> QED
    BY <1>2, <2>1, <2>2
<1> QED
  BY <1>5, <1>6, <1>7, <1>8

LEMMA ExecKeeps ==
    ASSUME NEW h, HooksWhole(h), NEW pc
    PROVE  HooksWhole(OnExec(h, pc))
<1>1. ASSUME NEW g, HooksWhole(g), NEW f \in {"pc", "trace"}, NEW v
      PROVE  HooksWhole([g EXCEPT ![f] = v])
  <2>1. PICK k : k = [g EXCEPT ![f] = v]
    OBVIOUS
  <2>2. /\ g = [x \in HookFields |-> g[x]] /\ g.hit \in BOOLEAN
        /\ \A w \in g.wps : w.at \in Nat /\ w.len \in Nat
    BY <1>1 DEF HooksWhole
  <2>3. k = [x \in HookFields |-> k[x]] /\ k.hit = g.hit /\ k.wps = g.wps
    BY <2>1, <2>2 DEF HookFields
  <2> QED
    BY <2>1, <2>2, <2>3 DEF HooksWhole
<1>2. ASSUME NEW g, HooksWhole(g)
      PROVE  HooksWhole([g EXCEPT !.hit = TRUE])
  <2>1. PICK k : k = [g EXCEPT !.hit = TRUE]
    OBVIOUS
  <2>2. /\ g = [x \in HookFields |-> g[x]]
        /\ \A w \in g.wps : w.at \in Nat /\ w.len \in Nat
    BY <1>2 DEF HooksWhole
  <2>3. k = [x \in HookFields |-> k[x]] /\ k.hit = TRUE /\ k.wps = g.wps
    BY <2>1, <2>2 DEF HookFields
  <2> QED
    BY <2>1, <2>2, <2>3 DEF HooksWhole
<1>3. PICK g : g = IF h.log = Off THEN h ELSE [h EXCEPT !.pc = pc]
  OBVIOUS
<1>4. HooksWhole(g)
  BY <1>1, <1>3
<1>5. HooksWhole(OnTraceSlow(g, pc))
  <2>1. HooksWhole([g EXCEPT !.trace = Off])
    BY <1>1, <1>4
  <2>2. HooksWhole([g EXCEPT !.trace.count = @ + 1])
    <3>1. PICK v : v = [g.trace EXCEPT !.count = @ + 1]
      OBVIOUS
    <3>2. HooksWhole([g EXCEPT !.trace = v])
      BY <1>1, <1>4
    <3>3. [g EXCEPT !.trace.count = @ + 1] = [g EXCEPT !.trace = v]
      BY <3>1
    <3> QED
      BY <3>2, <3>3
  <2> QED
    BY <2>1, <2>2, <1>4 DEF OnTraceSlow
<1>6. PICK k : k = OnTraceSlow(g, pc)
  OBVIOUS
<1>7. OnExec(h, pc) = IF pc \in h.bps THEN [k EXCEPT !.hit = TRUE] ELSE k
  BY <1>3, <1>6 DEF OnExec
<1> QED
  BY <1>2, <1>5, <1>6, <1>7

LEMMA ExecIs ==
    ASSUME MemoryBounds, MemoryInv, Exec
    PROVE  MemoryInv' /\ AccessLands /\ AccessIsSeen
<1>1. PICK pc \in At : /\ Asks("exec", pc, <<>>)
                       /\ hooks' = OnExec(hooks, pc)
                       /\ UNCHANGED <<pages, bound, seed, saved>>
  BY DEF Exec
<1>2. PagesWhole(pages) /\ HooksWhole(hooks) /\ \A x \in DOMAIN bound : bound[x] = Pointer
  BY DEF MemoryInv
<1>3. HooksWhole(hooks')
  BY <1>1, <1>2, ExecKeeps
<1>4. MemoryInv'
  BY <1>1, <1>2, <1>3, MemoryKept
<1>5. asked'.kind \notin {"read", "write"}
  BY <1>1 DEF Asks
<1> QED
  BY <1>4, <1>5, NoAccess

LEMMA CommandIs ==
    ASSUME MemoryBounds, MemoryInv, Command
    PROVE  MemoryInv' /\ AccessLands /\ AccessIsSeen
<1>1. /\ Asks("command", 0, <<>>) /\ UNCHANGED <<pages, bound, seed, saved>>
      /\ hooks' \in {AddBreakpoint(hooks, a) : a \in At} \cup {ClearBreakpoint(hooks, a) : a \in At}
                  \cup {AddWatchpoint(hooks, a, n, m) : a \in At, n \in {1, 2}, m \in {{"w"}, {"r", "w"}}}
                  \cup {ClearAll(hooks), ClearHit(hooks), EnableTrace(hooks, 0, 3, 1)}
                  \cup {EnableWriteWatchLog(hooks, a, 2) : a \in At}
  BY DEF Command
<1>2. PagesWhole(pages) /\ HooksWhole(hooks) /\ \A x \in DOMAIN bound : bound[x] = Pointer
  BY DEF MemoryInv
<1>3. \A a \in At : a \in Nat
  BY DEF MemoryBounds
<1>4. /\ \A a \in At : /\ HooksWhole(AddBreakpoint(hooks, a)) /\ HooksWhole(ClearBreakpoint(hooks, a))
                       /\ HooksWhole(EnableWriteWatchLog(hooks, a, 2))
      /\ \A a \in At, n \in {1, 2}, m \in {{"w"}, {"r", "w"}} : HooksWhole(AddWatchpoint(hooks, a, n, m))
      /\ HooksWhole(ClearAll(hooks)) /\ HooksWhole(ClearHit(hooks))
      /\ HooksWhole(EnableTrace(hooks, 0, 3, 1))
  BY <1>2, <1>3, CommandsKeep
<1>5. HooksWhole(hooks')
  BY <1>1, <1>4
<1>6. MemoryInv'
  BY <1>1, <1>2, <1>5, MemoryKept
<1>7. asked'.kind \notin {"read", "write"}
  BY <1>1 DEF Asks
<1> QED
  BY <1>6, <1>7, NoAccess

LEMMA SaveIs ==
    ASSUME MemoryInv, Serialize \/ Deserialize
    PROVE  MemoryInv' /\ AccessLands /\ AccessIsSeen
<1>1. /\ bound' = bound /\ seed' = seed /\ hooks' = hooks
      /\ pages' \in {saved, pages} /\ saved' \in {saved, pages}
      /\ pages' = saved => saved # Off \/ pages' = pages
      /\ asked'.kind \notin {"read", "write"}
  BY DEF Serialize, Deserialize, Asks
<1>2. PagesWhole(pages) /\ HooksWhole(hooks) /\ (saved # Off => PagesWhole(saved))
      /\ \A x \in DOMAIN bound : bound[x] = Pointer
  BY DEF MemoryInv
<1>3. PagesWhole(pages')
  BY <1>1, <1>2
<1>4. MemoryInv'
  BY <1>1, <1>2, <1>3, MemoryKept
<1> QED
  BY <1>1, <1>4, NoAccess

(* Each step of the memory lands where it was asked to, and is seen. *)
LEMMA MemoryInvStep ==
    ASSUME MemoryBounds, MemoryInv, MemoryNext
    PROVE  MemoryInv' /\ AccessLands /\ AccessIsSeen
<1>1. CASE DoWrite8
  BY <1>1, Write8Is
<1>2. CASE DoWrite16
  BY <1>2, Write16Is
<1>3. CASE DoWrite32
  BY <1>3, Write32Is
<1>4. CASE WriteBlock16
  BY <1>4, WriteBlockIs
<1>5. CASE DoRead32
  BY <1>5, Read32Is
<1>6. CASE Exec
  BY <1>6, ExecIs
<1>7. CASE Command
  BY <1>7, CommandIs
<1>8. CASE Serialize \/ Deserialize
  BY <1>8, SaveIs
<1> QED
  BY <1>1, <1>2, <1>3, <1>4, <1>5, <1>6, <1>7, <1>8 DEF MemoryNext

LEMMA MemoryInvStutters ==
    ASSUME MemoryInv, UNCHANGED memoryVars
    PROVE  MemoryInv'
BY DEF MemoryInv, PagesWhole, HooksWhole, memoryVars
=============================================================================
