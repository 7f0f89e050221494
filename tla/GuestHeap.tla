----------------------------- MODULE GuestHeap -----------------------------
(***************************************************************************)
(* The guest's heap: ModRuntime::Allocate and Reallocate                   *)
(* (core/brew/mod_runtime.cpp), the functions of AEEHelperFuncs that reach *)
(* them, and IHeap (core/brew/heap_hle.cpp).  The allocator bumps a cursor *)
(* and never frees.  The guest's memory is saved and loaded; the cursor    *)
(* and the sizes are not (core/save_state.h): a state that another process *)
(* saved is outside the model.                                             *)
(***************************************************************************)
EXTENDS Integers, FiniteSets

CONSTANTS
    HeapBytes,      \* size of the heap region, whole words
    Word,           \* every block begins at a multiple of it; 4 in the code
    MaxBlocks       \* bound: blocks the guest holds at a time

VARIABLES
    cursor,     \* heap_cursor_, from the start of the region
    sizes,      \* allocation_sizes_: addresses to the size asked for
    bytes,      \* the region in the guest's memory
    held,       \* the blocks the guest holds, as it knows them
    saved       \* the guest's part of a saved state

heapVars == <<cursor, sizes, bytes, held, saved>>

Heap == 0..HeapBytes - 1

Values == {0, 1}

Null == HeapBytes + Word    \* no block begins there

NoSave == [bytes |-> <<>>, held |-> {}]

Cells(b) == b.at..b.at + b.size - 1

Content(m, b) == [i \in 0..b.size - 1 |-> m[b.at + i]]

HeapTypeOK ==
    /\ cursor \in 0..HeapBytes /\ cursor % Word = 0
    /\ \A a \in DOMAIN sizes : a % Word = 0 /\ a + sizes[a] <= cursor
    /\ bytes \in [Heap -> Values]
    /\ \A b \in held : b.at % Word = 0 /\ b.at + b.size <= HeapBytes

HeapInit ==
    /\ cursor = 0 /\ sizes = [a \in {} |-> 0] /\ bytes = [a \in Heap |-> 0]
    /\ held = {} /\ saved = NoSave

-----------------------------------------------------------------------------
(* The allocator. *)

Aligned_Down(size) == (size \div Word) * Word

Aligned(size) == ((size + Word - 1) \div Word) * Word

HeapAvail == HeapBytes - cursor

Allocate(size) == IF Aligned(size) > HeapAvail THEN Null ELSE cursor

Zeroed(m, at, n) == [a \in Heap |-> IF a \in at..at + n - 1 THEN 0 ELSE m[a]]

(* Byte by byte, upwards. *)
Copied(m, to, from, n) ==
    [a \in Heap |-> IF a \in to..to + n - 1 /\ from + (a - to) \in Heap
                    THEN m[from + (a - to)] ELSE m[a]]

Least(S) == CHOOSE n \in S : \A m \in S : n <= m

CopyLength(old, size) ==
    IF old \in DOMAIN sizes THEN Least({size, sizes[old]}) ELSE size

(* Allocate changes the cursor, the sizes and, unless the caller asked for no
   clearing, the block; `fill' is what the caller does to it then. *)
Allocated(size, clear, Fill(_)) ==
    LET at == Allocate(size) IN
    IF at = Null THEN UNCHANGED <<cursor, sizes, bytes, held>>
    ELSE /\ cursor' = cursor + Aligned(size)
         /\ sizes' = [a \in DOMAIN sizes \cup {at} |-> IF a = at THEN size ELSE sizes[a]]
         /\ bytes' = Fill(IF clear THEN Zeroed(bytes, at, Aligned(size)) ELSE bytes)
         /\ Cardinality(held) < MaxBlocks
         /\ held' = held \cup {[at |-> at, size |-> size]}

Nothing(m) == m

MallocImpl(size, clear) == Allocated(size, clear, Nothing) /\ UNCHANGED saved

(* The old block stays as it is. *)
Reallocate(b, size, clear) ==
    Allocated(size, clear, LAMBDA m : Copied(m, cursor, b.at, CopyLength(b.at, size)))

ReallocImpl(b, size, clear) == Reallocate(b, size, clear) /\ UNCHANGED saved

(* The variable at pp keeps the old block when there is no space. *)
ErrRealloc(b, size) ==
    /\ IF Allocate(size) = Null THEN UNCHANGED <<cursor, sizes, bytes, held>>
       ELSE Reallocate(b, size, TRUE)
    /\ UNCHANGED saved

(* A string of characters of w bytes that ends inside the block. *)
Ended(b, w) == \E n \in 0..b.size : /\ (n + 1) * w <= b.size
                                    /\ \A k \in 0..w - 1 : bytes[b.at + n * w + k] = 0

TextLength(b, w) ==
    Least({n \in 0..b.size : (n + 1) * w <= b.size
                           /\ \A k \in 0..w - 1 : bytes[b.at + n * w + k] = 0})

Duplicate(b, w) ==
    LET n == (TextLength(b, w) + 1) * w IN
    /\ Allocated(n, TRUE, LAMBDA m : Copied(m, cursor, b.at, n))
    /\ UNCHANGED saved

Strdup(b) == Ended(b, 1) /\ Duplicate(b, 1)

Wstrdup(b) == Ended(b, 2) /\ Duplicate(b, 2)

-----------------------------------------------------------------------------
(* IHeap: never asks for nothing. *)

Positive(size) == IF size = 0 THEN 1 ELSE size

HeapMalloc(size) == MallocImpl(Positive(size), TRUE)

HeapRealloc(b, size) == ReallocImpl(b, Positive(size), TRUE)

HeapStrDup(b) == Ended(b, 2) /\ Duplicate(b, 2)

(* free_fn_ does nothing: the guest forgets the block. *)
Free(b) == held' = held \ {b} /\ UNCHANGED <<cursor, sizes, bytes, saved>>

CheckAvail(request) == HeapAvail >= request

-----------------------------------------------------------------------------
(* The guest, and saved states. *)

Store(b, a, v) == bytes' = [bytes EXCEPT ![a] = v] /\ UNCHANGED <<cursor, sizes, held, saved>>

SaveHeap ==
    /\ saved = NoSave    \* bound: one state is saved
    /\ saved' = [bytes |-> bytes, held |-> held]
    /\ UNCHANGED <<cursor, sizes, bytes, held>>

(* F2, in the process that saved: its cursor went on. *)
LoadHeap ==
    /\ saved # NoSave
    /\ bytes' = saved.bytes /\ held' = saved.held
    /\ UNCHANGED <<cursor, sizes, saved>>

Ask ==
    \E size \in 0..HeapBytes :
        \/ \E clear \in BOOLEAN : MallocImpl(size, clear)
        \/ HeapMalloc(size)
        \/ \E b \in held : \/ \E clear \in BOOLEAN : ReallocImpl(b, size, clear)
                           \/ ErrRealloc(b, size) \/ HeapRealloc(b, size)

AskCopy == \E b \in held : Strdup(b) \/ Wstrdup(b) \/ HeapStrDup(b)

Forget == \E b \in held : Free(b)

Use == \E b \in held : \E a \in Cells(b), v \in Values : Store(b, a, v)

HeapNext == Ask \/ AskCopy \/ Forget \/ Use \/ SaveHeap \/ LoadHeap

HeapSpec == HeapInit /\ [][HeapNext]_heapVars

-----------------------------------------------------------------------------
(* Properties. *)

(* No two blocks the guest holds share a byte, whatever order of malloc,
   realloc, free and state loads it made, and every block lies below the cursor,
   where the next one begins (ModRuntime::Allocate). *)
BlocksApart ==
    /\ \A b, c \in held : b # c => Cells(b) \cap Cells(c) = {}
    /\ \A b \in held : b.at + b.size <= cursor

(* What a new block begins with after Reallocate: the old one's content as far
   as both go, and nothing of its neighbours'. *)
ReallocFaithful(b, size) ==
    LET m == Copied(Zeroed(bytes, cursor, Aligned(size)), cursor, b.at, CopyLength(b.at, size)) IN
    \A i \in 0..size - 1 : m[cursor + i] = IF i < b.size THEN bytes[b.at + i] ELSE 0

(* A step that allocates leaves every block the guest held as it was
   (ModRuntime::Allocate, Reallocate, the strdups), realloc carries exactly the
   old block over, and IHeap::CheckAvail says yes exactly when malloc finds the
   space. *)
AllocationSpares ==
    /\ cursor' > cursor => \A b \in held : Content(bytes', b) = Content(bytes, b)
    /\ \A n \in 0..HeapBytes :
           /\ CheckAvail(n) <=> Allocate(n) # Null
           /\ Allocate(n) # Null => \A b \in held : b.size > 0 => ReallocFaithful(b, n)

BlocksKept == [][AllocationSpares]_heapVars

-----------------------------------------------------------------------------
(* What the proofs need to know of the blocks: those the guest holds, and those it
   held when it saved, were cut off below the cursor, and the allocator knows the
   size of every one that has a byte. *)

HeapBounds == HeapBytes \in Nat /\ Word \in Nat \ {0} /\ HeapBytes % Word = 0

Known(blocks) ==
    /\ blocks \subseteq [at : Heap \cup {HeapBytes}, size : 0..HeapBytes]
    /\ \A b \in blocks :
           /\ b.at % Word = 0 /\ b.at + b.size <= cursor
           /\ b.size > 0 => b.at \in DOMAIN sizes /\ sizes[b.at] = b.size
    /\ \A b, c \in blocks : b # c => Cells(b) \cap Cells(c) = {}

HeapInv ==
    /\ cursor \in 0..HeapBytes /\ cursor % Word = 0
    /\ \A a \in DOMAIN sizes : a \in Nat /\ a % Word = 0 /\ sizes[a] \in Nat /\ a + sizes[a] <= cursor
    /\ bytes \in [Heap -> Values]
    /\ Known(held)
    /\ saved # NoSave => saved.bytes \in [Heap -> Values] /\ Known(saved.held)
=============================================================================
