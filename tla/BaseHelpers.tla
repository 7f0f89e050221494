---------------------------- MODULE BaseHelpers ----------------------------
(***************************************************************************)
(* The memory and string functions of AEEHelperFuncs, as ModRuntime        *)
(* (core/brew/mod_runtime.cpp) executes them on the guest's memory.  The   *)
(* address space has Space cells and addresses wrap, as the code's 32-bit  *)
(* sums do; nothing is mapped at 0.  `w' is the width of a character in    *)
(* bytes: 1 for char, 2 for AECHAR.  A string is what stands before the    *)
(* first zero, and calls are made with strings that end.                   *)
(***************************************************************************)
EXTENDS Integers, Sequences, SequencesExt

CONSTANTS
    Top,        \* last address; the code's is 2^32 - 1
    MaxCopy     \* kMaxSaneCopy: longer copies are refused

VARIABLE mem    \* the guest's memory

Bytes == {0, 65, 97}        \* the terminator, `A' and `a'

Space == Top + 1

Pointers == 1..Top

HelpersTypeOK == mem \in [0..Top -> Bytes] /\ mem[0] = 0

HelpersInit == mem \in {m \in [0..Top -> Bytes] : m[0] = 0}

Upto(n) == [i \in 1..n |-> i - 1]

Read(m, w, a) == IF w = 1 THEN m[a % Space] ELSE m[a % Space] + 256 * m[(a + 1) % Space]

Write(m, w, a, v) ==
    IF w = 1 THEN [m EXCEPT ![a % Space] = v]
    ELSE [m EXCEPT ![a % Space] = v % 256, ![(a + 1) % Space] = v \div 256]

Strlen(m, w, s) ==
    CHOOSE n \in 0..Space : /\ Read(m, w, s + n * w) = 0
                            /\ \A k \in 0..n - 1 : Read(m, w, s + k * w) # 0

Lower(c) == IF c \in 65..90 THEN c + 32 ELSE c

Upper(c) == IF c \in 97..122 THEN c - 32 ELSE c

-----------------------------------------------------------------------------
(* Functions that write.  A byte loop is a fold over its indices, so that    *)
(* source and destination may overlap as they do in the code.               *)

CopyVia(m, w, d, s, order) ==
    FoldLeft(LAMBDA x, i : Write(x, w, d + i * w, Read(x, w, s + i * w)), m, order)

Memmove_Forward(m, d, s, n) == IF n > MaxCopy THEN m ELSE CopyVia(m, 1, d, s, Upto(n))

Memmove(m, d, s, n) ==
    IF n > MaxCopy THEN m
    ELSE CopyVia(m, 1, d, s, IF d > s /\ d < (s + n) % Space THEN Reverse(Upto(n)) ELSE Upto(n))

Memset(m, d, v, n) ==
    IF n > MaxCopy THEN m ELSE FoldLeft(LAMBDA x, i : Write(x, 1, d + i, v), m, Upto(n))

Strcpy(m, w, d, s) == CopyVia(m, w, d, s, Upto(Strlen(m, w, s) + 1))

Wstrcpy(m, d, s) == Strcpy(m, 2, d, s)

Strcat(m, w, d, s) ==
    CopyVia(m, w, d + Strlen(m, w, d) * w, s, Upto(Strlen(m, w, s) + 1))

Wstrcat(m, d, s) == Strcat(m, 2, d, s)

(* Pads with zeros, and does not terminate when the source is long enough. *)
Strncpy(m, d, s, n) ==
    IF n > MaxCopy \/ d + n > Space \/ s + n > Space THEN m
    ELSE LET len == Strlen(m, 1, s) IN
         FoldLeft(LAMBDA x, i : Write(x, 1, d + i, IF i < len THEN Read(x, 1, s + i) ELSE 0),
                  m, Upto(n))

Least(a, b) == IF a < b THEN a ELSE b

(* n characters from s, then the terminator. *)
CopyEnd(m, w, d, s, n) == Write(CopyVia(m, w, d, s, Upto(n)), w, d + n * w, 0)

Strlcpy_FullSize(m, w, d, s, siz) ==
    IF siz = 0 THEN m ELSE CopyEnd(m, w, d, s, Least(siz, Strlen(m, w, s)))

Strlcpy(m, w, d, s, siz) ==
    IF siz = 0 THEN m ELSE CopyEnd(m, w, d, s, Least(siz - 1, Strlen(m, w, s)))

Wstrlcpy(m, d, s, siz) == Strlcpy(m, 2, d, s, siz)

(* The destination may have no end within siz: then nothing is written. *)
Strlcat(m, w, d, s, siz) ==
    LET dst == CHOOSE n \in 0..siz : /\ n = siz \/ Read(m, w, d + n * w) = 0
                                     /\ \A k \in 0..n - 1 : Read(m, w, d + k * w) # 0
    IN  IF dst = siz THEN m
        ELSE CopyEnd(m, w, d + dst * w, s, Least(siz - dst - 1, Strlen(m, w, s)))

Wstrlcat(m, d, s, siz) == Strlcat(m, 2, d, s, siz)

(* Counts characters; a negative length takes the whole source. *)
Wstrncopyn(m, d, cb, s, len) ==
    IF d = 0 \/ cb <= 0 THEN m
    ELSE CopyEnd(m, 2, d, s, Least(IF len >= 0 THEN Least(len, cb - 1) ELSE cb - 1,
                                   Strlen(m, 2, s)))

(* From one width to the other, character by character. *)
Convert(m, from, to, s, d, n) ==
    Write(FoldLeft(LAMBDA x, i : Write(x, to, d + i * to, Read(x, from, s + i * from) % 256),
                   m, Upto(n)),
          to, d + n * to, 0)

(* The size is in bytes. *)
Strtowstr(m, s, d, bytes) ==
    IF d = 0 \/ bytes < 2 THEN m
    ELSE Convert(m, 1, 2, s, d, Least(bytes \div 2 - 1, Strlen(m, 1, s)))

Wstrtostr(m, s, d, bytes) ==
    IF d = 0 \/ bytes <= 0 THEN m
    ELSE Convert(m, 2, 1, s, d, Least(bytes - 1, Strlen(m, 2, s)))

(* The size is in characters. *)
Strexpand(m, s, count, d, chars) ==
    IF d = 0 \/ chars <= 0 THEN m
    ELSE Convert(m, 1, 2, s, d, Least(Least(count, chars - 1), Strlen(m, 1, s)))

MapText(m, w, s, Case(_)) ==
    FoldLeft(LAMBDA x, i : Write(x, w, s + i * w, Case(Read(x, w, s + i * w))),
             m, Upto(Strlen(m, w, s)))

Strlower(m, s) == MapText(m, 1, s, Lower)

Strupper(m, s) == MapText(m, 1, s, Upper)

Wstrlower(m, s) == MapText(m, 2, s, Lower)

Wstrupper(m, s) == MapText(m, 2, s, Upper)

-----------------------------------------------------------------------------
(* Functions that search and compare; a pointer or 0. *)

FirstAt(S) == IF S = {} THEN 0 ELSE CHOOSE a \in S : \A b \in S : a <= b

LastAt(S) == IF S = {} THEN 0 ELSE CHOOSE a \in S : \A b \in S : a >= b

(* Where c stands in the string, its terminator included. *)
Places(m, w, s, c) ==
    {s + i * w : i \in {j \in 0..Strlen(m, w, s) : Read(m, w, s + j * w) = c}}

Strchr(m, s, c) == FirstAt(Places(m, 1, s, c))

Wstrchr(m, s, c) == FirstAt(Places(m, 2, s, c))

Strrchr(m, s, c) == LastAt(Places(m, 1, s, c))

Wstrrchr(m, s, c) == LastAt(Places(m, 2, s, c))

Strchrend(m, s, c) == FirstAt(Places(m, 1, s, c) \cup Places(m, 1, s, 0))

Memchr(m, s, c, n) ==
    IF n > MaxCopy \/ s + n > Space THEN 0 ELSE FirstAt({a \in s..s + n - 1 : m[a] = c})

Memrchr(m, s, c, n) == LastAt({s + i : i \in {j \in 0..n - 1 : Read(m, 1, s + j) = c}})

(* Is there s, character by character under Case, what stands at needle? *)
Here(m, s, needle, Case(_)) ==
    \A j \in 0..Strlen(m, 1, needle) - 1 :
        Case(Read(m, 1, s + j)) = Case(Read(m, 1, needle + j))

Same(c) == c

Strstr(m, hay, needle) ==
    IF Strlen(m, 1, needle) = 0 THEN hay
    ELSE FirstAt({a \in hay..hay + Strlen(m, 1, hay) - 1 : Here(m, a, needle, Same)})

Stristr(m, hay, needle) ==
    IF Strlen(m, 1, needle) = 0 THEN hay
    ELSE FirstAt({a \in hay..hay + Strlen(m, 1, hay) - 1 : Here(m, a, needle, Lower)})

Memstr(m, hay, needle, len) ==
    IF Strlen(m, 1, needle) = 0 THEN hay
    ELSE FirstAt({a \in hay..hay + len - Strlen(m, 1, needle) : Here(m, a, needle, Same)})

Strbegins(m, part, whole) == Here(m, whole, part, Same)

Stribegins(m, part, whole) == Here(m, whole, part, Lower)

Strends(m, part, whole) ==
    LET p == Strlen(m, 1, part)  n == Strlen(m, 1, whole) IN
    p <= n /\ Here(m, whole + n - p, part, Same)

(* After the last separator, `A' here. *)
Basename(m, s) ==
    LET at == LastAt({s + i : i \in {j \in 0..Strlen(m, 1, s) - 1 : m[(s + j) % Space] = 65}})
    IN  IF at = 0 THEN s ELSE at + 1

(* The first place of at most n at which the two differ or both end. *)
Stops(m, w, a, b, n, Case(_)) ==
    CHOOSE i \in 0..n :
        /\ i = n \/ Case(Read(m, w, a + i * w)) # Case(Read(m, w, b + i * w))
                 \/ Read(m, w, a + i * w) = 0
        /\ \A k \in 0..i - 1 : /\ Case(Read(m, w, a + k * w)) = Case(Read(m, w, b + k * w))
                               /\ Read(m, w, a + k * w) # 0

Difference(m, w, a, b, n, Case(_)) ==
    LET i == Stops(m, w, a, b, n, Case) IN
    IF i = n THEN 0 ELSE Case(Read(m, w, a + i * w)) - Case(Read(m, w, b + i * w))

Sign(x) == IF x < 0 THEN -1 ELSE IF x > 0 THEN 1 ELSE 0

Strncmp(m, a, b, n) == Difference(m, 1, a, b, n, Same)

Strnicmp(m, a, b, n) == Sign(Difference(m, 1, a, b, n, Lower))

Wstrncmp(m, a, b, n) == Sign(Difference(m, 2, a, b, n, Same))

Strcmp(m, a, b) == Difference(m, 1, a, b, Space, Same)

Stricmp(m, a, b) == Difference(m, 1, a, b, Space, Lower)

Wstrcmp(m, a, b) == Sign(Difference(m, 2, a, b, Space, Same))

Wstricmp(m, a, b) == Sign(Difference(m, 2, a, b, Space, Lower))

Memcmp(m, a, b, n) ==
    IF n > MaxCopy \/ a + n > Space \/ b + n > Space THEN 1
    ELSE LET i == CHOOSE i \in 0..n : /\ i = n \/ m[a + i] # m[b + i]
                                      /\ \A k \in 0..i - 1 : m[a + k] = m[b + k]
         IN  IF i = n THEN 0 ELSE m[a + i] - m[b + i]

-----------------------------------------------------------------------------
(* The guest calls them on memory it owns: ranges end before the address     *)
(* space does, strings are ended, and copies of strings do not overlap.      *)

Fits(a, n) == a + n <= Space

Ends(m, w, s) == \E n \in 0..Space : Fits(s, (n + 1) * w) /\ Read(m, w, s + n * w) = 0

SizeOf(m, w, s) == (Strlen(m, w, s) + 1) * w

Apart(a, n, b, k) == a + n <= b \/ b + k <= a

(* A destination of n characters and an ended source elsewhere. *)
Valid(m, w, d, n, s) == Fits(d, n * w) /\ Ends(m, w, s) /\ Apart(d, n * w, s, SizeOf(m, w, s))

CopyBytes ==
    \E d, s \in Pointers, n \in 0..Top :
        Fits(d, n) /\ Fits(s, n) /\ mem' = Memmove(mem, d, s, n)

FillBytes == \E d \in Pointers, v \in Bytes, n \in 0..Top : Fits(d, n) /\ mem' = Memset(mem, d, v, n)

CopyText ==
    \E w \in {1, 2}, d, s \in Pointers, n \in 0..Top :
        /\ Valid(mem, w, d, n, s)
        /\ \/ n > Strlen(mem, w, s) /\ mem' = Strcpy(mem, w, d, s)
           \/ w = 1 /\ mem' = Strncpy(mem, d, s, n)
           \/ mem' = Strlcpy(mem, w, d, s, n)
           \/ w = 2 /\ \E len \in -1..n : mem' = Wstrncopyn(mem, d, n, s, len)

AppendText ==
    \E w \in {1, 2}, d, s \in Pointers, n \in 0..Top :
        /\ Valid(mem, w, d, n, s) /\ Ends(mem, w, d)
        /\ \/ n > Strlen(mem, w, d) + Strlen(mem, w, s) /\ mem' = Strcat(mem, w, d, s)
           \/ mem' = Strlcat(mem, w, d, s, n)

ConvertText ==
    \E d, s \in Pointers, n \in 0..Top :
        \/ Valid(mem, 1, d, n, s) /\ mem' = Strtowstr(mem, s, d, n)
        \/ Ends(mem, 2, s) /\ Fits(d, n) /\ Apart(d, n, s, SizeOf(mem, 2, s))
           /\ mem' = Wstrtostr(mem, s, d, n)
        \/ Ends(mem, 1, s) /\ Fits(d, 2 * n) /\ Apart(d, 2 * n, s, SizeOf(mem, 1, s))
           /\ \E count \in 0..n : mem' = Strexpand(mem, s, count, d, n)

ChangeCase ==
    \E s \in Pointers :
        \/ Ends(mem, 1, s) /\ mem' \in {Strlower(mem, s), Strupper(mem, s)}
        \/ Ends(mem, 2, s) /\ mem' \in {Wstrlower(mem, s), Wstrupper(mem, s)}

HelpersNext ==
    CopyBytes \/ FillBytes \/ CopyText \/ AppendText \/ ConvertText \/ ChangeCase

HelpersSpec == HelpersInit /\ [][HelpersNext]_mem

-----------------------------------------------------------------------------
(* Properties. *)

Text(m, w, s) == [i \in 1..Strlen(m, w, s) |-> Read(m, w, s + (i - 1) * w)]

Prefix(t, n) == SubSeq(t, 1, Least(n, Len(t)))

(* m is the memory after a function that was given n bytes at d: it wrote
   nowhere else and left the text t there, ended. *)
Wrote(m, w, d, n, t) ==
    /\ \A a \in 0..Top : m[a] # mem[a] => a \in d..d + n - 1
    /\ Ends(m, w, d) /\ Text(m, w, d) = t

(* Every bounded text function (MemcpyImpl to WstrlcatImpl, StrtowstrImpl,
   WstrtostrImpl, WstrncopynImpl, StrexpandImpl) writes only inside the size
   its caller states, in the unit it states it in, and leaves the longest front
   of the right text there, ended; a move survives any overlap. *)
BuffersRespected ==
    \A d, s \in Pointers, n \in 1..Top :
        /\ Fits(d, n) /\ Fits(s, n) /\ n <= MaxCopy =>
               Memmove(mem, d, s, n) =
                   [a \in 0..Top |-> IF a \in d..d + n - 1 THEN mem[s + a - d] ELSE mem[a]]
        /\ \A w \in {1, 2} : Valid(mem, w, d, n, s) =>
               /\ Wrote(Strlcpy(mem, w, d, s, n), w, d, n * w, Prefix(Text(mem, w, s), n - 1))
               /\ Ends(mem, w, d) /\ Strlen(mem, w, d) < n =>
                      Wrote(Strlcat(mem, w, d, s, n), w, d, n * w,
                            Prefix(Text(mem, w, d) \o Text(mem, w, s), n - 1))
               /\ w = 2 => \A len \in -1..n :
                      Wrote(Wstrncopyn(mem, d, n, s, len), 2, d, n * 2,
                            Prefix(Text(mem, 2, s), IF len = -1 THEN n - 1 ELSE Least(len, n - 1)))
        /\ Valid(mem, 1, d, n, s) /\ n > 1 =>
               Wrote(Strtowstr(mem, s, d, n), 2, d, n, Prefix(Text(mem, 1, s), n \div 2 - 1))
        /\ Fits(d, 2 * n) /\ Ends(mem, 1, s) /\ Apart(d, 2 * n, s, SizeOf(mem, 1, s)) =>
               Wrote(Strexpand(mem, s, n, d, n), 2, d, 2 * n, Prefix(Text(mem, 1, s), n - 1))

CaseFolded(t) == [i \in DOMAIN t |-> Lower(t[i])]

(* What the first occurrence of t in the text at s is, as a pointer. *)
Occurrence(s, whole, t) ==
    FirstAt({s + i : i \in {j \in 0..Len(whole) - Len(t) : SubSeq(whole, j + 1, j + Len(t)) = t}})

(* Searches and comparisons agree with the texts: the first (last) occurrence,
   0 when there is none; equal exactly for equal texts, up to n and up to case,
   and of opposite sign for swapped arguments (StrstrImpl, StristrImpl,
   MemstrImpl, StrbeginsImpl, StrendsImpl, StrcmpImpl and their kin). *)
SearchesAgree ==
    \A a, b \in {p \in Pointers : Ends(mem, 1, p)} :
        LET x == Text(mem, 1, a)  y == Text(mem, 1, b) IN
        /\ y # <<>> => /\ Strstr(mem, a, b) = Occurrence(a, x, y)
                       /\ Stristr(mem, a, b) = Occurrence(a, CaseFolded(x), CaseFolded(y))
                       /\ Memstr(mem, a, b, Len(x)) = Strstr(mem, a, b)
        /\ Strbegins(mem, b, a) <=> Prefix(x, Len(y)) = y
        /\ Strends(mem, b, a) <=> Len(y) <= Len(x) /\ SubSeq(x, Len(x) - Len(y) + 1, Len(x)) = y
        /\ Strcmp(mem, a, b) = 0 <=> x = y
        /\ Stricmp(mem, a, b) = 0 <=> CaseFolded(x) = CaseFolded(y)
        /\ Sign(Strcmp(mem, a, b)) = -Sign(Strcmp(mem, b, a))
        /\ \A n \in 1..Top :
               /\ Strncmp(mem, a, b, n) = 0 <=> Prefix(x, n) = Prefix(y, n)
               /\ Strnicmp(mem, a, b, n) = 0 <=> Prefix(CaseFolded(x), n) = Prefix(CaseFolded(y), n)
        /\ \A c \in Bytes \ {0} :
               /\ Memchr(mem, a, c, Len(x)) = Strchr(mem, a, c)
               /\ Memrchr(mem, a, c, Len(x)) = Strrchr(mem, a, c)
=============================================================================
