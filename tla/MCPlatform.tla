----------------------------- MODULE MCPlatform -----------------------------
(***************************************************************************)
(* The parts of the platform below and beside the main loop, checked in    *)
(* one run: the core and its memory, the table of helpers and what the     *)
(* helpers compute, the objects of the shell, files, graphics, widgets,    *)
(* databases, extensions, pad and images.                                  *)
(*                                                                         *)
(* Each module is a machine of its own; a behaviour here is a behaviour of *)
(* the one `subject' names, on a small instance.  The parts have different *)
(* variables, which v1, v2, ... of PlatformParts stand for in their order  *)
(* of declaration; a part leaves those past its last one alone.  At the    *)
(* end, what is proved of a part is carried over to the whole.             *)
(***************************************************************************)
EXTENDS Integers, FiniteSets, Vectors, PlatformParts

CONSTANTS
    \* the widgets: how many, the title's handlers, the items it asks for, the largest
    \* coordinate and the positions it passes; a bound
    MaxMade, TitleHandlers, WidgetItems, HoldingItems, ScreenEdge, Positions, MaxWidgetCalls,
    \* the memory: addresses, bytes of a page, a trace or a log that is not open, the
    \* addresses accessed, the word of a media object, the words written; a bound
    MemoryTop, MemoryPage, Off, Accessed, MediaPointer, WrittenWords, MaxAccesses,
    \* the files: the title's, those beside it, the names and bytes it uses; bounds
    Shipped, Loose, PathNames, FileWrites, MaxFile, MaxHandles, MaxFileOps,
    \* the vertex arrays: the end of the addresses, kMaxDrawVertices,
    \* kMaxTextureUploadBytes, what the title passes; a bound
    ArraysTop, DrawnVertices, UploadBytes, GlPointers, GlStrides, GlIndices, MaxGlCalls,
    \* the databases: the objects and the bytes of scratch there is room for, those of
    \* a pointer, the answers of queries; bounds
    SqlObjects, ScratchBytes, PointerBytes, SqlTables, SqlDepth, MaxSqlCalls,
    \* the sort: kMaxCount, the keys; a bound on the arrays
    SortCount, SortLongest, SortKeys,
    \* the clock: its values, what a read and a turn of the loop add, what is waited for
    ClockValues, ClockPerRead, ClockTick, ClockWait,
    \* the lines: the files read; a bound
    LineTexts, MaxSources

VARIABLE subject

parts == <<subject, v1, v2, v3, v4, v5, v6, v7, v8, v9, v10, v11>>

\* the variables from the n-th on, which a part of n - 1 variables does not use
Fixed11 == v11 = 0
Fixed10 == v10 = 0 /\ Fixed11
Fixed9 == v9 = 0 /\ Fixed10
Fixed8 == v8 = 0 /\ Fixed9
Fixed7 == v7 = 0 /\ Fixed8
Fixed6 == v6 = 0 /\ Fixed7
Fixed5 == v5 = 0 /\ Fixed6
Fixed4 == v4 = 0 /\ Fixed5
Fixed3 == v3 = 0 /\ Fixed4
Fixed2 == v2 = 0 /\ Fixed3

Same11 == UNCHANGED v11 /\ UNCHANGED subject
Same10 == UNCHANGED v10 /\ Same11
Same9 == UNCHANGED v9 /\ Same10
Same8 == UNCHANGED v8 /\ Same9
Same7 == UNCHANGED v7 /\ Same8
Same6 == UNCHANGED v6 /\ Same7
Same5 == UNCHANGED v5 /\ Same6
Same4 == UNCHANGED v4 /\ Same5
Same3 == UNCHANGED v3 /\ Same4
Same2 == UNCHANGED v2 /\ Same3
Same12 == UNCHANGED subject

-----------------------------------------------------------------------------
(* The arena of the DIBs and the rings of the compatible bitmaps: what lies where, and
   a ring comes round only when its pages are used up (IDisplay, IBitmap). *)
LEMMA ScreenAreas ==
    ASSUME NEW w, NEW h, NEW m, NEW n, m \in Nat, n \in Nat, w \in 0..m, h \in 0..n
    PROVE  w * h \in Nat /\ w * h <= m * n
<1>1. w \in Nat /\ h \in Nat /\ w <= m /\ h <= n
  OBVIOUS
<1>2. w * h \in Nat /\ m * n \in Nat /\ m * h \in Nat
  BY <1>1
<1>3. w * h <= m * h
  BY <1>1
<1>4. m * h <= m * n
  BY <1>1
<1> QED
  BY <1>2, <1>3, <1>4

LEMMA QuotientsInOrder ==
    ASSUME NEW a \in Nat, NEW b \in Nat, a <= b, NEW d \in Nat \ {0}
    PROVE  a \div d \in Nat /\ b \div d \in Nat /\ a \div d <= b \div d
<1> DEFINE q == a \div d
           r == a % d
           u == b \div d
           v == b % d
<1>1. q \in Nat /\ r \in 0..d - 1 /\ a = d * q + r
  OBVIOUS
<1>2. u \in Nat /\ v \in 0..d - 1 /\ b = d * u + v
  OBVIOUS
<1>3. q <= u
  <2> HIDE DEF q, r, u, v
  <2> SUFFICES ASSUME u + 1 <= q
               PROVE  FALSE
    BY <1>1, <1>2
  <2>1. d * (u + 1) <= d * q
    BY <1>1, <1>2
  <2>2. d * (u + 1) = d * u + d
    BY <1>2
  <2>3. PICK x \in Nat, y \in Nat : x = d * u /\ y = d * q
    BY <1>1, <1>2
  <2> QED
    BY <1>1, <1>2, <2>1, <2>2, <2>3
<1> QED
  BY <1>1, <1>2, <1>3

(* A bitmap no larger than the screen takes no more pages. *)
LEMMA PagesFew ==
    ASSUME Screen!BitmapBounds, NEW w \in 0..Width, NEW h \in 0..Height
    PROVE  Screen!Pages(w, h) \in 0..Screen!Pages(Width, Height)
<1>1. Width \in Nat /\ Height \in Nat /\ PagePixels \in Nat \ {0}
  BY DEF Screen!BitmapBounds
<1>2. PICK x \in Nat, y \in Nat : x = w * h /\ y = Width * Height /\ x <= y
  <2>1. w * h \in Nat /\ w * h <= Width * Height
    BY <1>1, ScreenAreas
  <2>2. Width * Height \in Nat
    BY <1>1
  <2> QED
    BY <2>1, <2>2
<1>3. PICK a \in Nat, b \in Nat : a = x + PagePixels - 1 /\ b = y + PagePixels - 1 /\ a <= b
  BY <1>1, <1>2
<1>4. a \div PagePixels \in Nat /\ b \div PagePixels \in Nat /\ a \div PagePixels <= b \div PagePixels
  BY <1>1, <1>3, QuotientsInOrder
<1> QED
  BY <1>2, <1>3, <1>4 DEF Screen!Pages

LEMMA PagesAdd ==
    ASSUME NEW s \in Seq(Screen!Bitmap)
    PROVE  /\ Screen!PagesMade(s) \in [0..Len(s) -> Nat] /\ Screen!PagesMade(s)[0] = 0
           /\ \A k \in 1..Len(s) : /\ s[k].pages \in Nat
                                   /\ Screen!PagesMade(s)[k] = Screen!PagesMade(s)[k - 1] + s[k].pages
<1> DEFINE sum == CHOOSE t : t = [n \in 0..Len(s) |-> IF n = 0 THEN 0 ELSE t[n - 1] + s[n].pages]
           S == Nat
           f == [m \in S |-> [b \in Screen!Bitmap |-> m + b.pages]]
<1>1. Screen!PagesMade(s) = sum
  BY DEF Screen!PagesMade
<1>2. \A b \in Screen!Bitmap : b.pages \in Nat
  BY DEF Screen!Bitmap
<1>3. Stepping(f, S, Screen!Bitmap)
  BY <1>2 DEF Stepping
<1>3a. 0 \in S
  OBVIOUS
<1> HIDE DEF f, S
<1>4. PICK r \in [0..Len(s) -> S] :
         r[0] = 0 /\ \A k \in 1..Len(s) : r[k] = f[r[k - 1]][s[k]]
  BY <1>3, <1>3a, FoldExists
<1> USE DEF S
<1>5. PICK n \in Nat : n = Len(s) /\ \A k \in 1..n : s[k] \in Screen!Bitmap
  OBVIOUS
<1>6. \A k \in 1..n : r[k] = r[k - 1] + s[k].pages
  <2> SUFFICES ASSUME NEW k \in 1..n
               PROVE  r[k] = r[k - 1] + s[k].pages
    OBVIOUS
  <2>1. r[k - 1] \in Nat /\ s[k] \in Screen!Bitmap
    BY <1>4, <1>5
  <2> QED
    BY <1>4, <1>5, <2>1 DEF f
<1>7. r = [k \in 0..n |-> IF k = 0 THEN 0 ELSE r[k - 1] + s[k].pages]
  BY <1>4, <1>5, <1>6
<1>8. sum = [k \in 0..n |-> IF k = 0 THEN 0 ELSE sum[k - 1] + s[k].pages]
  BY <1>5, <1>7
<1> HIDE DEF sum
<1>9. \A k \in 0..n : sum[k] = r[k]
  <2> DEFINE T == {k \in 0..n : sum[k] = r[k]}
  <2>1. 0 \in T
    BY <1>4, <1>8
  <2>2. ASSUME NEW k \in 1..n, k - 1 \in T
        PROVE  k \in T
    <3>1. sum[k - 1] = r[k - 1] /\ k \in 0..n /\ k # 0
      BY <2>2
    <3>2. sum[k] = sum[k - 1] + s[k].pages
      BY <1>8, <3>1
    <3> QED
      BY <1>6, <2>2, <3>1, <3>2
  <2>3. \A k \in 0..n : k \in T
    <3> HIDE DEF T
    <3> QED
      BY <2>1, <2>2, AllUpTo
  <2> QED
    BY <2>3
<1>10. sum \in [0..n -> Nat]
  BY <1>4, <1>5, <1>8, <1>9
<1> QED
  BY <1>1, <1>2, <1>4, <1>5, <1>6, <1>9, <1>10

(* One more bitmap leaves the earlier sums. *)
LEMMA PagesGrow ==
    ASSUME NEW s \in Seq(Screen!Bitmap), NEW b \in Screen!Bitmap
    PROVE  \A k \in 0..Len(s) : Screen!PagesMade(Append(s, b))[k] = Screen!PagesMade(s)[k]
<1>1. PICK n \in Nat : n = Len(s)
  OBVIOUS
<1>2. PICK t : t = Append(s, b)
  OBVIOUS
<1>3. t \in Seq(Screen!Bitmap) /\ Len(t) = n + 1 /\ \A k \in 1..n : t[k] = s[k]
  BY <1>1, <1>2
<1> DEFINE T == {k \in 0..n : Screen!PagesMade(t)[k] = Screen!PagesMade(s)[k]}
<1>4. 0 \in T
  BY <1>3, PagesAdd
<1>5. ASSUME NEW k \in 1..n, k - 1 \in T
      PROVE  k \in T
  <2>1. Screen!PagesMade(t)[k - 1] = Screen!PagesMade(s)[k - 1] /\ k \in 1..n + 1 /\ k \in 0..n
    BY <1>5
  <2>2. Screen!PagesMade(t)[k] = Screen!PagesMade(t)[k - 1] + t[k].pages
    BY <1>3, <2>1, PagesAdd
  <2>3. Screen!PagesMade(s)[k] = Screen!PagesMade(s)[k - 1] + s[k].pages
    BY <1>1, PagesAdd
  <2> QED
    BY <1>3, <2>1, <2>2, <2>3
<1>6. \A k \in 0..n : k \in T
  <2> HIDE DEF T
  <2> QED
    BY <1>4, <1>5, AllUpTo
<1> QED
  BY <1>1, <1>2, <1>6

(* At least the pages of m itself were made since m. *)
LEMMA SumsInOrder ==
    ASSUME NEW s \in Seq(Screen!Bitmap), NEW m \in DOMAIN s
    PROVE  /\ s[m].pages \in Nat /\ Screen!PagesMade(s)[m] = Screen!PagesMade(s)[m - 1] + s[m].pages
           /\ \A k \in m..Len(s) : Screen!PagesMade(s)[m] <= Screen!PagesMade(s)[k]
           /\ \A k \in 0..Len(s) : Screen!PagesMade(s)[k] \in Nat
<1>1. PICK n \in Nat : n = Len(s) /\ m \in 1..n
  OBVIOUS
<1>2. /\ \A k \in 0..n : Screen!PagesMade(s)[k] \in Nat
      /\ \A k \in 1..n : s[k].pages \in Nat /\ Screen!PagesMade(s)[k] = Screen!PagesMade(s)[k - 1] + s[k].pages
  BY <1>1, PagesAdd
<1> DEFINE T == {j \in 0..n - m : Screen!PagesMade(s)[m] <= Screen!PagesMade(s)[m + j]}
<1>3. n - m \in Nat /\ 0 \in T
  BY <1>1, <1>2
<1>4. ASSUME NEW j \in 1..n - m, j - 1 \in T
      PROVE  j \in T
  <2>1. Screen!PagesMade(s)[m] <= Screen!PagesMade(s)[m + (j - 1)] /\ j \in 0..n - m
    BY <1>4
  <2>2. PICK k \in 1..n : k = m + j /\ k - 1 = m + (j - 1) /\ k - 1 \in 0..n /\ k \in 0..n /\ m \in 0..n
    <3>1. m \in Nat /\ j \in Nat /\ 1 <= m /\ m <= n /\ 1 <= j /\ j <= n - m
      BY <1>1
    <3>2. m + j \in 1..n /\ m + j - 1 = m + (j - 1) /\ m + j - 1 \in 0..n /\ m + j \in 0..n /\ m \in 0..n
      BY <3>1
    <3> QED
      BY <3>2
  <2>3. PICK x \in Nat, y \in Nat, z \in Nat, p \in Nat :
          x = Screen!PagesMade(s)[m] /\ y = Screen!PagesMade(s)[k - 1] /\ z = Screen!PagesMade(s)[k] /\ p = s[k].pages
    BY <1>1, <1>2, <2>2
  <2>4. z = y + p /\ x <= y
    BY <1>2, <2>1, <2>2, <2>3
  <2>5. x <= z
    BY <2>4
  <2> QED
    BY <2>1, <2>2, <2>3, <2>5
<1>5. \A j \in 0..n - m : j \in T
  <2> HIDE DEF T
  <2> QED
    BY <1>3, <1>4, AllUpTo
<1>6. ASSUME NEW k \in m..n
      PROVE  Screen!PagesMade(s)[m] <= Screen!PagesMade(s)[k]
  <2>1. PICK j \in 0..n - m : k = m + j
    <3>1. k - m \in 0..n - m /\ k = m + (k - m)
      BY <1>1
    <3> QED
      BY <3>1
  <2> QED
    BY <1>5, <2>1
<1> QED
  BY <1>1, <1>2, <1>6

LEMMA BitmapParts ==
    ASSUME Screen!BitmapBounds, NEW b \in Screen!Bitmap
    PROVE  /\ b.page \in Nat /\ b.pages \in Nat /\ b.pages <= Screen!Pages(Width, Height)
           /\ Screen!Pages(Width, Height) \in Nat /\ RingPages \in Nat /\ Screen!Pages(Width, Height) <= RingPages
<1>1. Screen!Pages(Width, Height) \in Nat
  BY PagesFew DEF Screen!BitmapBounds
<1> QED
  BY <1>1 DEF Screen!Bitmap, Screen!BitmapBounds

LEMMA RingGrows ==
    ASSUME Screen!BitmapBounds, NEW s \in Seq(Screen!Bitmap), NEW page \in 0..RingPages,
           Screen!RingApart(s), Screen!RingFollows(s, page), NEW b \in Screen!Bitmap,
           b.page = IF page + b.pages > RingPages THEN 0 ELSE page
    PROVE  /\ b.page + b.pages \in 0..RingPages
           /\ Screen!RingApart(Append(s, b)) /\ Screen!RingFollows(Append(s, b), b.page + b.pages)
<1>0. PICK r \in Nat, w \in Nat, k \in Nat, g \in Nat, c \in Nat :
        /\ r = RingPages /\ w = Screen!Pages(Width, Height) /\ k = b.pages /\ g = b.page /\ c = page
        /\ k <= w /\ w <= r
  BY BitmapParts
<1>1. g = (IF c + k > r THEN 0 ELSE c) /\ c <= r /\ Screen!Slack = r - w
  BY <1>0 DEF Screen!Slack
<1>2. g + k \in 0..r
  BY <1>0, <1>1
<1>3. PICK n \in Nat : n = Len(s) /\ DOMAIN s = 1..n
  OBVIOUS
<1>4. PICK t : t = Append(s, b)
  OBVIOUS
<1>5. /\ t \in Seq(Screen!Bitmap) /\ Len(t) = n + 1 /\ DOMAIN t = 1..n + 1 /\ t[n + 1] = b
      /\ \A m \in 1..n : t[m] = s[m]
  BY <1>3, <1>4
<1>6. \A m \in 0..n : Screen!PagesMade(t)[m] = Screen!PagesMade(s)[m]
  BY <1>3, <1>4, PagesGrow
<1>7. Screen!PagesMade(t)[n + 1] = Screen!PagesMade(s)[n] + k /\ Screen!PagesMade(s)[n] \in Nat
  <2>1. n + 1 \in 1..n + 1 /\ n + 1 - 1 = n /\ n \in 0..n
    OBVIOUS
  <2>2. Screen!PagesMade(t)[n + 1] = Screen!PagesMade(t)[n] + b.pages
    <3>1. \A i \in 1..n + 1 : Screen!PagesMade(t)[i] = Screen!PagesMade(t)[i - 1] + t[i].pages
      BY <1>5, PagesAdd
    <3> QED
      BY <1>5, <2>1, <3>1
  <2>3. Screen!PagesMade(s)[n] \in Nat
    BY <1>3, <2>1, PagesAdd
  <2> QED
    BY <1>0, <1>6, <2>1, <2>2, <2>3
<1>8. ASSUME NEW m \in 1..n, Screen!Since(t, m) <= Screen!Slack
      PROVE  /\ s[m].page + s[m].pages <= g \/ g + k <= s[m].page
             /\ \/ g + k = s[m].page + Screen!Since(t, m)
                \/ g + k <= Screen!Since(t, m) /\ s[m].page + Screen!Since(t, m) - (g + k) > Screen!Slack
  <2>1. m \in DOMAIN s /\ m - 1 \in 0..n /\ n \in m..n /\ n \in 0..n
    BY <1>3
  <2>2. s[m] \in Screen!Bitmap
    BY <2>1
  <2>3. PICK p \in Nat, a \in Nat : p = s[m].page /\ a = s[m].pages
    BY <2>2, BitmapParts
  <2>4. PICK x \in Nat, y \in Nat, z \in Nat :
          /\ x = Screen!PagesMade(s)[m - 1] /\ y = Screen!PagesMade(s)[m] /\ z = Screen!PagesMade(s)[n]
          /\ y = x + a /\ y <= z
    <3>1. Screen!PagesMade(s)[m] = Screen!PagesMade(s)[m - 1] + s[m].pages
      BY <2>1, SumsInOrder
    <3>2. Screen!PagesMade(s)[m] <= Screen!PagesMade(s)[n]
      <4>1. \A j \in m..Len(s) : Screen!PagesMade(s)[m] <= Screen!PagesMade(s)[j]
        BY <2>1, SumsInOrder
      <4> QED
        BY <1>3, <2>1, <4>1
    <3>3. Screen!PagesMade(s)[m - 1] \in Nat /\ Screen!PagesMade(s)[m] \in Nat /\ Screen!PagesMade(s)[n] \in Nat
      <4>1. \A j \in 0..Len(s) : Screen!PagesMade(s)[j] \in Nat
        BY <2>1, SumsInOrder
      <4>2. m \in 0..n
        OBVIOUS
      <4> QED
        BY <1>3, <2>1, <4>1, <4>2
    <3> QED
      BY <2>3, <3>1, <3>2, <3>3
  <2>5. PICK i \in Nat : i = z - x /\ a <= i
    BY <2>4
  <2>6. Screen!Since(s, m) = i
    BY <1>3, <2>4, <2>5 DEF Screen!Since
  <2>7. Screen!Since(t, m) = i + k
    <3>1. Screen!Since(t, m) = Screen!PagesMade(t)[n + 1] - Screen!PagesMade(t)[m - 1]
      BY <1>5 DEF Screen!Since
    <3>2. Screen!PagesMade(t)[m - 1] = x /\ Screen!PagesMade(t)[n + 1] = z + k
      BY <1>6, <1>7, <2>1, <2>4
    <3> QED
      BY <2>5, <3>1, <3>2
  <2>8. i + k <= r - w
    BY <1>1, <1>8, <2>7
  <2>9. i <= Screen!Slack
    BY <1>1, <2>8
  <2>10. c = p + i \/ (c <= i /\ p + i - c > r - w)
    BY <1>0, <1>1, <2>1, <2>3, <2>6, <2>9 DEF Screen!RingFollows
  <2>11. /\ p + a <= g \/ g + k <= p
         /\ \/ g + k = p + (i + k)
            \/ g + k <= i + k /\ p + (i + k) - (g + k) > r - w
    <3>1. k <= w /\ w <= r /\ a <= i /\ c <= r /\ g = IF c + k > r THEN 0 ELSE c
      BY <1>0, <1>1, <2>5
    <3>2. CASE c + k > r
      BY <2>8, <2>10, <3>1, <3>2
    <3>3. CASE ~(c + k > r)
      BY <2>8, <2>10, <3>1, <3>3
    <3> QED
      BY <3>2, <3>3
  <2> QED
    BY <1>1, <2>3, <2>7, <2>11
<1>9. Screen!RingApart(t)
  <2>1. ASSUME NEW m \in 1..n + 1
        PROVE  t[m].page + t[m].pages <= RingPages
    <3>1. CASE m = n + 1
      BY <1>0, <1>2, <1>5, <3>1
    <3>2. CASE m \in 1..n
      BY <1>3, <1>5, <3>2 DEF Screen!RingApart
    <3> QED
      BY <2>1, <3>1, <3>2
  <2>2. ASSUME NEW m \in 1..n + 1, NEW j \in 1..n + 1, m < j,
               Screen!PagesMade(t)[j] - Screen!PagesMade(t)[m - 1] <= Screen!Slack
        PROVE  \/ t[m].page + t[m].pages <= t[j].page
               \/ t[j].page + t[j].pages <= t[m].page
    <3>0. m \in 1..n /\ m - 1 \in 0..n
      BY <2>2
    <3>1. CASE j = n + 1
      <4>1. Screen!Since(t, m) <= Screen!Slack
        BY <1>5, <2>2, <3>1 DEF Screen!Since
      <4>2. s[m].page + s[m].pages <= g \/ g + k <= s[m].page
        BY <1>8, <3>0, <4>1
      <4> QED
        BY <1>0, <1>5, <3>0, <3>1, <4>2
    <3>2. CASE j \in 1..n
      <4>1. j \in 0..n /\ Screen!PagesMade(s)[j] - Screen!PagesMade(s)[m - 1] <= Screen!Slack
        BY <1>6, <2>2, <3>0, <3>2
      <4> QED
        BY <1>3, <1>5, <2>2, <3>0, <3>2, <4>1 DEF Screen!RingApart
    <3> QED
      BY <2>2, <3>1, <3>2
  <2> QED
    BY <1>5, <2>1, <2>2 DEF Screen!RingApart
<1>10. Screen!RingFollows(t, g + k)
  <2>1. ASSUME NEW m \in 1..n + 1, Screen!Since(t, m) <= Screen!Slack
        PROVE  \/ g + k = t[m].page + Screen!Since(t, m)
               \/ g + k <= Screen!Since(t, m) /\ t[m].page + Screen!Since(t, m) - (g + k) > Screen!Slack
    <3>1. CASE m = n + 1
      <4>1. m - 1 = n /\ n \in 0..n
        BY <3>1
      <4>2. Screen!Since(t, m) = k
        BY <1>5, <1>6, <1>7, <3>1, <4>1 DEF Screen!Since
      <4> QED
        BY <1>0, <1>5, <3>1, <4>2
    <3>2. CASE m \in 1..n
      BY <1>5, <1>8, <2>1, <3>2
    <3> QED
      BY <2>1, <3>1, <3>2
  <2> QED
    BY <1>5, <2>1 DEF Screen!RingFollows
<1> QED
  BY <1>0, <1>2, <1>4, <1>9, <1>10

-----------------------------------------------------------------------------
LEMMA CutInside ==
    ASSUME NEW at \in Int, NEW copy \in Int, NEW clipAt \in Int, NEW clipSize \in Int, NEW size \in Nat,
           NEW p \in Screen!Cut(at, copy, clipAt, clipSize, size)
    PROVE  /\ p \in 0..size - 1
           /\ p \in clipAt..clipAt + (IF clipSize > 0 THEN clipSize ELSE size) - 1
<1>1. PICK c \in Int : c = IF clipSize > 0 THEN clipSize ELSE size
  OBVIOUS
<1>2. PICK x \in Int : x = Screen!Greater(at, Screen!Greater(clipAt, 0)) /\ x >= clipAt /\ x >= 0
  <2>1. PICK y \in Int : y = Screen!Greater(clipAt, 0) /\ y >= clipAt /\ y >= 0
    BY DEF Screen!Greater
  <2> QED
    BY <2>1 DEF Screen!Greater
<1>3. PICK z \in Int : z = Screen!Lesser(at + copy, Screen!Lesser(clipAt + c, size)) /\ z <= clipAt + c /\ z <= size
  <2>1. PICK y \in Int : y = Screen!Lesser(clipAt + c, size) /\ y <= clipAt + c /\ y <= size
    BY DEF Screen!Lesser
  <2> QED
    BY <2>1 DEF Screen!Lesser
<1>4. p \in x..z - 1
  BY <1>1, <1>2, <1>3 DEF Screen!Cut
<1> QED
  BY <1>1, <1>2, <1>3, <1>4

LEMMA FilledInside ==
    ASSUME NEW r \in Int \X Int \X Int \X Int, NEW w \in Nat, NEW h \in Nat, NEW p \in Screen!Filled(r, w, h)
    PROVE  p[1] \in 0..w - 1 /\ p[2] \in 0..h - 1
<1>1. r[1] \in Int /\ r[2] \in Int /\ r[3] \in Int /\ r[4] \in Int
  OBVIOUS
<1>2. PICK a \in Int, b \in Int, c \in Int, d \in Int :
        /\ a = Screen!Greater(0, r[1]) /\ b = Screen!Lesser(w, r[1] + r[3])
        /\ c = Screen!Greater(0, r[2]) /\ d = Screen!Lesser(h, r[2] + r[4])
        /\ a >= 0 /\ c >= 0 /\ b <= w /\ d <= h
  BY <1>1 DEF Screen!Greater, Screen!Lesser
<1>3. p \in (a..b - 1) \X (c..d - 1)
  BY <1>2 DEF Screen!Filled
<1>4. p[1] \in a..b - 1 /\ p[2] \in c..d - 1
  BY <1>3
<1> QED
  BY <1>2, <1>4

LEMMA PixelInside ==
    ASSUME NEW base \in Nat, NEW w \in Nat, NEW h \in Nat, NEW x \in 0..w - 1, NEW y \in 0..h - 1
    PROVE  base + y * w + x \in base..base + w * h - 1
<1>1. y + 1 \in 0..h /\ w \in 0..w
  OBVIOUS
<1>2. (y + 1) * w <= h * w
  BY <1>1, ScreenAreas
<1>3. (y + 1) * w = y * w + w /\ h * w = w * h
  OBVIOUS
<1>4. PICK u \in Nat, v \in Nat : u = y * w /\ v = w * h
  OBVIOUS
<1>5. u + w <= v
  BY <1>2, <1>3, <1>4
<1> QED
  BY <1>4, <1>5

LEMMA PitchOf ==
    ASSUME NEW w \in Nat, NEW h \in Nat
    PROVE  Screen!Pitch(w) * h \in Nat
<1>1. PICK p \in Nat : p = Screen!Pitch(w)
  BY DEF Screen!Pitch
<1>2. p * h \in Nat
  OBVIOUS
<1> QED
  BY <1>1, <1>2

-----------------------------------------------------------------------------
LEMMA BitmapsInvInit ==
    ASSUME Screen!BitmapBounds, Screen!DisplayInit
    PROVE  Screen!BitmapsInv
<1>1. 1 \in 0..Width /\ 1 \in 0..Height /\ 0 \in 0..RingPages /\ Screen!Whole \in Int \X Int \X Int \X Int
  BY DEF Screen!BitmapBounds, Screen!Whole
<1>2. <<>> \in Seq(Screen!Bitmap)
  OBVIOUS
<1>3. v9 \in [begun : BOOLEAN, width : 0 .. Width, height : 0 .. Height, object : Nat,
                  page : 0 .. RingPages, made : Seq(Screen!Bitmap)]
  BY <1>1, <1>2 DEF Screen!DisplayInit
<1>4. Screen!RingApart(v9.made) /\ Screen!RingFollows(v9.made, v9.page)
  BY DEF Screen!DisplayInit, Screen!RingApart, Screen!RingFollows
<1>5. Screen!DibsLaid
  BY DEF Screen!DisplayInit, Screen!DibsLaid
<1>6. Screen!DrawsInside
  BY DEF Screen!DisplayInit, Screen!DrawsInside, Screen!Idle
<1> QED
  BY <1>1, <1>3, <1>4, <1>5, <1>6 DEF Screen!DisplayInit, Screen!BitmapsInv

LEMMA BitmapsInvSays ==
    ASSUME Screen!BitmapBounds, Screen!BitmapsInv
    PROVE  Screen!DrawsInside /\ Screen!BitmapsApart
<1>1. PICK n \in Nat : n = Len(v7) /\ DOMAIN v7 = 1..n
  BY DEF Screen!BitmapsInv, Screen!DibsLaid
<1>2. ASSUME NEW d \in DOMAIN v7
      PROVE  /\ v7[d].table \in Nat /\ v7[d].object \in Nat /\ v7[d].buffer \in Nat
             /\ v7[d].words \in Nat
  <2>1. v7[d] \in Screen!Dib
    BY DEF Screen!BitmapsInv, Screen!DibsLaid
  <2> QED
    BY <2>1 DEF Screen!Dib
<1>3. ASSUME NEW d \in DOMAIN v7, NEW e \in DOMAIN v7, d < e
      PROVE  Screen!DibArea(v7[d]) \cap Screen!DibArea(v7[e]) = {}
  <2>1. PICK x \in Nat, y \in Nat, a \in Nat, b \in Nat, c \in Nat :
          /\ x = v7[d].buffer /\ y = v7[d].words /\ a = v7[e].table
          /\ b = v7[e].buffer /\ c = v7[e].words
    BY <1>2
  <2>2. x + y <= a
    BY <1>3, <2>1 DEF Screen!BitmapsInv, Screen!DibsLaid
  <2> QED
    BY <1>2, <2>1, <2>2 DEF Screen!DibArea
<1>4. ASSUME NEW d \in DOMAIN v7, NEW e \in DOMAIN v7, d # e
      PROVE  Screen!DibArea(v7[d]) \cap Screen!DibArea(v7[e]) = {}
  <2>1. d < e \/ e < d
    BY <1>1, <1>4
  <2> QED
    BY <1>3, <2>1
<1>5. ASSUME NEW d \in DOMAIN v7
      PROVE  /\ v7[d].object >= v7[d].table + Screen!TableWords
             /\ v7[d].buffer + v7[d].words <= DibWords
  <2>1. PICK t \in Nat : t = v7[d].table
    BY <1>2
  <2>2. v7[d].object = t + 16 /\ v7[d].buffer + v7[d].words <= DibWords
    BY <2>1 DEF Screen!BitmapsInv, Screen!DibsLaid, Screen!TableWords
  <2> QED
    BY <2>1, <2>2 DEF Screen!TableWords
<1> QED
  BY <1>4, <1>5 DEF Screen!BitmapsInv, Screen!BitmapsApart, Screen!DibsApart

(* A drawing on the screen, and one that leaves the screen alone. *)
LEMMA OnlyDrawn ==
    ASSUME Screen!BitmapsInv, Screen!KeepBitmaps, UNCHANGED v1, Screen!DrawsInside'
    PROVE  Screen!BitmapsInv'
  BY DEF Screen!BitmapsInv, Screen!KeepBitmaps, Screen!DibsLaid

LEMMA DrawnInside ==
    ASSUME Screen!BitmapsInv, NEW what, NEW writes, NEW writable, NEW reads, NEW readable,
           Screen!Draw(what, writes, writable, reads, readable),
           writes \subseteq Screen!Pixels \cap writable, reads \subseteq readable
    PROVE  Screen!BitmapsInv'
<1>1. v10'.writes = writes /\ v10'.writable = Screen!Pixels \cap writable
      /\ v10'.reads = reads /\ v10'.readable = readable
  BY DEF Screen!Draw
<1>2. Screen!DrawsInside'
  BY <1>1 DEF Screen!DrawsInside
<1> QED
  BY <1>2, OnlyDrawn DEF Screen!Draw

LEMMA OnlyBitmaps ==
    ASSUME Screen!BitmapsInv, Screen!KeepScreen, UNCHANGED <<v7, v8, v9>>
    PROVE  Screen!BitmapsInv'
  BY DEF Screen!BitmapsInv, Screen!KeepScreen, Screen!DibsLaid, Screen!DrawsInside

LEMMA DibsGrow ==
    ASSUME Screen!BitmapBounds, Screen!DibsLaid, NEW w \in Nat, NEW h \in Nat, Screen!CreateDIBitmap(w, h)
    PROVE  Screen!DibsLaid'
<1>1. CASE UNCHANGED <<v7, v8>>
  BY <1>1 DEF Screen!DibsLaid
<1>2. CASE /\ v8 + Screen!TableReserved + Screen!ObjectWords + Screen!Pitch(w) * h <= DibWords
           /\ v7' = Append(v7, [table |-> v8, object |-> v8 + Screen!TableReserved,
                                    buffer |-> v8 + Screen!TableReserved + Screen!ObjectWords,
                                    words |-> Screen!Pitch(w) * h])
           /\ v8' = v8 + Screen!TableReserved + Screen!ObjectWords + Screen!Pitch(w) * h
  <2>1. PICK n \in Nat, x \in Nat : n = Len(v7) /\ DOMAIN v7 = 1..n /\ x = v8
    BY DEF Screen!DibsLaid
  <2>2. PICK p \in Nat : p = Screen!Pitch(w) * h
    BY PitchOf
  <2>3. PICK e : e = [table |-> x, object |-> x + 16, buffer |-> x + 16 + 9, words |-> p]
    OBVIOUS
  <2>4. x + 16 \in Nat /\ x + 16 + 9 \in Nat
    OBVIOUS
  <2>5. e \in Screen!Dib /\ e.table = x /\ e.object = x + 16 /\ e.buffer = x + 16 + 9 /\ e.words = p
    BY <2>3, <2>4 DEF Screen!Dib
  <2>6. v7' = Append(v7, e) /\ v8' = x + 16 + 9 + p /\ x + 16 + 9 + p <= DibWords
    BY <1>2, <2>1, <2>2, <2>3 DEF Screen!TableReserved, Screen!ObjectWords
  <2>7. v7 \in Seq(Screen!Dib)
    BY DEF Screen!DibsLaid
  <2>8. /\ v7' \in Seq(Screen!Dib) /\ DOMAIN v7' = 1..n + 1 /\ v7'[n + 1] = e
        /\ \A d \in 1..n : v7'[d] = v7[d]
    BY <2>1, <2>5, <2>6, <2>7
  <2>9. ASSUME NEW d \in 1..n
        PROVE  \E t \in Nat, o \in Nat, b \in Nat, l \in Nat :
                 /\ t = v7[d].table /\ o = v7[d].object /\ b = v7[d].buffer /\ l = v7[d].words
                 /\ o = t + 16 /\ b = o + 9 /\ b + l <= x /\ b + l <= DibWords
    <3>1. v7[d] \in Screen!Dib /\ d \in DOMAIN v7
      BY <2>1, <2>7
    <3>2. v7[d].table \in Nat /\ v7[d].object \in Nat /\ v7[d].buffer \in Nat /\ v7[d].words \in Nat
      BY <3>1 DEF Screen!Dib
    <3> QED
      BY <2>1, <3>1, <3>2 DEF Screen!DibsLaid, Screen!TableWords, Screen!ObjectWords
  <2>10. ASSUME NEW d \in 1..n + 1
         PROVE  /\ v7'[d].object = v7'[d].table + 16
                /\ v7'[d].buffer = v7'[d].object + 9
                /\ v7'[d].buffer + v7'[d].words <= v8'
                /\ v7'[d].buffer + v7'[d].words <= DibWords
    <3>1. CASE d = n + 1
      BY <2>5, <2>6, <2>8, <3>1
    <3>2. CASE d \in 1..n
      <4>1. PICK t \in Nat, o \in Nat, b \in Nat, l \in Nat :
              /\ t = v7[d].table /\ o = v7[d].object /\ b = v7[d].buffer /\ l = v7[d].words
              /\ o = t + 16 /\ b = o + 9 /\ b + l <= x /\ b + l <= DibWords
        BY <2>9, <3>2
      <4>2. b + l <= x + 16 + 9 + p
        BY <4>1
      <4> QED
        BY <2>6, <2>8, <3>2, <4>1, <4>2
    <3> QED
      BY <2>10, <3>1, <3>2
  <2>11. ASSUME NEW d \in 1..n + 1, NEW e2 \in 1..n + 1, d < e2
         PROVE  v7'[d].buffer + v7'[d].words <= v7'[e2].table
    <3>0. d \in 1..n
      BY <2>11
    <3>1. CASE e2 = n + 1
      <4>1. v7[d].buffer + v7[d].words <= x
        BY <2>9, <3>0
      <4> QED
        BY <2>5, <2>8, <3>0, <3>1, <4>1
    <3>2. CASE e2 \in 1..n
      BY <2>1, <2>8, <2>11, <3>0, <3>2 DEF Screen!DibsLaid
    <3> QED
      BY <2>11, <3>1, <3>2
  <2>12. v8' \in Nat
    BY <2>6
  <2>13. \A d \in DOMAIN v7' :
           /\ v7'[d].object = v7'[d].table + Screen!TableWords
           /\ v7'[d].buffer = v7'[d].object + Screen!ObjectWords
           /\ v7'[d].buffer + v7'[d].words <= v8'
           /\ v7'[d].buffer + v7'[d].words <= DibWords
    BY <2>8, <2>10 DEF Screen!TableWords, Screen!ObjectWords
  <2>14. \A d, c \in DOMAIN v7' :
           d < c => v7'[d].buffer + v7'[d].words <= v7'[c].table
    BY <2>8, <2>11
  <2> QED
    BY <2>8, <2>12, <2>13, <2>14 DEF Screen!DibsLaid
<1> QED
  <2>1. PICK x \in Nat, y \in Nat :
          x = v8 + Screen!TableReserved + Screen!ObjectWords + Screen!Pitch(w) * h /\ y = DibWords
    <3>1. PICK p \in Nat : p = Screen!Pitch(w) * h
      BY PitchOf
    <3>2. v8 \in Nat /\ DibWords \in Nat
      BY DEF Screen!DibsLaid, Screen!BitmapBounds
    <3>3. v8 + Screen!TableReserved + Screen!ObjectWords + p \in Nat
      BY <3>2 DEF Screen!TableReserved, Screen!ObjectWords
    <3> QED
      BY <3>1, <3>2, <3>3
  <2>2. CASE x > y
    BY <1>1, <2>1, <2>2 DEF Screen!CreateDIBitmap
  <2>3. CASE x <= y
    BY <1>2, <2>1, <2>3 DEF Screen!CreateDIBitmap
  <2> QED
    BY <2>1, <2>2, <2>3

LEMMA RingKept ==
    ASSUME Screen!BitmapBounds, Screen!BitmapsInv, NEW w \in Nat, NEW h \in Nat, Screen!CreateCompatibleBitmap(w, h)
    PROVE  Screen!BitmapsInv'
<1> DEFINE width == IF w # 0 THEN Screen!Lesser(w, Width) ELSE v9.width
           height == IF h # 0 THEN Screen!Lesser(h, Height) ELSE v9.height
           Ring == [begun : BOOLEAN, width : 0 .. Width, height : 0 .. Height, object : Nat,
                    page : 0 .. RingPages, made : Seq(Screen!Bitmap)]
<1>1. PICK c \in Ring : c = v9
  BY DEF Screen!BitmapsInv
<1>2. /\ c.begun \in BOOLEAN /\ c.width \in 0..Width /\ c.height \in 0..Height /\ c.object \in Nat
      /\ c.page \in 0..RingPages /\ c.made \in Seq(Screen!Bitmap)
  OBVIOUS
<1>3. PICK x \in 0..Width : x = width
  BY <1>1, <1>2 DEF Screen!Lesser, Screen!BitmapBounds
<1>4. PICK y \in 0..Height : y = height
  BY <1>1, <1>2 DEF Screen!Lesser, Screen!BitmapBounds
<1>5. PICK k \in 0..Screen!Pages(Width, Height) : k = Screen!Pages(x, y)
  BY PagesFew
<1>6. PICK o \in Nat : o = IF v9.object > RingObjects - 1 THEN 0 ELSE v9.object
  BY <1>1, <1>2
<1>7. PICK g \in Nat : g = (IF c.page + k > RingPages THEN 0 ELSE c.page)
  BY <1>2 DEF Screen!BitmapBounds
<1>8. PICK b : b = [object |-> o, page |-> g, pages |-> k, w |-> x, h |-> y]
  OBVIOUS
<1>9. b \in Screen!Bitmap /\ b.page = g /\ b.pages = k
  BY <1>8 DEF Screen!Bitmap
<1>10. Screen!PageFrom(k) = g
  BY <1>1, <1>7 DEF Screen!PageFrom
<1>11. PICK s : s = [c EXCEPT !.begun = TRUE, !.width = x, !.height = y]
  OBVIOUS
<1>12. s \in Ring /\ s.made = c.made /\ s.page = c.page
  BY <1>2, <1>11
<1>13. Screen!RingApart(c.made) /\ Screen!RingFollows(c.made, c.page) /\ Screen!DibsLaid /\ Screen!DrawsInside
       /\ v1 \in Int \X Int \X Int \X Int
  BY <1>1 DEF Screen!BitmapsInv
<1>14. Screen!DibsLaid' /\ Screen!DrawsInside' /\ v1' = v1
  BY <1>13 DEF Screen!CreateCompatibleBitmap, Screen!KeepScreen, Screen!DibsLaid, Screen!DrawsInside
<1>15. CASE v9' = s
  BY <1>12, <1>13, <1>14, <1>15 DEF Screen!BitmapsInv
<1>16. CASE v9' = [s EXCEPT !.made = Append(@, b), !.object = o + 1, !.page = g + k]
  <2>1. /\ g + k \in 0..RingPages
        /\ Screen!RingApart(Append(c.made, b)) /\ Screen!RingFollows(Append(c.made, b), g + k)
    <3>1. b.page = (IF c.page + b.pages > RingPages THEN 0 ELSE c.page)
      BY <1>7, <1>9
    <3> QED
      BY <1>2, <1>9, <1>13, <3>1, RingGrows
  <2>2. PICK t \in Seq(Screen!Bitmap) : t = Append(c.made, b)
    <3>1. Append(c.made, b) \in Seq(Screen!Bitmap)
      BY <1>2, <1>9
    <3> QED
      BY <3>1
  <2>3. PICK p \in 0..RingPages : p = g + k
    BY <2>1
  <2>4. PICK j \in Nat : j = o + 1
    OBVIOUS
  <2>5. v9' = [s EXCEPT !.made = t, !.object = j, !.page = p]
    BY <1>12, <1>16, <2>2, <2>3, <2>4
  <2>6. v9' \in Ring /\ v9'.made = t /\ v9'.page = p
    BY <1>12, <2>5
  <2> QED
    BY <1>13, <1>14, <2>1, <2>2, <2>3, <2>6 DEF Screen!BitmapsInv
<1> QED
  <2>1. v9' = (IF ~v9.begun THEN s
                   ELSE [s EXCEPT !.made = Append(@, b), !.object = o + 1, !.page = g + k])
    <3> HIDE DEF Ring
    <3> QED
      BY <1>1, <1>3, <1>4, <1>5, <1>6, <1>8, <1>9, <1>10, <1>11 DEF Screen!CreateCompatibleBitmap
  <2> QED
    BY <1>15, <1>16, <2>1

LEMMA FillInside ==
    ASSUME Screen!BitmapBounds, Screen!BitmapsInv, NEW r \in DrawnRects, NEW n \in DOMAIN v9.made, Screen!FillRect(n, r)
    PROVE  Screen!BitmapsInv'
<1>1. r \in Int \X Int \X Int \X Int /\ PagePixels \in Nat /\ Width \in Nat /\ Height \in Nat
  BY DEF Screen!BitmapBounds
<1>2. PICK b \in Screen!Bitmap : b = v9.made[n]
  <2>1. v9.made \in Seq(Screen!Bitmap)
    BY DEF Screen!BitmapsInv
  <2> QED
    BY <2>1
<1>3. PICK w \in Nat, h \in Nat, page \in Nat : w = b.w /\ h = b.h /\ page = b.page
  BY <1>1 DEF Screen!Bitmap
<1>4. PICK base \in Nat : base = page * PagePixels
  BY <1>1
<1>5. \A p \in Screen!Filled(r, w, h) : base + p[2] * w + p[1] \in base..base + w * h - 1
  <2> SUFFICES ASSUME NEW p \in Screen!Filled(r, w, h)
               PROVE  base + p[2] * w + p[1] \in base..base + w * h - 1
    OBVIOUS
  <2>1. PICK x \in 0..w - 1, y \in 0..h - 1 : x = p[1] /\ y = p[2]
    BY <1>1, FilledInside
  <2>2. base + y * w + x \in base..base + w * h - 1
    BY PixelInside
  <2> QED
    BY <2>1, <2>2
<1>6. /\ v10'.writes = {base + p[2] * w + p[1] : p \in Screen!Filled(r, w, h)}
      /\ v10'.writable = base..base + w * h - 1
      /\ v10'.reads = {} /\ v10'.readable = {}
  BY <1>2, <1>3, <1>4 DEF Screen!FillRect, Screen!Idle
<1>7. Screen!DrawsInside'
  BY <1>5, <1>6 DEF Screen!DrawsInside
<1>8. Screen!KeepBitmaps /\ UNCHANGED v1
  BY DEF Screen!FillRect
<1> QED
  BY <1>7, <1>8, OnlyDrawn

LEMMA BlitInside ==
    ASSUME Screen!BitmapBounds, Screen!BitmapsInv, NEW dest \in DrawnRects, NEW source \in BitmapSizes,
           NEW x \in 0..1, NEW y \in 0..1, Screen!BitBlt(dest, source, x, y)
    PROVE  Screen!BitmapsInv'
<1> DEFINE scaled == dest = Screen!Whole /\ x = 0 /\ y = 0 /\ source # <<Width, Height>>
           copyW == IF scaled THEN dest[3] ELSE Screen!Lesser(dest[3], source[1] - x)
           copyH == IF scaled THEN dest[4] ELSE Screen!Lesser(dest[4], source[2] - y)
           from(p) == IF scaled
                      THEN <<(p[1] * source[1]) \div dest[3], (p[2] * source[2]) \div dest[4]>>
                      ELSE <<x + p[1] - dest[1], y + p[2] - dest[2]>>
           area == Screen!Box(0, 0, source[1], source[2])
           cut == Screen!Cut(dest[1], copyW, v1[1], v1[3], Width) \X
                  Screen!Cut(dest[2], copyH, v1[2], v1[4], Height)
           drawn == {p \in cut : from(p) \in area}
<1>1. /\ dest[1] \in Int /\ dest[2] \in Int /\ dest[3] \in Int /\ dest[4] \in Int
      /\ source[1] \in Nat /\ source[2] \in Nat /\ Width \in Nat /\ Height \in Nat
      /\ v1[1] \in Int /\ v1[2] \in Int /\ v1[3] \in Int /\ v1[4] \in Int
  BY DEF Screen!BitmapBounds, Screen!BitmapsInv
<1>2. copyW \in Int /\ copyH \in Int
  BY <1>1 DEF Screen!Lesser
<1>3. Screen!Draw("blit", drawn, Screen!ClipBox, {from(p) : p \in drawn}, area)
  BY DEF Screen!BitBlt
<1>4. \A p \in drawn : p \in cut /\ from(p) \in area
  OBVIOUS
<1> HIDE DEF copyW, copyH, from, area
<1>5. ASSUME NEW p \in drawn
      PROVE  p \in Screen!Pixels \cap Screen!ClipBox
  <2>1. PICK i \in Screen!Cut(dest[1], copyW, v1[1], v1[3], Width),
             j \in Screen!Cut(dest[2], copyH, v1[2], v1[4], Height) : p = <<i, j>>
    BY <1>4
  <2>2. /\ i \in 0..Width - 1
        /\ i \in v1[1]..v1[1] + (IF v1[3] > 0 THEN v1[3] ELSE Width) - 1
    BY <1>1, <1>2, CutInside
  <2>3. /\ j \in 0..Height - 1
        /\ j \in v1[2]..v1[2] + (IF v1[4] > 0 THEN v1[4] ELSE Height) - 1
    BY <1>1, <1>2, CutInside
  <2>4. p \in Screen!Pixels
    BY <2>1, <2>2, <2>3 DEF Screen!Pixels
  <2>5. p \in Screen!ClipBox
    BY <2>1, <2>2, <2>3 DEF Screen!ClipBox, Screen!Box
  <2> QED
    BY <2>4, <2>5
<1>6. {from(p) : p \in drawn} \subseteq area
  BY <1>4
<1> HIDE DEF drawn
<1> QED
  BY <1>3, <1>5, <1>6, DrawnInside

LEMMA BitmapsInvStep ==
    ASSUME Screen!BitmapBounds, Screen!BitmapsInv, [Screen!DisplayNext]_(Screen!displayVars)
    PROVE  Screen!BitmapsInv'
<1>1. CASE UNCHANGED Screen!displayVars
  BY <1>1 DEF Screen!displayVars, Screen!BitmapsInv, Screen!DibsLaid, Screen!DrawsInside
<1>2. ASSUME NEW r \in DrawnRects, Screen!SetClipRect(r)
      PROVE  Screen!BitmapsInv'
  <2>1. v1' \in Int \X Int \X Int \X Int
    BY <1>2 DEF Screen!SetClipRect, Screen!BitmapBounds
  <2> QED
    BY <1>2, <2>1 DEF Screen!SetClipRect, Screen!KeepBitmaps, Screen!BitmapsInv, Screen!DibsLaid, Screen!DrawsInside
<1>3. ASSUME NEW what, NEW box, Screen!Draw(what, box \cap Screen!Pixels, Screen!Pixels, {}, {})
      PROVE  Screen!BitmapsInv'
  <2>1. box \cap Screen!Pixels \subseteq Screen!Pixels \cap Screen!Pixels
    OBVIOUS
  <2> QED
    BY <1>3, <2>1, DrawnInside
<1>4. CASE Screen!Update
  BY <1>4, OnlyDrawn DEF Screen!Update, Screen!BitmapsInv, Screen!DrawsInside
<1>5. ASSUME NEW b, Screen!HandOut(b) \/ Screen!SetDestination(b) \/ Screen!Release(b)
      PROVE  Screen!BitmapsInv'
  BY <1>5, OnlyBitmaps DEF Screen!HandOut, Screen!SetDestination, Screen!Release
<1>6. ASSUME NEW s \in BitmapSizes, Screen!CreateDIBitmap(s[1], s[2])
      PROVE  Screen!BitmapsInv'
  <2>1. s[1] \in Nat /\ s[2] \in Nat
    BY DEF Screen!BitmapBounds
  <2>2. Screen!DibsLaid'
    BY <1>6, <2>1, DibsGrow DEF Screen!BitmapsInv
  <2> QED
    BY <1>6, <2>2 DEF Screen!CreateDIBitmap, Screen!KeepScreen, Screen!BitmapsInv, Screen!DrawsInside
<1>7. ASSUME NEW s \in BitmapSizes \cup {<<0, 0>>}, Screen!CreateCompatibleBitmap(s[1], s[2])
      PROVE  Screen!BitmapsInv'
  <2>1. s[1] \in Nat /\ s[2] \in Nat
    BY DEF Screen!BitmapBounds
  <2> QED
    BY <1>7, <2>1, RingKept
<1>8. ASSUME NEW r \in DrawnRects, Screen!DrawRect(r)
      PROVE  Screen!BitmapsInv'
  BY <1>3, <1>8 DEF Screen!DrawRect
<1>9. ASSUME NEW x, Screen!DrawText(x, 0, 2)
      PROVE  Screen!BitmapsInv'
  BY <1>3, <1>9 DEF Screen!DrawText
<1>10. CASE \E r \in DrawnRects :
              \/ Screen!SetClipRect(r) \/ Screen!DrawRect(r)
              \/ \E s \in BitmapSizes, x, y \in 0 .. 1 : Screen!BitBlt(r, s, x, y)
              \/ \E n \in DOMAIN v9.made : Screen!FillRect(n, r)
  BY <1>2, <1>8, <1>10, BlitInside, FillInside
<1>11. CASE \E b \in {Screen!Device} \cup {<<"dib", n>> : n \in DOMAIN v7} :
              Screen!SetDestination(b) \/ Screen!AddRef(b) \/ Screen!Release(b) \/ Screen!QueryInterface(b)
  BY <1>5, <1>11 DEF Screen!AddRef, Screen!QueryInterface
<1>12. CASE Screen!GetDestination \/ Screen!GetDeviceBitmap
  BY <1>5, <1>12 DEF Screen!GetDestination, Screen!GetDeviceBitmap
<1> QED
  BY <1>1, <1>4, <1>6, <1>7, <1>9, <1>10, <1>11, <1>12 DEF Screen!DisplayNext

-----------------------------------------------------------------------------
(* The rows of the queries under way lie in the scratch area, and only the innermost
   one is whole for sure (ISQLDatabase::Exec). *)
Sql == INSTANCE SqlHle WITH
    Objects <- SqlObjects, ScratchSize <- ScratchBytes, WordSize <- PointerBytes,
    Tables <- SqlTables, MaxDepth <- SqlDepth, MaxCalls <- MaxSqlCalls,
    managerRefs <- v1, dbs <- v2, nextObject <- v3, handles <- v4, scratch <- v5,
    running <- v6, calls <- v7

(* A multiple of the word at n or above. *)
LEMMA WordAfter ==
    ASSUME Sql!SqlBounds, NEW n \in Nat
    PROVE  Sql!Aligned(n) \in Nat /\ n <= Sql!Aligned(n)
<1> DEFINE m == n + PointerBytes - 1
           q == m \div PointerBytes
           r == m % PointerBytes
<1>1. PointerBytes \in Nat /\ PointerBytes > 0 /\ m \in Nat
  BY DEF Sql!SqlBounds
<1>2. q \in Nat /\ r \in 0..PointerBytes - 1 /\ m = PointerBytes * q + r
  BY <1>1
<1>3. Sql!Aligned(n) = q * PointerBytes
  BY DEF Sql!Aligned
<1>4. q * PointerBytes = m - r
  <2> HIDE DEF m, q, r
  <2> QED
    BY <1>1, <1>2
<1>5. m - r >= n
  BY <1>1, <1>2
<1> QED
  BY <1>2, <1>3, <1>4, <1>5, <1>1

(* Parts one after another, the next free byte behind the last. *)
Stacked(placed) ==
  /\ placed \in Seq(Sql!Part)
  /\ \A p \in DOMAIN placed : placed[p].next = placed[p].at + placed[p].size
  /\ \A p, r \in DOMAIN placed : p < r => placed[p].next <= placed[r].at

LEMMA PartOf ==
    ASSUME NEW s, Stacked(s), NEW p \in DOMAIN s
    PROVE  /\ s[p].at \in Nat /\ s[p].size \in Nat /\ s[p].next \in Nat
           /\ s[p].next = s[p].at + s[p].size
<1>1. s \in Seq(Sql!Part) /\ s[p].next = s[p].at + s[p].size
  BY DEF Stacked
<1>2. PICK e \in Sql!Part : e = s[p]
  BY <1>1
<1>3. e.at \in Nat /\ e.size \in Nat /\ e.next \in Nat
  BY <1>2 DEF Sql!Part
<1> QED
  BY <1>1, <1>2, <1>3

LEMMA InSequence ==
    ASSUME NEW s, Stacked(s)
    PROVE  Len(s) \in Nat /\ DOMAIN s = 1..Len(s) /\ (Len(s) = 0 <=> s = <<>>)
  BY DEF Stacked

LEMMA FreeBehind ==
    ASSUME NEW s, Stacked(s)
    PROVE  Sql!NextFree(s) \in Nat /\ \A p \in DOMAIN s : s[p].next <= Sql!NextFree(s)
<1>1. PICK n \in Nat : n = Len(s) /\ DOMAIN s = 1..n /\ (n = 0 <=> s = <<>>)
  BY InSequence
<1>2. CASE n = 0
  <2>1. Sql!NextFree(s) = 0
    BY <1>1, <1>2 DEF Sql!NextFree
  <2> QED
    BY <1>1, <1>2, <2>1
<1>3. CASE n > 0
  <2>1. Sql!NextFree(s) = s[n].next /\ n \in DOMAIN s
    BY <1>1, <1>3 DEF Sql!NextFree
  <2>3. ASSUME NEW p \in 1..n
        PROVE  s[p].next <= s[n].next
    <3>1. CASE p = n
      <4>1. PICK x \in Nat : x = s[n].next
        BY <2>1, PartOf
      <4> QED
        BY <3>1, <4>1
    <3>2. CASE p < n
      <4>1. s[p].next <= s[n].at
        BY <1>1, <2>1, <3>2 DEF Stacked
      <4>2. PICK x \in Nat, y \in Nat, z \in Nat, w \in Nat :
               x = s[p].next /\ y = s[n].at /\ z = s[n].size /\ w = s[n].next /\ w = y + z
        <5>1. p \in DOMAIN s
          BY <1>1
        <5>2. s[p].next \in Nat
          BY <5>1, PartOf
        <5>3. s[n].at \in Nat /\ s[n].size \in Nat /\ s[n].next \in Nat /\ s[n].next = s[n].at + s[n].size
          BY <2>1, PartOf
        <5> QED
          BY <5>2, <5>3
      <4> QED
        BY <4>1, <4>2
    <3> QED
      BY <3>1, <3>2
  <2>4. s[n].next \in Nat
    BY <2>1, PartOf
  <2> QED
    BY <1>1, <2>1, <2>3, <2>4
<1> QED
  BY <1>1, <1>2, <1>3

LEMMA PushedStacked ==
    ASSUME NEW s, Stacked(s), NEW a \in Nat, Sql!NextFree(s) <= a, NEW l \in Nat
    PROVE  Stacked(Sql!Pushed(s, a, l)) /\ Sql!NextFree(Sql!Pushed(s, a, l)) = a + l
<1>1. PICK n \in Nat : n = Len(s)
  BY DEF Stacked
<1>2a. PICK m \in Nat : m = a + l
  OBVIOUS
<1>2b. PICK e : e = [at |-> a, size |-> l, next |-> m]
  OBVIOUS
<1>2. e \in Sql!Part /\ e.at = a /\ e.size = l /\ e.next = a + l
  BY <1>2a, <1>2b DEF Sql!Part
<1>3. PICK t : t = Append(s, e)
  OBVIOUS
<1>4. /\ t \in Seq(Sql!Part) /\ Len(t) = n + 1 /\ t[n + 1] = e /\ \A p \in 1..n : t[p] = s[p]
  BY <1>1, <1>2, <1>3 DEF Stacked
<1>5. Sql!Pushed(s, a, l) = t
  BY <1>2a, <1>2b, <1>3 DEF Sql!Pushed
<1>6. e.at = a /\ e.size = l /\ e.next = a + l
  BY <1>2
<1>7. \A p \in 1..n + 1 : p = n + 1 \/ p \in 1..n
  OBVIOUS
<1>8. \A p \in 1..n + 1 : t[p].next = t[p].at + t[p].size
  BY <1>1, <1>4, <1>6, <1>7 DEF Stacked
<1>9. ASSUME NEW p \in 1..n + 1, NEW r \in 1..n + 1, p < r
      PROVE  t[p].next <= t[r].at
  <2>0. p \in 1..n
    BY <1>9
  <2>1. CASE r = n + 1
    <3>0. p \in DOMAIN s
      BY <1>1, <2>0, InSequence
    <3>1. PICK x \in Nat, y \in Nat : x = s[p].next /\ y = Sql!NextFree(s) /\ x <= y
      BY <3>0, PartOf, FreeBehind
    <3> QED
      BY <1>4, <1>6, <2>0, <2>1, <3>1
  <2>2. CASE r \in 1..n
    BY <1>1, <1>4, <1>9, <2>0, <2>2 DEF Stacked
  <2> QED
    BY <1>7, <2>1, <2>2
<1>10. Sql!NextFree(t) = t[n + 1].next
  BY <1>1, <1>4 DEF Sql!NextFree
<1> QED
  BY <1>4, <1>5, <1>6, <1>8, <1>9, <1>10 DEF Stacked

LEMMA TextsStacked ==
    ASSUME NEW row \in Seq(Nat)
    PROVE  Stacked(Sql!Texts(row))
<1> DEFINE S == {s \in Seq(Sql!Part) : Stacked(s)}
           Value(s, n) == Sql!Pushed(s, Sql!NextFree(s), n + 1)
           Column(s, n) == Sql!Pushed(Value(s, n), Sql!NextFree(Value(s, n)), 2)
           f == [s \in S |-> [n \in Nat |-> Column(s, n)]]
           texts == CHOOSE t : t = [k \in 0..Len(row) |->
                      IF k = 0 THEN <<>> ELSE Column(t[k - 1], row[k])]
<1>0. \A s : s \in S <=> Stacked(s)
  BY DEF Stacked
<1>1. \A s \in S : \A n \in Nat : Column(s, n) \in S
  <2> SUFFICES ASSUME NEW s \in S, NEW n \in Nat
               PROVE  Column(s, n) \in S
    OBVIOUS
  <2>0. Stacked(s)
    BY <1>0
  <2>0a. PICK a \in Nat : a = Sql!NextFree(s)
    BY <2>0, FreeBehind
  <2>0b. PICK m \in Nat : m = n + 1
    OBVIOUS
  <2>1. PICK v : v = Sql!Pushed(s, a, m)
    OBVIOUS
  <2>1a. v = Value(s, n)
    BY <2>0a, <2>0b, <2>1
  <2>2. Stacked(v)
    BY <2>0, <2>0a, <2>1, PushedStacked
  <2>2a. PICK b \in Nat : b = Sql!NextFree(v)
    BY <2>2, FreeBehind
  <2>2b. PICK u : u = Sql!Pushed(v, b, 2)
    OBVIOUS
  <2>3. Stacked(u)
    BY <2>2, <2>2a, <2>2b, PushedStacked
  <2> QED
    BY <1>0, <2>1a, <2>2a, <2>2b, <2>3
<1>2. <<>> \in S
  BY DEF Stacked
<1>3. Sql!Texts(row) = texts[Len(row)]
  BY DEF Sql!Texts
<1> HIDE DEF S, Column
<1>4. Stepping(f, S, Nat)
  BY <1>1 DEF Stepping
<1>5. PICK r \in [0..Len(row) -> S] :
         r[0] = <<>> /\ \A k \in 1..Len(row) : r[k] = f[r[k - 1]][row[k]]
  BY <1>2, <1>4, FoldExists
<1>6. PICK n \in Nat : n = Len(row) /\ \A k \in 1..n : row[k] \in Nat
  OBVIOUS
<1>7. \A k \in 1..n : r[k] = Column(r[k - 1], row[k])
  <2> SUFFICES ASSUME NEW k \in 1..n
               PROVE  r[k] = Column(r[k - 1], row[k])
    OBVIOUS
  <2>1. r[k - 1] \in S /\ row[k] \in Nat
    BY <1>5, <1>6
  <2> QED
    BY <1>5, <1>6, <2>1
<1>8. r = [k \in 0..n |-> IF k = 0 THEN <<>> ELSE Column(r[k - 1], row[k])]
  BY <1>5, <1>6, <1>7
<1>9. texts = [k \in 0..n |-> IF k = 0 THEN <<>> ELSE Column(texts[k - 1], row[k])]
  BY <1>6, <1>8
<1> HIDE DEF texts
<1>10. \A k \in 0..n : texts[k] = r[k]
  <2> DEFINE T == {k \in 0..n : texts[k] = r[k]}
  <2>1. 0 \in T
    BY <1>5, <1>9
  <2>2. ASSUME NEW k \in 1..n, k - 1 \in T
        PROVE  k \in T
    <3>1. texts[k - 1] = r[k - 1] /\ k \in 0..n /\ k # 0
      BY <2>2
    <3>2. texts[k] = Column(texts[k - 1], row[k])
      BY <1>9, <3>1
    <3> QED
      BY <1>7, <2>2, <3>1, <3>2
  <2>3. \A k \in 0..n : k \in T
    <3> HIDE DEF T
    <3> QED
      BY <2>1, <2>2, AllUpTo
  <2> QED
    BY <2>3
<1> QED
  BY <1>0, <1>3, <1>5, <1>6, <1>10

LEMMA RowsStacked ==
    ASSUME Sql!SqlBounds, NEW row \in Seq(Nat)
    PROVE  Stacked(Sql!Laid(row))
<1>1. PICK t : t = Sql!Texts(row)
  OBVIOUS
<1>2. Stacked(t) /\ Sql!NextFree(t) \in Nat
  BY <1>1, TextsStacked, FreeBehind
<1>3. PICK a \in Nat : a = Sql!Aligned(Sql!NextFree(t)) /\ Sql!NextFree(t) <= a
  BY <1>2, WordAfter
<1>4. PICK l \in Nat : l = PointerBytes * Len(row)
  BY DEF Sql!SqlBounds
<1>5. PICK v : v = Sql!Pushed(t, a, l)
  OBVIOUS
<1>6a. Stacked(v)
  BY <1>2, <1>3, <1>5, PushedStacked
<1>6. Stacked(v) /\ Sql!NextFree(v) \in Nat
  BY <1>6a, FreeBehind
<1>7. PICK b \in Nat : b = Sql!Aligned(Sql!NextFree(v)) /\ Sql!NextFree(v) <= b
  BY <1>6, WordAfter
<1>8. Stacked(Sql!Pushed(v, b, l))
  BY <1>6, <1>7, PushedStacked
<1> QED
  BY <1>1, <1>3, <1>4, <1>5, <1>7, <1>8 DEF Sql!Laid

-----------------------------------------------------------------------------
LEMMA SqlInvInit ==
    ASSUME Sql!SqlBounds, Sql!SqlInit
    PROVE  Sql!SqlInv
  BY DEF Sql!SqlBounds, Sql!SqlInit, Sql!SqlInv, Sql!RowIsWhole, Sql!Live

LEMMA SqlInvSays ==
    ASSUME Sql!SqlBounds, Sql!SqlInv
    PROVE  Sql!ObjectsBeforeScratch /\ Sql!RowIsWhole
<1>0. PICK m \in Nat, n \in Nat : m = v3 /\ n = SqlObjects /\ m <= n
  BY DEF Sql!SqlInv, Sql!SqlBounds
<1>1. \A o \in Sql!Live : o < SqlObjects
  BY <1>0 DEF Sql!SqlInv
<1> QED
  BY <1>1 DEF Sql!SqlInv, Sql!ObjectsBeforeScratch

LEMMA QueryReturned ==
    ASSUME v6 \in Seq(Sql!Query), v6 # <<>>,
           \A k \in DOMAIN v6 : k < Len(v6) => v6[k].queried
    PROVE  /\ Sql!Outer \in Seq(Sql!Query) /\ \A k \in DOMAIN Sql!Outer : Sql!Outer[k].queried
           /\ Sql!Inner \in Sql!Query /\ Len(v6) \in DOMAIN v6
<1>1. PICK n \in Nat : n = Len(v6) /\ n > 0
  OBVIOUS
<1>2. PICK r : r = SubSeq(v6, 1, n - 1)
  OBVIOUS
<1>3. r \in Seq(Sql!Query) /\ Len(r) = n - 1 /\ \A k \in 1..n - 1 : r[k] = v6[k]
  BY <1>1, <1>2
<1>4. \A k \in 1..n - 1 : v6[k].queried
  BY <1>1
<1>5. Sql!Outer = r
  BY <1>1, <1>2 DEF Sql!Outer
<1>6. Sql!Inner \in Sql!Query
  BY <1>1 DEF Sql!Inner
<1> QED
  BY <1>1, <1>3, <1>4, <1>5, <1>6

(* A query ends: the one that waits for it was queried from. *)
LEMMA BackOut ==
    ASSUME Sql!SqlInv, v6 # <<>>, v6' = Sql!Outer, UNCHANGED <<v2, v3>>,
           v7' \in Nat, DOMAIN v5' = 0 .. ScratchBytes - 1
    PROVE  Sql!SqlInv'
<1>1. /\ Sql!Outer \in Seq(Sql!Query) /\ \A k \in DOMAIN Sql!Outer : Sql!Outer[k].queried
  BY QueryReturned DEF Sql!SqlInv
<1>2. v6' # <<>> => Sql!Inner'.queried
  BY <1>1 DEF Sql!Inner
<1>3. Sql!RowIsWhole'
  BY <1>2 DEF Sql!RowIsWhole
<1> QED
  BY <1>1, <1>3 DEF Sql!SqlInv, Sql!Live

(* The innermost query moves on. *)
LEMMA InnerMoves ==
    ASSUME Sql!SqlInv, v6 # <<>>, NEW q \in Sql!Query, v6' = Sql!WithInner(q),
           UNCHANGED <<v2, v3>>, v7' \in Nat,
           DOMAIN v5' = 0 .. ScratchBytes - 1,
           q.inCallback /\ ~q.queried =>
             \A p \in DOMAIN q.parts : \A b \in Sql!Bytes(q.parts[p]) : v5'[b] = <<q.serial, p>>
    PROVE  Sql!SqlInv'
<1>1. PICK n \in Nat : n = Len(v6) /\ n > 0 /\ v6 \in Seq(Sql!Query)
  BY DEF Sql!SqlInv
<1>2. PICK r : r = [v6 EXCEPT ![n] = q]
  OBVIOUS
<1>3. r \in Seq(Sql!Query) /\ Len(r) = n /\ r[n] = q /\ \A k \in 1..n - 1 : r[k] = v6[k]
  BY <1>1, <1>2
<1>4. v6' = r
  BY <1>1, <1>2 DEF Sql!WithInner
<1>5. \A k \in 1..n : k < n => r[k].queried
  BY <1>1, <1>3 DEF Sql!SqlInv
<1>6. Sql!Inner' = q
  BY <1>3, <1>4 DEF Sql!Inner
<1>7. Sql!RowIsWhole'
  BY <1>6 DEF Sql!RowIsWhole, Sql!Bytes
<1> QED
  BY <1>3, <1>4, <1>5, <1>7 DEF Sql!SqlInv, Sql!Live

LEMMA SqlInvStep ==
    ASSUME Sql!SqlBounds, Sql!SqlInv, [Sql!SqlNext]_(Sql!sqlVars)
    PROVE  Sql!SqlInv'
<1>1. ASSUME UNCHANGED <<v6, v5>>, v7' \in Nat,
             \/ UNCHANGED <<v2, v3>>
             \/ /\ v3' \in 0 .. SqlObjects
                /\ \A o \in Sql!Live' : o \in Nat /\ o < v3'
      PROVE  Sql!SqlInv'
  <2>1. Sql!RowIsWhole'
    BY <1>1 DEF Sql!SqlInv, Sql!RowIsWhole, Sql!Inner
  <2> QED
    BY <1>1, <2>1 DEF Sql!SqlInv, Sql!Live
<1>2. CASE UNCHANGED Sql!sqlVars \/ Sql!MgrAddRef \/ Sql!MgrRelease
  BY <1>1, <1>2 DEF Sql!sqlVars, Sql!MgrAddRef, Sql!MgrRelease, Sql!Count, Sql!KeepScratch, Sql!SqlInv
<1>3. ASSUME NEW sound \in BOOLEAN, Sql!OpenDatabase(sound)
      PROVE  Sql!SqlInv'
  <2>1. UNCHANGED <<v6, v5>> /\ v7' \in Nat
    BY <1>3 DEF Sql!OpenDatabase, Sql!Count, Sql!KeepScratch, Sql!SqlInv
  <2>2. CASE UNCHANGED <<v2, v3>>
    BY <1>1, <2>1, <2>2
  <2>3. CASE ~Sql!NoObjectLeft /\ v3' = v3 + 1 /\ Sql!Live' = Sql!Live \cup {v3}
    <3>1. v3' \in 0 .. SqlObjects
      BY <2>3 DEF Sql!NoObjectLeft, Sql!SqlInv, Sql!SqlBounds
    <3>2. \A o \in Sql!Live' : o \in Nat /\ o < v3'
      BY <2>3 DEF Sql!SqlInv
    <3> QED
      BY <1>1, <2>1, <3>1, <3>2
  <2> QED
    BY <1>3, <2>2, <2>3 DEF Sql!OpenDatabase, Sql!Live
<1>4. ASSUME NEW o \in Sql!Live, Sql!DbAddRef(o) \/ Sql!DbRelease(o)
      PROVE  Sql!SqlInv'
  <2>1. UNCHANGED <<v6, v5, v3>> /\ v7' \in Nat
    BY <1>4 DEF Sql!DbAddRef, Sql!DbRelease, Sql!Count, Sql!KeepScratch, Sql!SqlInv
  <2>2. Sql!Live' \subseteq Sql!Live
    BY <1>4 DEF Sql!DbAddRef, Sql!DbRelease, Sql!Live
  <2>3. v3' \in 0 .. SqlObjects /\ \A d \in Sql!Live' : d \in Nat /\ d < v3'
    BY <2>1, <2>2 DEF Sql!SqlInv
  <2> QED
    BY <1>1, <2>1, <2>3
<1>5. ASSUME NEW o \in Sql!Live, NEW t \in SqlTables, Sql!Exec(o, t)
      PROVE  Sql!SqlInv'
  <2>0. o \in Nat /\ t \in Seq(Seq(Nat)) /\ <<>> \in Seq(Sql!Part)
    BY DEF Sql!SqlBounds, Sql!SqlInv
  <2>0a. PICK e : e = [object |-> o, rows |-> t, inCallback |-> FALSE,
                       queried |-> FALSE, parts |-> <<>>, serial |-> 0]
    OBVIOUS
  <2>1. e \in Sql!Query /\ e = [object |-> o, rows |-> t, inCallback |-> FALSE,
                            queried |-> FALSE, parts |-> <<>>, serial |-> 0]
    BY <2>0, <2>0a DEF Sql!Query
  <2>2. PICK s : s = IF v6 = <<>> THEN v6
                     ELSE Sql!WithInner([Sql!Inner EXCEPT !.queried = TRUE])
    OBVIOUS
  <2>3. s \in Seq(Sql!Query) /\ \A k \in DOMAIN s : s[k].queried
    <3>1. CASE v6 = <<>>
      BY <2>2, <3>1 DEF Sql!SqlInv
    <3>2. CASE v6 # <<>>
      <4>1. PICK n \in Nat : n = Len(v6) /\ n > 0 /\ v6 \in Seq(Sql!Query)
        BY <3>2 DEF Sql!SqlInv
      <4>2. PICK q : q = [Sql!Inner EXCEPT !.queried = TRUE]
        OBVIOUS
      <4>3. q \in Sql!Query /\ q.queried
        BY <3>2, <4>2, QueryReturned DEF Sql!SqlInv, Sql!Query
      <4>4. s = [v6 EXCEPT ![n] = q]
        BY <2>2, <3>2, <4>1, <4>2 DEF Sql!WithInner
      <4>5. s \in Seq(Sql!Query) /\ Len(s) = n /\ s[n] = q /\ \A k \in 1..n - 1 : s[k] = v6[k]
        BY <4>1, <4>3, <4>4
      <4>6. \A k \in 1..n - 1 : v6[k].queried
        BY <4>1 DEF Sql!SqlInv
      <4> QED
        BY <4>3, <4>5, <4>6
    <3> QED
      BY <3>1, <3>2
  <2>4. v6' = Append(s, e)
    BY <1>5, <2>1, <2>2 DEF Sql!Exec
  <2>5. PICK n \in Nat : n = Len(s)
    BY <2>3
  <2>6. /\ v6' \in Seq(Sql!Query) /\ Len(v6') = n + 1 /\ v6'[n + 1] = e
        /\ \A k \in 1..n : v6'[k] = s[k]
    <3>1. s \in Seq(Sql!Query) /\ e \in Sql!Query
      BY <2>1, <2>3
    <3> QED
      BY <2>4, <2>5, <3>1
  <2>7. \A k \in DOMAIN v6' : k < Len(v6') => v6'[k].queried
    BY <2>3, <2>5, <2>6
  <2>8. ~Sql!Inner'.inCallback
    BY <2>1, <2>6 DEF Sql!Inner
  <2>9. UNCHANGED <<v2, v3, v5>> /\ v7' \in Nat
    BY <1>5 DEF Sql!Exec, Sql!Count, Sql!KeepScratch, Sql!SqlInv
  <2> QED
    BY <2>6, <2>7, <2>8, <2>9 DEF Sql!SqlInv, Sql!Live, Sql!RowIsWhole
<1>6. CASE Sql!PassRow
  <2>1. v6 # <<>> /\ Sql!Inner \in Sql!Query /\ Sql!Inner.rows # <<>> /\ v7' = v7 + 1
        /\ v7 \in Nat /\ UNCHANGED <<v2, v3>>
    BY <1>6, QueryReturned DEF Sql!PassRow, Sql!Count, Sql!SqlInv
  <2>2. PICK row \in Seq(Nat) : row = Head(Sql!Inner.rows)
    BY <2>1 DEF Sql!Query
  <2>3. PICK placed : placed = Sql!Laid(row) /\ Stacked(placed)
    BY RowsStacked
  <2> DEFINE holder(b) == {p \in DOMAIN placed :
                             Sql!Fits(placed[p]) /\ b \in Sql!Bytes(placed[p])}
  <2>w. v5' = [b \in DOMAIN v5 |->
                 IF holder(b) = {} THEN v5[b]
                 ELSE <<v7 + 1, CHOOSE p \in holder(b) : \A r \in holder(b) : r <= p>>]
    BY <1>6, <2>2, <2>3 DEF Sql!PassRow
  <2>d. DOMAIN v5' = 0 .. ScratchBytes - 1
    <3> HIDE DEF holder
    <3> QED
      BY <2>w DEF Sql!SqlInv
  <2>4. CASE ~\A p \in DOMAIN placed : Sql!Fits(placed[p])
    <3>1. v6' = Sql!Outer
      BY <1>6, <2>2, <2>3, <2>4 DEF Sql!PassRow
    <3> QED
      BY <2>1, <2>d, <3>1, BackOut
  <2>5. CASE \A p \in DOMAIN placed : Sql!Fits(placed[p])
    <3>1. PICK q : q = [Sql!Inner EXCEPT !.rows = Tail(@), !.inCallback = TRUE, !.queried = FALSE,
                                     !.parts = placed, !.serial = v7 + 1]
      OBVIOUS
    <3>1a. PICK rest \in Seq(Seq(Nat)) : rest = Tail(Sql!Inner.rows)
      <4>1. Sql!Inner.rows \in Seq(Seq(Nat))
        BY <2>1 DEF Sql!Query
      <4>2. Tail(Sql!Inner.rows) \in Seq(Seq(Nat))
        BY <2>1, <4>1
      <4> QED
        BY <4>2
    <3>1b. placed \in Seq(Sql!Part) /\ v7 + 1 \in Nat
      BY <2>1, <2>3 DEF Stacked
    <3>2. q \in Sql!Query /\ q.parts = placed /\ q.serial = v7 + 1
      BY <2>1, <3>1, <3>1a, <3>1b DEF Sql!Query
    <3>3. v6' = Sql!WithInner(q)
      BY <1>6, <2>2, <2>3, <2>5, <3>1 DEF Sql!PassRow
    <3>5. ASSUME NEW p \in DOMAIN placed, NEW b \in Sql!Bytes(placed[p])
          PROVE  v5'[b] = <<v7 + 1, p>>
      <4>1. PICK n \in Nat : DOMAIN placed = 1..n /\ p \in 1..n /\ p \in Int
        BY <2>3, InSequence
      <4>2. \A r \in DOMAIN placed :
               \E x \in Nat, y \in Nat, z \in Nat :
                 placed[r].at = x /\ placed[r].size = y /\ placed[r].next = z /\ z = x + y
        BY <2>3, PartOf
      <4>2a. PICK x \in Nat, y \in Nat, z \in Nat :
               placed[p].at = x /\ placed[p].size = y /\ placed[p].next = z /\ z = x + y
        BY <4>2
      <4>3. b \in Nat /\ x <= b /\ b < z
        BY <4>2a DEF Sql!Bytes
      <4>4. b \in DOMAIN v5
        <5>1. x + y <= ScratchBytes
          BY <2>5, <4>2a DEF Sql!Fits
        <5> QED
          BY <4>2a, <4>3, <5>1 DEF Sql!SqlInv, Sql!SqlBounds
      <4>5. ASSUME NEW r \in holder(b), r # p
            PROVE  FALSE
        <5>1. r \in DOMAIN placed /\ b \in Sql!Bytes(placed[r])
          OBVIOUS
        <5>2. PICK u \in Nat, v \in Nat, w \in Nat :
                placed[r].at = u /\ placed[r].size = v /\ placed[r].next = w /\ w = u + v
          BY <4>2, <5>1
        <5>3. u <= b /\ b < w
          BY <4>3, <5>1, <5>2 DEF Sql!Bytes
        <5>4. r < p \/ p < r
          BY <4>1, <4>5, <5>1
        <5>5. w <= x \/ z <= u
          BY <2>3, <4>1, <4>2a, <5>1, <5>2, <5>4 DEF Stacked
        <5> QED
          BY <4>2a, <4>3, <5>2, <5>3, <5>5
      <4>6. holder(b) = {p}
        BY <2>5, <4>5
      <4>7. (CHOOSE c \in {p} : \A r \in {p} : r <= c) = p
        BY <4>1
      <4> HIDE DEF holder
      <4> QED
        BY <2>w, <4>4, <4>6, <4>7
    <3> QED
      BY <2>1, <2>d, <3>2, <3>3, <3>5, InnerMoves
  <2> QED
    BY <2>4, <2>5
<1>7. CASE Sql!QueryEnds
  BY <1>7, BackOut DEF Sql!QueryEnds, Sql!KeepScratch, Sql!SqlInv
<1>8. ASSUME NEW abort \in BOOLEAN, Sql!CallbackReturns(abort)
      PROVE  Sql!SqlInv'
  <2>1. v6 # <<>> /\ Sql!Inner \in Sql!Query /\ UNCHANGED <<v2, v3, v7, v5>>
    BY <1>8, QueryReturned DEF Sql!CallbackReturns, Sql!KeepScratch, Sql!SqlInv
  <2>2. CASE abort
    BY <1>8, <2>1, <2>2, BackOut DEF Sql!CallbackReturns, Sql!SqlInv
  <2>3. CASE ~abort
    <3>1. PICK q : q = [Sql!Inner EXCEPT !.inCallback = FALSE, !.queried = FALSE, !.parts = <<>>,
                                     !.serial = 0]
      OBVIOUS
    <3>1a. <<>> \in Seq(Sql!Part) /\ 0 \in Nat
      OBVIOUS
    <3>2. q \in Sql!Query /\ ~q.inCallback
      BY <2>1, <3>1, <3>1a DEF Sql!Query
    <3>3. v6' = Sql!WithInner(q)
      BY <1>8, <2>3, <3>1 DEF Sql!CallbackReturns
    <3>4. v7' \in Nat /\ DOMAIN v5' = 0 .. ScratchBytes - 1
      BY <2>1 DEF Sql!SqlInv
    <3> QED
      BY <2>1, <3>2, <3>3, <3>4, InnerMoves
  <2> QED
    BY <2>2, <2>3
<1> QED
  BY <1>2, <1>3, <1>4, <1>5, <1>6, <1>7, <1>8 DEF Sql!SqlNext

-----------------------------------------------------------------------------
(* What a call reads or writes of the arrays of vertices and of the pixels uploaded is
   inside the guest's memory and the reading's own buffer (GlHle). *)
Arrays == INSTANCE GlArrays WITH
    Top <- ArraysTop, MaxVertices <- DrawnVertices, MaxUpload <- UploadBytes,
    Pointers <- GlPointers, Strides <- GlStrides, Indices <- GlIndices,
    MaxCalls <- MaxGlCalls,
    arrays <- v1, unit <- v2, alignment <- v3, touched <- v4, calls <- v5

LEMMA SizeOfType ==
    ASSUME NEW y \in {"ubyte", "short", "float"}
    PROVE  Arrays!TypeSize[y] \in {1, 2, 4}
  BY DEF Arrays!TypeSize

(* A vertex read is between its array's pointer and the end of the last one. *)
LEMMA VertexInside ==
    ASSUME NEW p \in Nat, NEW m \in Nat, NEW z \in 1..4, NEW t \in {1, 2, 4}, NEW c \in 0..z - 1,
           NEW top \in Nat, p + m + z * t <= top, NEW b \in Int, p + m + c * t <= b,
           b <= p + m + c * t + t - 1
    PROVE  b \in 0..top - 1
<1>1. CASE t = 1
  BY <1>1
<1>2. CASE t = 2
  BY <1>2
<1>3. CASE t = 4
  BY <1>3
<1> QED
  BY <1>1, <1>2, <1>3

LEMMA WholeVertices ==
    ASSUME NEW n \in Nat, NEW z \in 1..4, NEW k \in 1..n * z
    PROVE  (k - 1) \div z + 1 \in 1..n /\ (k - 1) % z \in 0..z - 1
<1>1. CASE z = 1
  BY <1>1
<1>2. CASE z = 2
  BY <1>2
<1>3. CASE z = 3
  BY <1>3
<1>4. CASE z = 4
  BY <1>4
<1> QED
  BY <1>1, <1>2, <1>3, <1>4

LEMMA SizesValid ==
    ASSUME NEW a \in Arrays!Arrays
    PROVE  Arrays!ValidSizes(a) \subseteq 1..4
<1>1. CASE a = "color"
  BY <1>1 DEF Arrays!ValidSizes
<1>2. CASE a = "normal"
  BY <1>2 DEF Arrays!ValidSizes
<1>3. CASE a # "color" /\ a # "normal"
  BY <1>3 DEF Arrays!ValidSizes
<1> QED
  BY <1>1, <1>2, <1>3

LEMMA StridePositive ==
    ASSUME NEW s \in Arrays!Array
    PROVE  Arrays!Stride(s) \in Nat
<1>1. s.size \in 0..4 /\ s.stride \in Nat /\ s.type \in {"ubyte", "short", "float"}
  BY DEF Arrays!Array
<1>2. Arrays!TypeSize[s.type] \in {1, 2, 4}
  BY <1>1, SizeOfType
<1>3. s.size * Arrays!TypeSize[s.type] \in Nat
  BY <1>1, <1>2
<1> QED
  BY <1>1, <1>3 DEF Arrays!Stride, Arrays!Packed

LEMMA ExtractedInside ==
    ASSUME Arrays!ArraysBounds, Arrays!ArraysInv, NEW a \in Arrays!Arrays, NEW n \in Nat, NEW indices \in [1..n -> Nat]
    PROVE  Arrays!BytesOf(a, Arrays!Extracted(a, indices)) \subseteq 0..ArraysTop - 1
<1>1. PICK s \in Arrays!Array : s = v1[a]
  BY DEF Arrays!ArraysInv
<1>2. s.pointer \in Nat /\ s.type \in {"ubyte", "short", "float"}
  BY <1>1 DEF Arrays!Array
<1>3. PICK t \in {1, 2, 4} : t = Arrays!TypeSize[s.type]
  BY <1>2, SizeOfType
<1>4. PICK d \in Nat : d = Arrays!Stride(s)
  BY StridePositive
<1>5. Len(indices) = n /\ DOMAIN indices = 1..n
  OBVIOUS
<1>6. CASE Arrays!Drawable(a, s) /\ \A k \in DOMAIN indices : Arrays!InReach(s, indices[k])
  <2>1. PICK z \in 1..4 : z = s.size
    BY <1>6, SizesValid DEF Arrays!Drawable
  <2>2. PICK f : f = [k \in 1..n * z |-> s.pointer + indices[(k - 1) \div z + 1] * d + ((k - 1) % z) * t]
    OBVIOUS
  <2>3. Arrays!Extracted(a, indices) = f
    BY <1>1, <1>3, <1>4, <1>5, <1>6, <2>1, <2>2 DEF Arrays!Extracted
  <2>4. ASSUME NEW k \in 1..n * z, NEW b \in f[k]..f[k] + t - 1
        PROVE  b \in 0..ArraysTop - 1
    <3>1. PICK q \in 1..n : q = (k - 1) \div z + 1
      BY WholeVertices
    <3>2. PICK c \in 0..z - 1 : c = (k - 1) % z
      BY WholeVertices
    <3>3. PICK i \in Nat : i = indices[q]
      OBVIOUS
    <3>4. PICK m \in Nat : m = i * d
      OBVIOUS
    <3>5. PICK p \in Nat : p = s.pointer
      BY <1>2
    <3>6. f[k] = p + m + c * t
      BY <2>2, <3>1, <3>2, <3>3, <3>4, <3>5
    <3>7. p + m + z * t <= ArraysTop
      BY <1>3, <1>4, <1>5, <1>6, <2>1, <3>3, <3>4, <3>5 DEF Arrays!InReach, Arrays!Packed
    <3>8. ArraysTop \in Nat
      BY DEF Arrays!ArraysBounds
    <3>9. c * t \in Nat
      OBVIOUS
    <3>10. b \in Int /\ p + m + c * t <= b /\ b <= p + m + c * t + t - 1
      BY <2>4, <3>6, <3>9
    <3> QED
      BY <3>7, <3>8, <3>10, VertexInside
  <2>5. Arrays!BytesOf(a, f) = UNION {v..(v + t - 1) : v \in Arrays!Elems(f)}
    BY <1>1, <1>3 DEF Arrays!BytesOf
  <2>6. Arrays!Elems(f) = {f[k] : k \in 1..n * z}
    BY <2>2 DEF Arrays!Elems
  <2>7. ASSUME NEW b \in Arrays!BytesOf(a, f)
        PROVE  b \in 0..ArraysTop - 1
    <3>1. PICK v \in Arrays!Elems(f) : b \in v..(v + t - 1)
      BY <2>5, <2>7
    <3>2. PICK k \in 1..n * z : v = f[k]
      BY <2>6
    <3> QED
      BY <2>4, <3>1, <3>2
  <2> QED
    BY <2>3, <2>7
<1>7. CASE ~(Arrays!Drawable(a, s) /\ \A k \in DOMAIN indices : Arrays!InReach(s, indices[k]))
  <2>1. Arrays!Extracted(a, indices) = <<>>
    BY <1>1, <1>7 DEF Arrays!Extracted
  <2>2. Arrays!Elems(<<>>) = {}
    BY DEF Arrays!Elems
  <2>3. Arrays!BytesOf(a, <<>>) = {}
    BY <2>2 DEF Arrays!BytesOf
  <2> QED
    BY <2>1, <2>3
<1> QED
  BY <1>6, <1>7

LEMMA RowsInside ==
    ASSUME NEW row \in 1..6, NEW height \in 1..3, v3 \in {1, 2, 4, 8}, NEW p \in Nat, NEW top \in Nat,
           p + Arrays!PaddedRow(row) * height <= top,
           NEW y \in 0..height - 1, NEW x \in 0..row - 1
    PROVE  p + Arrays!PaddedRow(row) * y + x \in 0..top - 1
<1>1. PICK w \in Nat : w = Arrays!PaddedRow(row) /\ w >= row
  <2>1. CASE v3 = 1
    BY <2>1 DEF Arrays!PaddedRow
  <2>2. CASE v3 = 2
    BY <2>2 DEF Arrays!PaddedRow
  <2>3. CASE v3 = 4
    BY <2>3 DEF Arrays!PaddedRow
  <2>4. CASE v3 = 8
    BY <2>4 DEF Arrays!PaddedRow
  <2> QED
    BY <2>1, <2>2, <2>3, <2>4
<1>2. CASE y = 0
  <2>1. w * y = 0 /\ w * height >= w
    <3>1. CASE height = 1
      BY <1>2, <3>1
    <3>2. CASE height = 2
      BY <1>2, <3>2
    <3>3. CASE height = 3
      BY <1>2, <3>3
    <3> QED
      BY <3>1, <3>2, <3>3
  <2>2. PICK u \in Int : u = w * height
    OBVIOUS
  <2> QED
    BY <1>1, <2>1, <2>2
<1>3. CASE y = 1
  <2>1. w * y = w /\ w * height >= w + w
    <3>2. CASE height = 2
      BY <1>3, <3>2
    <3>3. CASE height = 3
      BY <1>3, <3>3
    <3> QED
      BY <1>3, <3>2, <3>3
  <2>2. PICK u \in Int : u = w * height
    OBVIOUS
  <2> QED
    BY <1>1, <2>1, <2>2
<1>4. CASE y = 2
  <2>1. w * y = w + w /\ w * height = w + w + w
    BY <1>4
  <2> QED
    BY <1>1, <2>1
<1> QED
  BY <1>2, <1>3, <1>4

-----------------------------------------------------------------------------
LEMMA ArraysInvInit ==
    ASSUME Arrays!ArraysInit
    PROVE  Arrays!ArraysInv
<1>1. PICK on \in BOOLEAN : v1 = [a \in Arrays!Arrays |-> [Arrays!Unset EXCEPT !.enabled = on]]
  BY DEF Arrays!ArraysInit
<1>2. [Arrays!Unset EXCEPT !.enabled = on] \in Arrays!Array
  BY DEF Arrays!Unset, Arrays!Array
<1> QED
  BY <1>1, <1>2 DEF Arrays!ArraysInit, Arrays!ArraysInv, Arrays!Units, Arrays!TouchesInside

LEMMA ArraysInvStep ==
    ASSUME Arrays!ArraysBounds, Arrays!ArraysInv, [Arrays!ArraysNext]_(Arrays!arraysVars)
    PROVE  Arrays!ArraysInv'
<1>1. /\ v1 \in [Arrays!Arrays -> Arrays!Array] /\ v2 \in [client : Arrays!Units, backend : 0..2]
      /\ v3 \in {1, 2, 4, 8} /\ Arrays!TouchesInside /\ ArraysTop \in Nat
  BY DEF Arrays!ArraysInv, Arrays!ArraysBounds
<1>2. CASE UNCHANGED Arrays!arraysVars
  BY <1>1, <1>2 DEF Arrays!arraysVars, Arrays!ArraysInv, Arrays!TouchesInside
<1>3. ASSUME v4' \subseteq 0..ArraysTop - 1, UNCHANGED <<v1, v2, v3>>
      PROVE  Arrays!ArraysInv'
  BY <1>1, <1>3 DEF Arrays!ArraysInv, Arrays!TouchesInside
<1>4. \A kind \in {"vertex", "color", "normal", "texcoord"} : Arrays!Target(kind) \in Arrays!Arrays
  BY DEF Arrays!Target, Arrays!TexCoord, Arrays!Arrays
<1>5. CASE Arrays!PointerCall
  <2>1. PICK kind \in {"vertex", "color", "normal", "texcoord"}, size \in {1, 4},
             type \in {"ubyte", "float"}, stride \in GlStrides, pointer \in GlPointers :
          /\ Arrays!Called
          /\ v1' = [v1 EXCEPT ![Arrays!Target(kind)] =
                          Arrays!Pointed(Arrays!Target(kind), IF kind = "normal" THEN 3 ELSE size, type, stride, pointer)]
          /\ UNCHANGED <<v2, v3>>
    BY <1>5 DEF Arrays!PointerCall
  <2>2. PICK a \in Arrays!Arrays : a = Arrays!Target(kind)
    BY <1>4
  <2>3. PICK z \in 0..4 : z = IF kind = "normal" THEN 3 ELSE size
    OBVIOUS
  <2>4. PICK s \in Arrays!Array : s = v1[a]
    BY <1>1
  <2>5. pointer \in Nat /\ stride \in Int
    BY DEF Arrays!ArraysBounds
  <2>6. Arrays!Unset \in Arrays!Array
    BY DEF Arrays!Unset, Arrays!Array
  <2>7. CASE stride >= 0
    <3>1. PICK u : u = [s EXCEPT !.size = z, !.type = type, !.stride = stride, !.pointer = pointer]
      OBVIOUS
    <3>0. stride \in Nat /\ pointer \in Nat /\ type \in {"ubyte", "short", "float"}
      BY <2>5, <2>7
    <3>2. u \in Arrays!Array
      BY <3>0, <3>1 DEF Arrays!Array
    <3>3. Arrays!Pointed(a, z, type, stride, pointer) \in Arrays!Array
      BY <2>4, <2>6, <3>1, <3>2 DEF Arrays!Pointed
    <3>4. v1' \in [Arrays!Arrays -> Arrays!Array]
      BY <1>1, <2>1, <2>2, <2>3, <3>3
    <3> QED
      BY <1>1, <2>1, <3>4 DEF Arrays!Called, Arrays!Touches, Arrays!ArraysInv, Arrays!TouchesInside
  <2>8. CASE ~(stride >= 0)
    <3>3. Arrays!Pointed(a, z, type, stride, pointer) \in Arrays!Array
      BY <2>6, <2>8 DEF Arrays!Pointed
    <3>4. v1' \in [Arrays!Arrays -> Arrays!Array]
      BY <1>1, <2>1, <2>2, <2>3, <3>3
    <3> QED
      BY <1>1, <2>1, <3>4 DEF Arrays!Called, Arrays!Touches, Arrays!ArraysInv, Arrays!TouchesInside
  <2> QED
    BY <2>7, <2>8
<1>6. CASE Arrays!ClientState
  <2>1. PICK kind \in {"vertex", "color", "normal", "texcoord"}, on \in BOOLEAN :
          /\ Arrays!Called
          /\ v1' = [v1 EXCEPT ![Arrays!Target(kind)].enabled = on]
          /\ UNCHANGED <<v2, v3>>
    BY <1>6 DEF Arrays!ClientState
  <2>2. PICK a \in Arrays!Arrays : a = Arrays!Target(kind)
    BY <1>4
  <2>3. PICK s \in Arrays!Array : s = [v1[a] EXCEPT !.enabled = on]
    BY <1>1 DEF Arrays!Array
  <2>4. v1' = [v1 EXCEPT ![a] = s]
    BY <2>1, <2>2, <2>3
  <2>5. v1' \in [Arrays!Arrays -> Arrays!Array]
    BY <1>1, <2>4
  <2> QED
    BY <1>1, <2>1, <2>5 DEF Arrays!Called, Arrays!Touches, Arrays!ArraysInv, Arrays!TouchesInside
<1>7. CASE Arrays!ClientActiveTexture
  BY <1>1, <1>7 DEF Arrays!ClientActiveTexture, Arrays!Called, Arrays!Touches, Arrays!ArraysInv, Arrays!TouchesInside, Arrays!Units
<1>8. CASE Arrays!PixelStorei
  BY <1>1, <1>8 DEF Arrays!PixelStorei, Arrays!Called, Arrays!Touches, Arrays!ArraysInv, Arrays!TouchesInside
<1>9. ASSUME NEW n \in Nat, NEW indices \in [1..n -> Nat], NEW read \in SUBSET (0..ArraysTop - 1),
             Arrays!Submitted(indices, read)
      PROVE  Arrays!ArraysInv'
  <2>1. \A a \in Arrays!Arrays : Arrays!BytesOf(a, Arrays!Extracted(a, indices)) \subseteq 0..ArraysTop - 1
    BY ExtractedInside
  <2>2. v4' = read \cup UNION {Arrays!BytesOf(a, Arrays!Extracted(a, indices)) : a \in Arrays!Arrays}
    BY <1>9 DEF Arrays!Submitted, Arrays!Touches
  <2>3. v4' \subseteq 0..ArraysTop - 1
    BY <2>1, <2>2
  <2>4. UNCHANGED <<v1, v2, v3>>
    BY <1>9 DEF Arrays!Submitted
  <2> QED
    BY <1>3, <2>3, <2>4
<1>10. CASE Arrays!DrawArrays
  <2>1. PICK first \in GlIndices \cup {-1}, count \in 0..DrawnVertices + 1 :
          /\ first >= 0 /\ count \in 1..DrawnVertices
          /\ Arrays!Submitted([k \in 1..count |-> first + k - 1], {})
    BY <1>10 DEF Arrays!DrawArrays
  <2>2. count \in Nat /\ first \in Nat
    BY <2>1 DEF Arrays!ArraysBounds
  <2>3. PICK f : f = [k \in 1..count |-> first + k - 1]
    OBVIOUS
  <2>4. f \in [1..count -> Nat] /\ {} \in SUBSET (0..ArraysTop - 1)
    BY <2>2, <2>3
  <2>5. Arrays!Submitted(f, {})
    BY <2>1, <2>3
  <2> QED
    BY <1>9, <2>2, <2>4, <2>5
<1>11. CASE Arrays!DrawElements
  <2>0. PICK count \in 1..DrawnVertices : \E indices \in [1..count -> GlIndices], bytes \in {1, 2},
             pointer \in GlPointers :
          /\ pointer + count * bytes <= ArraysTop
          /\ Arrays!Submitted(indices, pointer..(pointer + count * bytes - 1))
    BY <1>11 DEF Arrays!DrawElements
  <2>1. PICK indices \in [1..count -> GlIndices], bytes \in {1, 2}, pointer \in GlPointers :
          /\ pointer + count * bytes <= ArraysTop
          /\ Arrays!Submitted(indices, pointer..(pointer + count * bytes - 1))
    BY <2>0
  <2>2. count \in Nat /\ pointer \in Nat /\ indices \in [1..count -> Nat]
    <3>1. count \in Nat /\ pointer \in Nat /\ GlIndices \subseteq Nat
      BY DEF Arrays!ArraysBounds
    <3> QED
      BY <3>1
  <2>3. PICK m \in Nat : m = count * bytes
    BY <2>2
  <2>4. pointer..(pointer + m - 1) \in SUBSET (0..ArraysTop - 1)
    BY <1>1, <2>1, <2>2, <2>3
  <2> QED
    BY <1>9, <2>1, <2>2, <2>3, <2>4
<1>12. ASSUME NEW range \in SUBSET (0..ArraysTop - 1), Arrays!Transfers(range)
       PROVE  Arrays!ArraysInv'
  BY <1>3, <1>12 DEF Arrays!Transfers, Arrays!Touches
<1>13. CASE Arrays!TexImage2D
  <2>1. PICK width, height \in 1..3, size \in 1..2, pointer \in GlPointers :
          /\ pointer # 0
          /\ width * size * height <= UploadBytes /\ pointer + Arrays!PaddedRow(width * size) * height <= ArraysTop
          /\ Arrays!Transfers(Arrays!ImageBytes(pointer, width * size, height))
    BY <1>13 DEF Arrays!TexImage2D
  <2>2. PICK row \in 1..6 : row = width * size
    <3>1. CASE size = 1
      BY <3>1
    <3>2. CASE size = 2
      BY <3>2
    <3> QED
      BY <3>1, <3>2
  <2>3. pointer \in Nat
    BY DEF Arrays!ArraysBounds
  <2>4. ASSUME NEW y \in 0..height - 1, NEW x \in 0..row - 1
        PROVE  pointer + Arrays!PaddedRow(row) * y + x \in 0..ArraysTop - 1
    <3>1. pointer + Arrays!PaddedRow(row) * height <= ArraysTop
      BY <2>1, <2>2
    <3> QED
      BY <1>1, <2>3, <3>1, RowsInside
  <2>5. Arrays!Transfers(Arrays!ImageBytes(pointer, row, height))
    BY <2>1, <2>2
  <2>6. Arrays!ImageBytes(pointer, row, height) \in SUBSET (0..ArraysTop - 1)
    BY <2>4 DEF Arrays!ImageBytes
  <2> QED
    BY <1>12, <2>5, <2>6
<1>14. CASE Arrays!TextureNames
  <2>1. PICK n \in 1..2, pointer \in GlPointers :
          pointer + n * 4 <= ArraysTop /\ Arrays!Transfers(pointer..(pointer + n * 4 - 1))
    BY <1>14 DEF Arrays!TextureNames
  <2>2. pointer \in Nat
    BY DEF Arrays!ArraysBounds
  <2>3. pointer..(pointer + n * 4 - 1) \in SUBSET (0..ArraysTop - 1)
    BY <1>1, <2>1, <2>2
  <2> QED
    BY <1>12, <2>1, <2>3
<1>15. CASE Arrays!CompressedTexImage2D
  <2>1. PICK pointer \in GlPointers, size \in {1, 4, UploadBytes + 1} :
          /\ pointer + size <= ArraysTop
          /\ \/ pointer >= 8 /\ Arrays!Transfers((pointer - 8)..(pointer + size - 1))
             \/ Arrays!Transfers(pointer..(pointer + size - 1))
    BY <1>15 DEF Arrays!CompressedTexImage2D
  <2>2. pointer \in Nat /\ size \in Nat
    BY DEF Arrays!ArraysBounds
  <2>3. pointer..(pointer + size - 1) \in SUBSET (0..ArraysTop - 1)
    BY <1>1, <2>1, <2>2
  <2>4. pointer >= 8 => (pointer - 8)..(pointer + size - 1) \in SUBSET (0..ArraysTop - 1)
    BY <1>1, <2>1, <2>2
  <2> QED
    BY <1>12, <2>1, <2>3, <2>4
<1> QED
  BY <1>2, <1>5, <1>6, <1>7, <1>8, <1>10, <1>11, <1>13, <1>14, <1>15 DEF Arrays!ArraysNext

-----------------------------------------------------------------------------
(* The insertion sort asks the comparator for one element at a time: those before it are
   in order, and what has been asked bounds what is left (SortPointerArrayImpl). *)
Sorting == INSTANCE SortArray WITH
    MaxCount <- SortCount, Longest <- SortLongest, Keys <- SortKeys,
    array <- v1, i <- v2, j <- v3, fickle <- v4, calls <- v5

(* The sort starts with the second element on its way. *)
LEMMA SortInvInitially == Sorting!SortBounds /\ Sorting!SortInit => Sorting!SortInv
<1> SUFFICES ASSUME Sorting!SortBounds, Sorting!SortInit
             PROVE  Sorting!SortInv
  OBVIOUS
<1>0. PICK n \in 0..SortLongest : \E a \in [1..n -> SortKeys] :
         v1 = [k \in DOMAIN a |-> [key |-> a[k], id |-> k]]
  BY DEF Sorting!SortInit, Sorting!Arrays
<1>1. PICK a \in [1..n -> SortKeys] : v1 = [k \in 1..n |-> [key |-> a[k], id |-> k]]
  BY <1>0
<1>2. n \in Nat /\ DOMAIN v1 = 1..n /\ \A k \in 1..n : v1[k] = [key |-> a[k], id |-> k]
  BY <1>1 DEF Sorting!SortBounds
<1>3. v1 \in Seq(Sorting!Item) /\ Len(v1) = n
  <2>1. \A k \in 1..n : a[k] \in SortKeys
    BY <1>1
  <2>2. \A k \in 1..n : [key |-> a[k], id |-> k] \in Sorting!Item
    BY <1>2, <2>1 DEF Sorting!Item
  <2> QED
    BY <1>1, <1>2, <2>2
<1>4. {v1[k].id : k \in 1..Sorting!Count} = 1..Sorting!Count
  BY <1>2, <1>3 DEF Sorting!Count
<1>5. v2 = 1 /\ v3 = 1 /\ v4 \in BOOLEAN /\ v5 = 0
  BY DEF Sorting!SortInit
<1>6. Sorting!Numbered(v1, v2, v3) /\ Sorting!InOrderBut(v1, v2, v3)
  BY <1>2, <1>3, <1>5 DEF Sorting!Numbered, Sorting!InOrderBut
<1> QED
  BY <1>2, <1>3, <1>4, <1>5, <1>6 DEF Sorting!SortInv, Sorting!Count

(* What stands before is transitive. *)
LEMMA Ordered ==
    ASSUME NEW x \in Sorting!Item, NEW y \in Sorting!Item, NEW z \in Sorting!Item, SortKeys \subseteq Int,
           Sorting!Before(x, y), Sorting!Before(y, z)
    PROVE  Sorting!Before(x, z)
<1>1. {x.key, y.key, z.key} \subseteq Int /\ {x.id, y.id, z.id} \subseteq Nat
  BY DEF Sorting!Item
<1> QED
  BY <1>1 DEF Sorting!Before

(* Where the element on its way belongs, the next one sets out. *)
LEMMA NextSetsOut ==
    ASSUME SortKeys \subseteq Int, NEW a \in Seq(Sorting!Item), NEW m \in 1..Len(a) - 1, NEW r \in 0..m,
           Sorting!Numbered(a, m, r)
    PROVE  /\ Sorting!Numbered(a, m + 1, m + 1)
           /\ Sorting!InOrderBut(a, m, r) /\ (r # 0 => a[r + 1].key <= a[r].key) => Sorting!InOrderBut(a, m + 1, m + 1)
<1>1. PICK n \in Nat : n = Len(a) /\ \A k \in 1..n : a[k] \in Sorting!Item
  OBVIOUS
<1>2. \A k \in 1..n : a[k].id \in Nat /\ a[k].key \in Int
  BY <1>1 DEF Sorting!Item
<1>3. m \in 1..n - 1 /\ r + 1 \in 1..n /\ (r # 0 => r \in 1..n)
  BY <1>1
<1>4. Sorting!Numbered(a, m + 1, m + 1)
  <2> SUFFICES ASSUME NEW k \in 1..n
               PROVE  IF k = m + 1 + 1 THEN a[k].id = m + 1 + 1
                      ELSE IF k <= m + 1 + 1 THEN a[k].id <= m + 1 ELSE a[k].id = k
    BY <1>1 DEF Sorting!Numbered
  <2>1. IF k = r + 1 THEN a[k].id = m + 1 ELSE IF k <= m + 1 THEN a[k].id <= m ELSE a[k].id = k
    BY <1>1 DEF Sorting!Numbered
  <2> QED
    BY <1>2, <1>3, <2>1
<1>5. ASSUME Sorting!InOrderBut(a, m, r), r # 0 => a[r + 1].key <= a[r].key
      PROVE  Sorting!InOrderBut(a, m + 1, m + 1)
  <2>1. \A k, l \in 1..n : k < l /\ l <= m + 1 /\ l # r + 1 => Sorting!Before(a[k], a[l])
    BY <1>1, <1>5 DEF Sorting!InOrderBut
  <2>2. ASSUME r # 0
        PROVE  Sorting!Before(a[r], a[r + 1])
    <3>1. a[r + 1].id = m + 1 /\ a[r].id <= m
      BY <1>1, <1>3, <2>2 DEF Sorting!Numbered
    <3> QED
      BY <1>2, <1>3, <1>5, <2>2, <3>1 DEF Sorting!Before
  <2>3. ASSUME NEW k \in 1..n, k < r + 1
        PROVE  Sorting!Before(a[k], a[r + 1])
    <3>1. r # 0 /\ (k = r \/ k < r)
      BY <1>3, <2>3
    <3>2. CASE k < r
      <4>1. Sorting!Before(a[k], a[r])
        BY <1>3, <2>1, <2>3, <3>1, <3>2
      <4> QED
        BY <1>1, <1>3, <2>2, <3>1, <4>1, Ordered
    <3> QED
      BY <2>2, <3>1, <3>2
  <2>4. ASSUME NEW k \in 1..n, NEW l \in 1..n, k < l, l <= m + 1
        PROVE  Sorting!Before(a[k], a[l])
    <3>1. CASE l = r + 1
      BY <2>3, <2>4, <3>1
    <3> QED
      BY <2>1, <2>4, <3>1
  <2>5. ASSUME NEW k \in 1..n, NEW l \in 1..n, k < l, l <= m + 1 + 1, l # m + 1 + 1
        PROVE  Sorting!Before(a[k], a[l])
    BY <1>3, <2>4, <2>5
  <2> QED
    BY <1>1, <2>5 DEF Sorting!InOrderBut
<1> QED
  BY <1>4, <1>5

(* An element goes one place forward. *)
Exchanged(a, r) == [a EXCEPT ![r] = a[r + 1], ![r + 1] = a[r]]

LEMMA GoesForward ==
    ASSUME NEW a \in Seq(Sorting!Item), NEW m \in 1..Len(a) - 1, NEW r \in 1..m
    PROVE  /\ Exchanged(a, r) \in Seq(Sorting!Item) /\ Len(Exchanged(a, r)) = Len(a)
           /\ {Exchanged(a, r)[k].id : k \in 1..Len(a)} = {a[k].id : k \in 1..Len(a)}
           /\ Sorting!Numbered(a, m, r) => Sorting!Numbered(Exchanged(a, r), m, r - 1)
           /\ Sorting!InOrderBut(a, m, r) /\ a[r + 1].key > a[r].key =>
                  Sorting!InOrderBut(Exchanged(a, r), m, r - 1)
<1>0. PICK b : b = Exchanged(a, r)
  OBVIOUS
<1>1. PICK n \in Nat : n = Len(a) /\ DOMAIN a = 1..n /\ \A k \in 1..n : a[k] \in Sorting!Item
  OBVIOUS
<1>2. r \in 1..n /\ r + 1 \in 1..n /\ m \in 1..n - 1
  BY <1>1
<1>3. \A k \in 1..n : b[k] = IF k = r THEN a[r + 1] ELSE IF k = r + 1 THEN a[r] ELSE a[k]
  BY <1>0, <1>1, <1>2 DEF Exchanged
<1>4. b \in Seq(Sorting!Item) /\ Len(b) = n
  <2>1. DOMAIN b = 1..n /\ b = [k \in 1..n |-> b[k]]
    BY <1>0, <1>1 DEF Exchanged
  <2>2. \A k \in 1..n : b[k] \in Sorting!Item
    BY <1>1, <1>2, <1>3
  <2> QED
    BY <2>1, <2>2
<1>5. {b[k].id : k \in 1..n} = {a[k].id : k \in 1..n}
  <2>1. \A k \in 1..n : \E l \in 1..n : a[l] = b[k]
    BY <1>2, <1>3
  <2>2. \A l \in 1..n : \E k \in 1..n : b[k] = a[l]
    <3> SUFFICES ASSUME NEW l \in 1..n
                 PROVE  \E k \in 1..n : b[k] = a[l]
      OBVIOUS
    <3>1. b[r] = a[r + 1] /\ b[r + 1] = a[r]
      BY <1>2, <1>3
    <3>2. l # r /\ l # r + 1 => b[l] = a[l]
      BY <1>3
    <3> QED
      BY <1>2, <3>1, <3>2
  <2>3. {b[k].id : k \in 1..n} \subseteq {a[k].id : k \in 1..n}
    BY <2>1
  <2>4. {a[k].id : k \in 1..n} \subseteq {b[k].id : k \in 1..n}
    BY <2>2
  <2> QED
    BY <2>3, <2>4
<1>6. ASSUME Sorting!Numbered(a, m, r)
      PROVE  Sorting!Numbered(b, m, r - 1)
  <2> SUFFICES ASSUME NEW k \in 1..n
               PROVE  IF k = r - 1 + 1 THEN b[k].id = m + 1
                      ELSE IF k <= m + 1 THEN b[k].id <= m ELSE b[k].id = k
    BY <1>4 DEF Sorting!Numbered
  <2>1. a[r + 1].id = m + 1 /\ a[r].id <= m
    BY <1>1, <1>2, <1>6 DEF Sorting!Numbered
  <2>2. k # r /\ k # r + 1 => IF k <= m + 1 THEN a[k].id <= m ELSE a[k].id = k
    BY <1>1, <1>6 DEF Sorting!Numbered
  <2>3. b[k] = IF k = r THEN a[r + 1] ELSE IF k = r + 1 THEN a[r] ELSE a[k]
    BY <1>3
  <2> QED
    BY <1>2, <2>1, <2>2, <2>3
<1>7. ASSUME Sorting!InOrderBut(a, m, r), a[r + 1].key > a[r].key
      PROVE  Sorting!InOrderBut(b, m, r - 1)
  <2>1. \A k, l \in 1..n : k < l /\ l <= m + 1 /\ l # r + 1 => Sorting!Before(a[k], a[l])
    BY <1>1, <1>7 DEF Sorting!InOrderBut
  <2>2. Sorting!Before(a[r + 1], a[r])
    BY <1>7 DEF Sorting!Before
  <2>3. ASSUME NEW k \in 1..n, NEW l \in 1..n, k < l, l <= m + 1, l # r
        PROVE  Sorting!Before(b[k], b[l])
    <3>1. CASE l = r + 1
      <4>1. CASE k = r
        BY <1>2, <1>3, <2>2, <3>1, <4>1
      <4>2. CASE k # r
        <5>1. k < r /\ b[k] = a[k] /\ b[l] = a[r] /\ r # r + 1 /\ r <= m + 1
          BY <1>2, <1>3, <2>3, <3>1, <4>2
        <5> QED
          BY <1>2, <2>1, <5>1
      <4> QED
        BY <4>1, <4>2
    <3>2. CASE l # r + 1
      <4>1. b[l] = a[l]
        BY <1>3, <2>3, <3>2
      <4>2. CASE k = r
        <5>1. b[k] = a[r + 1] /\ r + 1 < l
          BY <1>2, <1>3, <2>3, <3>2, <4>2
        <5> QED
          BY <1>2, <2>1, <2>3, <3>2, <4>1, <5>1
      <4>3. CASE k = r + 1
        <5>1. b[k] = a[r] /\ r < l
          BY <1>2, <1>3, <2>3, <4>3
        <5> QED
          BY <1>2, <2>1, <2>3, <3>2, <4>1, <5>1
      <4>4. CASE k # r /\ k # r + 1
        BY <1>3, <2>1, <2>3, <3>2, <4>1, <4>4
      <4> QED
        BY <4>2, <4>3, <4>4
    <3> QED
      BY <3>1, <3>2
  <2>4. r - 1 + 1 = r
    BY <1>2
  <2> QED
    BY <1>4, <2>3, <2>4 DEF Sorting!InOrderBut
<1> QED
  BY <1>0, <1>1, <1>4, <1>5, <1>6, <1>7

(* Every call of the comparator keeps it. *)
LEMMA SortInvStays == Sorting!SortBounds /\ Sorting!SortInv /\ [Sorting!InsertStep]_(Sorting!sortVars) => Sorting!SortInv'
<1> SUFFICES ASSUME Sorting!SortBounds, Sorting!SortInv, [Sorting!InsertStep]_(Sorting!sortVars)
             PROVE  Sorting!SortInv'
  OBVIOUS
<1>u. CASE UNCHANGED Sorting!sortVars
  BY <1>u DEF Sorting!SortInv, Sorting!sortVars, Sorting!Count, Sorting!Numbered, Sorting!InOrderBut
<1> SUFFICES ASSUME Sorting!InsertStep
             PROVE  Sorting!SortInv'
  BY <1>u
<1>1. v1 \in Seq(Sorting!Item) /\ v2 \in 1..Len(v1) - 1 /\ v3 \in 1..v2 /\ Len(v1) \in Nat
      /\ Len(v1) > 1
  <2>1. v1 \in Seq(Sorting!Item)
    BY DEF Sorting!SortInv
  <2>2. Len(v1) > 1 /\ v2 < Len(v1)
    BY DEF Sorting!InsertStep, Sorting!Sorting, Sorting!Count
  <2>3. v2 \in Nat /\ v3 \in 1..v2
    BY DEF Sorting!SortInv
  <2>4. Len(v1) \in Nat
    BY <2>1
  <2> QED
    BY <2>1, <2>2, <2>3, <2>4
<1>2. SortKeys \subseteq Int
  BY DEF Sorting!SortBounds
<1>3. v5 \in Nat /\ v5' = v5 + 1 /\ v4' = v4 /\ v4 \in BOOLEAN
      /\ Sorting!Numbered(v1, v2, v3) /\ (~v4 => Sorting!InOrderBut(v1, v2, v3))
      /\ {v1[k].id : k \in 1..Len(v1)} = 1..Len(v1)
  BY DEF Sorting!SortInv, Sorting!InsertStep, Sorting!Count
<1>4. 2 * v5 <= v2 * (v2 - 1) + 2 * (v2 - v3)
  BY DEF Sorting!SortInv
<1>5. v1[v3].key \in Int /\ v1[v3 + 1].key \in Int
  <2>1. v3 \in 1..Len(v1) /\ v3 + 1 \in 1..Len(v1)
    BY <1>1
  <2>2. v1[v3] \in Sorting!Item /\ v1[v3 + 1] \in Sorting!Item
    BY <1>1, <2>1
  <2> QED
    BY <1>2, <2>2 DEF Sorting!Item
\* the next element sets out, when those up to it are in order
<1>9. ASSUME Sorting!NextPlace, NEW r, r \in 0..1, v3 - r \in 0..v2, v1' \in Seq(Sorting!Item), Len(v1') = Len(v1),
             {v1'[k].id : k \in 1..Len(v1)} = 1..Len(v1), Sorting!Numbered(v1', v2, v3 - r),
             ~v4 =>
               /\ Sorting!InOrderBut(v1', v2, v3 - r)
               /\ v3 - r # 0 => v1'[v3 - r + 1].key <= v1'[v3 - r].key
      PROVE  Sorting!SortInv'
  <2>1. v2' = v2 + 1 /\ v3' = v2 + 1 /\ v2' \in Nat /\ v3' \in 1..v2' /\ v2' <= Len(v1)
    BY <1>1, <1>9 DEF Sorting!NextPlace
  <2>2. 2 * v5' <= v2' * (v2' - 1) + 2 * (v2' - v3')
    <3> DEFINE p == v2 * (v2 - 1)
               q == (v2 + 1) * v2
    <3>1. p \in Int /\ q \in Int /\ p + 2 * (v2 - 1) + 2 = q /\ v2' * (v2' - 1) = q
      BY <1>1, <2>1
    <3>2. 2 * v5 <= p + 2 * (v2 - v3)
      BY <1>4
    <3> HIDE DEF p, q
    <3> QED
      BY <1>1, <1>3, <2>1, <3>1, <3>2
  <2>3. Sorting!Numbered(v1', v2', v3') /\ (~v4' => Sorting!InOrderBut(v1', v2', v3'))
    <3>1. v2 \in 1..Len(v1') - 1
      BY <1>1, <1>9
    <3>6. PICK a \in Seq(Sorting!Item) : a = v1'
      BY <1>9
    <3>2. PICK m \in 1..Len(a) - 1 : a = v1' /\ m = v2
      BY <3>1, <3>6
    <3>3. PICK p \in 0..m : p = v3 - r
      BY <1>9, <3>2
    <3>4. Sorting!Numbered(a, m, p) /\ m + 1 = v2' /\ m + 1 = v3'
          /\ (~v4 => Sorting!InOrderBut(a, m, p) /\ (p # 0 => a[p + 1].key <= a[p].key))
      <4>1. Sorting!Numbered(v1', v2, v3 - r) /\ (~v4 => Sorting!InOrderBut(v1', v2, v3 - r))
        BY <1>9
      <4>2. ~v4 => (v3 - r # 0 => v1'[v3 - r + 1].key <= v1'[v3 - r].key)
        BY <1>9
      <4>3. v2 + 1 = v2' /\ v2 + 1 = v3'
        BY <2>1
      <4> QED
        BY <3>2, <3>3, <4>1, <4>2, <4>3, Zenon
    <3>5. /\ Sorting!Numbered(a, m + 1, m + 1)
          /\ Sorting!InOrderBut(a, m, p) /\ (p # 0 => a[p + 1].key <= a[p].key) => Sorting!InOrderBut(a, m + 1, m + 1)
      BY <1>2, <3>4, NextSetsOut
    <3> QED
      BY <1>3, <3>2, <3>4, <3>5
  <2> QED
    BY <1>1, <1>3, <1>9, <2>1, <2>2, <2>3 DEF Sorting!SortInv, Sorting!Count
<1>10. PICK result \in Sorting!Answers(v1[v3 + 1], v1[v3]) :
          IF result >= 0 THEN Sorting!NextPlace /\ UNCHANGED v1
          ELSE /\ v1' = Exchanged(v1, v3)
               /\ IF v3 = 1 THEN Sorting!NextPlace ELSE v3' = v3 - 1 /\ UNCHANGED v2
  BY DEF Sorting!InsertStep, Exchanged
<1>11. CASE result >= 0
  <2>1. Sorting!NextPlace /\ v1' = v1
    BY <1>10, <1>11
  <2>2. ~v4 => v1[v3 + 1].key <= v1[v3].key
    BY <1>5, <1>10, <1>11 DEF Sorting!Answers, Sorting!Compare
  <2>3. 0 \in 0..1 /\ v3 - 0 = v3 /\ v3 \in 0..v2
    BY <1>1
  <2> QED
    BY <1>1, <1>3, <1>9, <2>1, <2>2, <2>3
<1>12. CASE ~(result >= 0)
  <2>1. v1' = Exchanged(v1, v3)
    BY <1>10, <1>12
  <2>2. ~v4 => v1[v3 + 1].key > v1[v3].key
    BY <1>5, <1>10, <1>12 DEF Sorting!Answers, Sorting!Compare
  <2>3. /\ v1' \in Seq(Sorting!Item) /\ Len(v1') = Len(v1)
        /\ {v1'[k].id : k \in 1..Len(v1)} = {v1[k].id : k \in 1..Len(v1)}
        /\ Sorting!Numbered(v1', v2, v3 - 1) /\ (~v4 => Sorting!InOrderBut(v1', v2, v3 - 1))
    <3>1. LET b == Exchanged(v1, v3) IN
          /\ b \in Seq(Sorting!Item) /\ Len(b) = Len(v1)
          /\ {b[k].id : k \in 1..Len(v1)} = {v1[k].id : k \in 1..Len(v1)}
          /\ Sorting!Numbered(v1, v2, v3) => Sorting!Numbered(b, v2, v3 - 1)
          /\ Sorting!InOrderBut(v1, v2, v3) /\ v1[v3 + 1].key > v1[v3].key => Sorting!InOrderBut(b, v2, v3 - 1)
      BY <1>1, GoesForward, Zenon
    <3> QED
      BY <1>3, <2>1, <2>2, <3>1
  <2>4. CASE v3 = 1
    <3>1. Sorting!NextPlace
      BY <1>10, <1>12, <2>4
    <3>2. 1 \in 0..1 /\ v3 - 1 = 0 /\ 0 \in 0..v2
      BY <1>1, <2>4
    <3> QED
      BY <1>3, <1>9, <2>3, <3>1, <3>2
  <2>5. CASE v3 # 1
    <3>1. v3' = v3 - 1 /\ v2' = v2 /\ v3' \in 1..v2' /\ v2' # Len(v1)
      BY <1>1, <1>10, <1>12, <2>5
    <3>2. 2 * v5' <= v2' * (v2' - 1) + 2 * (v2' - v3')
      <4> DEFINE p == v2 * (v2 - 1)
      <4>1. p \in Int /\ v2' * (v2' - 1) = p
        BY <1>1, <3>1
      <4>2. 2 * v5 <= p + 2 * (v2 - v3)
        BY <1>4
      <4> HIDE DEF p
      <4>3. 2 * v5' <= p + 2 * (v2' - v3')
        BY <4>1, <4>2, <3>1, <1>1, <1>3
      <4> QED
        BY <4>1, <4>3
    <3>3. {v1'[k].id : k \in 1..Len(v1')} = 1..Len(v1')
      BY <1>3, <2>3
    <3>4. v1' \in Seq(Sorting!Item) /\ v4' \in BOOLEAN /\ v5' \in Nat /\ v2' \in Nat
      BY <1>1, <1>3, <2>3, <3>1
    <3>5. Sorting!Numbered(v1', v2', v3') /\ (~v4' => Sorting!InOrderBut(v1', v2', v3'))
      BY <1>3, <2>3, <3>1
    <3>6. IF Sorting!Count' <= 1 THEN v2' = 1 /\ v3' = 1 ELSE v2' <= Sorting!Count' /\ (v2' = Sorting!Count' => v3' = v2')
      BY <1>1, <2>3, <3>1 DEF Sorting!Count
    <3> QED
      BY <3>1, <3>2, <3>3, <3>4, <3>5, <3>6 DEF Sorting!SortInv, Sorting!Count
  <2> QED
    BY <2>4, <2>5
<1> QED
  BY <1>11, <1>12

(* What it says when the sort has ended. *)
LEMMA SortInvSays == Sorting!SortBounds /\ Sorting!SortInv => Sorting!SortedWell
<1> SUFFICES ASSUME Sorting!SortBounds, Sorting!SortInv
             PROVE  Sorting!SortedWell
  OBVIOUS
<1>1. Sorting!Count \in Nat /\ v2 \in Nat /\ v3 \in 1..v2 /\ v5 \in Nat
  BY DEF Sorting!SortInv, Sorting!Count
<1>2. 2 * v5 <= Sorting!Count * (Sorting!Count - 1)
  <2>1. CASE Sorting!Count <= 1
    <3>1. v2 = 1 /\ v3 = 1 /\ Sorting!Count \in {0, 1}
      BY <1>1, <2>1 DEF Sorting!SortInv
    <3>2. 2 * v5 <= 0
      BY <3>1 DEF Sorting!SortInv
    <3>3. Sorting!Count * (Sorting!Count - 1) = 0
      BY <3>1
    <3> QED
      BY <1>1, <3>2, <3>3
  <2>2. CASE v2 = Sorting!Count /\ Sorting!Count > 1
    <3>1. v3 = v2
      BY <1>1, <2>2 DEF Sorting!SortInv
    <3>2. 2 * v5 <= v2 * (v2 - 1) + 2 * (v2 - v3)
      BY DEF Sorting!SortInv
    <3>3. 2 * (v2 - v3) = 0 /\ v2 * (v2 - 1) \in Int
      BY <1>1, <3>1
    <3> QED
      BY <2>2, <3>2, <3>3
  <2>3. CASE v2 < Sorting!Count /\ Sorting!Count > 1
    <3> DEFINE p == v2 * (v2 - 1)
               q == (v2 + 1) * v2
               r == Sorting!Count * (Sorting!Count - 1)
    <3>1. p \in Int /\ q \in Int /\ r \in Int /\ p + 2 * v2 = q
      BY <1>1
    <3>2. q <= r
      <4>1. PICK d \in Nat : Sorting!Count = v2 + 1 + d
        <5>1. Sorting!Count - (v2 + 1) \in Nat /\ Sorting!Count = v2 + 1 + (Sorting!Count - (v2 + 1))
          BY <1>1, <2>3
        <5> QED
          BY <5>1
      <4>2. r = q + d * (2 * v2 + 1 + d)
        BY <4>1, <1>1
      <4>3. d * (2 * v2 + 1 + d) \in Nat
        BY <4>1, <1>1
      <4> HIDE DEF q, r
      <4> QED
        BY <4>2, <4>3, <3>1
    <3>3. 2 * v5 <= p + 2 * (v2 - v3)
      BY DEF Sorting!SortInv
    <3> HIDE DEF p, q, r
    <3>4. 2 * v5 <= r
      BY <1>1, <3>1, <3>2, <3>3
    <3> QED
      BY <3>4 DEF r
  <2> QED
    BY <1>1, <2>1, <2>2, <2>3 DEF Sorting!SortInv
<1>3. ASSUME ~Sorting!Sorting, ~v4, Sorting!Count <= SortCount, NEW k \in 1..Sorting!Count - 1
      PROVE  Sorting!Before(v1[k], v1[k + 1])
  <2>1. Sorting!Count > 1 /\ v2 = Sorting!Count /\ v3 = v2
    BY <1>1, <1>3 DEF Sorting!SortInv, Sorting!Sorting
  <2>2. k \in 1..Sorting!Count /\ k + 1 \in 1..Sorting!Count /\ k < k + 1 /\ k + 1 <= v2 + 1 /\ k + 1 # v3 + 1
    BY <1>1, <2>1
  <2> QED
    BY <1>3, <2>2 DEF Sorting!SortInv, Sorting!InOrderBut, Sorting!Count
<1>4. {v1[k].id : k \in 1..Sorting!Count} = 1..Sorting!Count
  BY DEF Sorting!SortInv
<1> QED
  BY <1>2, <1>3, <1>4 DEF Sorting!SortedWell

-----------------------------------------------------------------------------
(* What has passed while the guest polls the clock is what its reads have added
   (GetUpTimeMsImpl). *)
Clock == INSTANCE GuestClock WITH
    Wide <- ClockValues, PerRead <- ClockPerRead, TickMs <- ClockTick, Wait <- ClockWait,
    uptime <- v1, from <- v2, reads <- v3

(* Once round the clock, forward or backward. *)
LEMMA OnceRound ==
    ASSUME NEW m \in Nat, m > 0, NEW x \in Int, -m <= x, x < 2 * m
    PROVE  x % m = IF x < 0 THEN x + m ELSE IF x < m THEN x ELSE x - m
<1> DEFINE q == x \div m
           r == x % m
<1>1. q \in Int /\ r \in 0..m - 1 /\ x = m * q + r
  OBVIOUS
<1> HIDE DEF q, r
<1>2. m * q \in Int /\ m * (-1) = -m /\ m * 0 = 0 /\ m * 1 = m
  BY <1>1
<1>3. q \in {-1, 0, 1}
  <2>1. ASSUME q >= 2
        PROVE  FALSE
    <3>1. m * q >= m * 2
      BY <2>1, <1>1
    <3> QED
      BY <3>1, <1>1, <1>2
  <2>2. ASSUME q <= -2
        PROVE  FALSE
    <3>1. m * q <= m * (-2)
      BY <2>2, <1>1
    <3>2. m * (-2) = -(2 * m)
      OBVIOUS
    <3> QED
      BY <3>1, <3>2, <1>1, <1>2
  <2> QED
    BY <2>1, <2>2, <1>1
<1>4. r = IF x < 0 THEN x + m ELSE IF x < m THEN x ELSE x - m
  <2>1. CASE q = -1
    BY <2>1, <1>1, <1>2
  <2>2. CASE q = 0
    BY <2>2, <1>1, <1>2
  <2>3. CASE q = 1
    BY <2>3, <1>1, <1>2
  <2> QED
    BY <1>3, <2>1, <2>2, <2>3
<1> QED
  BY <1>4 DEF r

(* Nobody waits when the clock starts. *)
LEMMA ClockInvInitially == Clock!ClockBounds /\ Clock!ClockInit => Clock!ClockInv
  BY DEF Clock!ClockInit, Clock!ClockInv, Clock!ClockBounds

(* Every read and every turn of the loop keeps it. *)
LEMMA ClockInvStays == Clock!ClockBounds /\ Clock!ClockInv /\ [Clock!ClockNext]_(Clock!clockVars) => Clock!ClockInv'
<1> SUFFICES ASSUME Clock!ClockBounds, Clock!ClockInv, [Clock!ClockNext]_(Clock!clockVars)
             PROVE  Clock!ClockInv'
  OBVIOUS
<1>1. /\ ClockValues \in Nat /\ ClockValues > 0 /\ ClockPerRead \in Nat /\ ClockPerRead > 0 /\ ClockWait \in Nat /\ ClockTick \in Nat
      /\ ClockPerRead < ClockValues /\ ClockWait + ClockPerRead <= ClockValues /\ ClockWait > 0
      /\ v1 \in 0..ClockValues - 1 /\ v2 \in -1..ClockValues - 1 /\ v3 \in Nat
  BY DEF Clock!ClockBounds, Clock!ClockInv
<1>2. Clock!Advanced = (IF v1 + ClockPerRead < ClockValues THEN v1 + ClockPerRead ELSE v1 + ClockPerRead - ClockValues)
  <2>1. v1 + ClockPerRead \in Int /\ -ClockValues <= v1 + ClockPerRead /\ v1 + ClockPerRead < 2 * ClockValues
        /\ ~(v1 + ClockPerRead < 0)
    BY <1>1
  <2>2. (v1 + ClockPerRead) % ClockValues =
          IF v1 + ClockPerRead < 0 THEN v1 + ClockPerRead + ClockValues
          ELSE IF v1 + ClockPerRead < ClockValues THEN v1 + ClockPerRead ELSE v1 + ClockPerRead - ClockValues
    BY <1>1, <2>1, OnceRound
  <2> QED
    BY <2>1, <2>2 DEF Clock!Advanced
\* what has passed between a and the present
<1>3. \A a, b \in 0..ClockValues - 1 : (a - b) % ClockValues = IF a < b THEN a - b + ClockValues ELSE a - b
  <2> SUFFICES ASSUME NEW a \in 0..ClockValues - 1, NEW b \in 0..ClockValues - 1
               PROVE  (a - b) % ClockValues = IF a < b THEN a - b + ClockValues ELSE a - b
    OBVIOUS
  <2>1. a - b \in Int /\ -ClockValues <= a - b /\ a - b < ClockValues /\ a - b < 2 * ClockValues
    BY <1>1
  <2>2. (a - b) % ClockValues = IF a - b < 0 THEN a - b + ClockValues ELSE IF a - b < ClockValues THEN a - b ELSE a - b - ClockValues
    BY <1>1, <2>1, OnceRound
  <2> QED
    BY <1>1, <2>1, <2>2
<1>4. CASE Clock!BeginWait
  <2>1. v2' = v1 /\ v3' = 0 /\ v1' = Clock!Advanced
    BY <1>4 DEF Clock!BeginWait
  <2>2. v1' \in 0..ClockValues - 1 /\ v2' \in 0..ClockValues - 1
    BY <1>1, <1>2, <2>1
  <2>3. (v1' - v2') % ClockValues = ClockPerRead
    <3>1. (v1' - v2') % ClockValues = IF v1' < v2' THEN v1' - v2' + ClockValues ELSE v1' - v2'
      BY <1>3, <2>2
    <3> QED
      BY <1>1, <1>2, <2>1, <3>1
  <2>4. (v3' + 1) * ClockPerRead = ClockPerRead /\ v3' * ClockPerRead = 0
    BY <1>1, <2>1
  <2> QED
    BY <1>1, <2>1, <2>2, <2>3, <2>4 DEF Clock!ClockInv
<1>5. CASE Clock!Poll
  <2> DEFINE e == (v1 - v2) % ClockValues
  <2>1. v2 # -1 /\ v2 \in 0..ClockValues - 1 /\ e = (v3 + 1) * ClockPerRead
    BY <1>1, <1>5 DEF Clock!Poll, Clock!ClockInv
  <2>2. v1' = Clock!Advanced /\ v1' \in 0..ClockValues - 1
    BY <1>1, <1>2, <1>5 DEF Clock!Poll
  <2>3. e = IF v1 < v2 THEN v1 - v2 + ClockValues ELSE v1 - v2
    BY <1>1, <1>3, <2>1
  <2>4. /\ v2' = IF e >= ClockWait THEN -1 ELSE v2
        /\ v3' = IF v2' = -1 THEN 0 ELSE v3 + 1
    BY <1>5 DEF Clock!Poll
  <2> HIDE DEF e
  <2>5. CASE e >= ClockWait
    BY <1>1, <2>2, <2>4, <2>5 DEF Clock!ClockInv
  <2>6. CASE ~(e >= ClockWait)
    <3>1. v2' = v2 /\ v3' = v3 + 1 /\ e \in Nat /\ e < ClockWait
      BY <1>1, <2>1, <2>3, <2>4, <2>6
    <3>2. (v1' - v2') % ClockValues = e + ClockPerRead
      <4>1. (v1' - v2') % ClockValues = IF v1' < v2 THEN v1' - v2 + ClockValues ELSE v1' - v2
        BY <1>3, <2>1, <2>2, <3>1
      <4> QED
        BY <1>1, <1>2, <2>1, <2>2, <2>3, <3>1, <4>1
    <3>3. (v3' + 1) * ClockPerRead = e + ClockPerRead /\ v3' * ClockPerRead = e
      <4>1. (v3 + 1 + 1) * ClockPerRead = (v3 + 1) * ClockPerRead + ClockPerRead
        BY <1>1
      <4> QED
        BY <2>1, <3>1, <4>1
    <3> QED
      BY <1>1, <2>1, <2>2, <3>1, <3>2, <3>3 DEF Clock!ClockInv
  <2> QED
    BY <2>5, <2>6
<1>6. CASE v2 = -1 /\ Clock!TickClock
  <2>1. v1' \in 0..ClockValues - 1 /\ v2' = v2 /\ v3' = v3
    BY <1>1, <1>6 DEF Clock!TickClock
  <2> QED
    BY <1>1, <1>6, <2>1 DEF Clock!ClockInv
<1>7. CASE UNCHANGED Clock!clockVars
  BY <1>7 DEF Clock!ClockInv, Clock!clockVars
<1> QED
  BY <1>4, <1>5, <1>6, <1>7 DEF Clock!ClockNext

(* What it says of a wait. *)
LEMMA ClockInvSays == Clock!ClockBounds /\ Clock!ClockInv => Clock!BusyWaitEnds
<1> SUFFICES ASSUME Clock!ClockBounds, Clock!ClockInv
             PROVE  Clock!BusyWaitEnds
  OBVIOUS
<1>1. {ClockPerRead, ClockWait, v3} \subseteq Nat /\ ClockPerRead > 0 /\ ClockWait > 0
  BY DEF Clock!ClockBounds, Clock!ClockInv
<1>2. v2 = -1 => v3 * ClockPerRead = 0
  BY <1>1 DEF Clock!ClockInv
<1>3. v3 * ClockPerRead \in Nat
  BY <1>1
<1> QED
  BY <1>1, <1>2, <1>3 DEF Clock!ClockInv, Clock!BusyWaitEnds

-----------------------------------------------------------------------------
(* The frames of a GIF: what a pixel shows when each has been drawn and disposed of
   (AdvanceGif). *)
Pictures == [Canvas -> Nat]
Stages == [shown : Pictures, left : Pictures]

(* What a frame shows and leaves are pixels of the canvas. *)
LEMMA DrawnWell ==
    ASSUME NEW frame, NEW n \in Nat, NEW w \in Pictures
    PROVE  Images!FrameDrawn(frame, n, w) \in Stages
<1> DEFINE drawn == [p \in Canvas |-> IF p \in Images!Opaque(frame) THEN n ELSE w[p]]
           cleared == [p \in Canvas |-> IF p \in Images!Rectangle(frame) THEN 0 ELSE drawn[p]]
           s == Images!FrameDrawn(frame, n, w)
<1>1. drawn \in Pictures
  BY DEF Pictures
<1>2. cleared \in Pictures
  BY <1>1 DEF Pictures
<1>3. s = [shown |-> drawn, left |-> CASE Images!Disposal(frame) = 2 -> cleared
                                       [] Images!Disposal(frame) = 3 -> w
                                       [] OTHER -> drawn]
  BY DEF Images!FrameDrawn, Images!Restored
<1> HIDE DEF drawn, cleared, s
<1> QED
  BY <1>1, <1>2, <1>3 DEF Stages, s

(* The walk over the frames is what its equation says. *)
LEMMA WalkWalks ==
    ASSUME NEW gif \in Seq(GifFrames)
    PROVE  /\ Images!Walk(gif)[0].left = Images!Clear
           /\ \A n \in 0..Len(gif) : Images!Walk(gif)[n].left \in Pictures
           /\ \A n \in 1..Len(gif) : Images!Walk(gif)[n] = Images!FrameDrawn(gif[n], n, Images!Walk(gif)[n - 1].left)
<1> DEFINE first == [shown |-> Images!Clear, left |-> Images!Clear]
           walk == CHOOSE t : t = [n \in 0..Len(gif) |->
                      IF n = 0 THEN first ELSE Images!FrameDrawn(gif[n], n, t[n - 1].left)]
           E == GifFrames \X Nat
           f == [w \in Stages |-> [e \in E |-> Images!FrameDrawn(e[1], e[2], w.left)]]
<1>1. Images!Walk(gif) = walk
  BY DEF Images!Walk
<1>2. Stepping(f, Stages, E)
  <2>1. \A w \in Stages, e \in E : Images!FrameDrawn(e[1], e[2], w.left) \in Stages
    BY DrawnWell DEF Stages
  <2> QED
    BY <2>1 DEF Stepping
<1>3. first \in Stages
  BY DEF Images!Clear, Stages, Pictures
<1>4. PICK N \in Nat : N = Len(gif) /\ \A k \in 1..N : gif[k] \in GifFrames
  OBVIOUS
<1>5. PICK s \in Seq(E) : Len(s) = N /\ \A k \in 1..N : s[k] = <<gif[k], k>>
  <2> DEFINE t == [k \in 1..N |-> <<gif[k], k>>]
  <2>1. \A k \in 1..N : t[k] = <<gif[k], k>> /\ t[k] \in E
    BY <1>4
  <2>2. t \in Seq(E) /\ Len(t) = N
    <3>1. t \in [1..N -> E]
      BY <2>1
    <3> HIDE DEF t, E
    <3> QED
      BY <3>1
  <2> QED
    BY <2>1, <2>2
<1> HIDE DEF f, E, first
<1>6. PICK r \in [0..N -> Stages] : r[0] = first /\ \A k \in 1..N : r[k] = f[r[k - 1]][s[k]]
  <2>1. \E r \in [0..Len(s) -> Stages] :
           r[0] = first /\ \A k \in 1..Len(s) : r[k] = f[r[k - 1]][s[k]]
    BY <1>2, <1>3, FoldExists
  <2> QED
    BY <1>5, <2>1
<1>7. \A k \in 1..N : r[k] = Images!FrameDrawn(gif[k], k, r[k - 1].left)
  <2> SUFFICES ASSUME NEW k \in 1..N
               PROVE  r[k] = Images!FrameDrawn(gif[k], k, r[k - 1].left)
    OBVIOUS
  <2>1. r[k - 1] \in Stages /\ s[k] \in E /\ s[k][1] = gif[k] /\ s[k][2] = k
    BY <1>4, <1>5, <1>6 DEF E
  <2>2. f[r[k - 1]][s[k]] = Images!FrameDrawn(s[k][1], s[k][2], r[k - 1].left)
    BY <2>1 DEF f
  <2> QED
    BY <1>6, <2>1, <2>2
<1>8. r = [n \in 0..Len(gif) |-> IF n = 0 THEN first ELSE Images!FrameDrawn(gif[n], n, r[n - 1].left)]
  <2>1. \A n \in 0..N : n # 0 => n \in 1..N
    BY <1>4
  <2> QED
    BY <1>4, <1>6, <1>7, <2>1
<1>9. walk = [n \in 0..Len(gif) |-> IF n = 0 THEN first ELSE Images!FrameDrawn(gif[n], n, walk[n - 1].left)]
  BY <1>8
<1> HIDE DEF walk
<1>10. walk[0] = first /\ \A n \in 1..N : walk[n] = Images!FrameDrawn(gif[n], n, walk[n - 1].left)
  <2>1. 0 \in 0..N /\ \A n \in 1..N : n \in 0..N /\ n # 0
    BY <1>4
  <2> QED
    BY <1>4, <1>9, <2>1
<1>11. first.left = Images!Clear /\ Images!Clear \in Pictures
  BY DEF first, Images!Clear, Pictures
<1>12. \A n \in 0..N : walk[n].left \in Pictures
  <2> DEFINE T == {n \in 0..N : walk[n].left \in Pictures}
  <2>1. 0 \in T
    BY <1>4, <1>10, <1>11
  <2>2. ASSUME NEW n \in 1..N, n - 1 \in T
        PROVE  n \in T
    <3>1. n \in 0..N /\ n \in Nat
      BY <1>4
    <3>2. Images!FrameDrawn(gif[n], n, walk[n - 1].left).left \in Pictures
      BY <2>2, <3>1, DrawnWell DEF Stages
    <3> QED
      BY <1>10, <3>1, <3>2
  <2> HIDE DEF T
  <2>3. \A n \in 0..N : n \in T
    BY <1>4, <2>1, <2>2, AllUpTo
  <2> QED
    BY <2>3 DEF T
<1> QED
  BY <1>1, <1>4, <1>10, <1>11, <1>12

(* What a pixel holds when n frames were disposed of: the frame that remains. *)
Holds(gif, n, p, v) ==
    \/ v = 0 /\ \A m \in 1..n : ~Images!Remains(gif, m, n, p)
    \/ v \in 1..n /\ Images!Remains(gif, v, n, p)

(* Of two frames that drew a pixel, one remains. *)
LEMMA OneRemains ==
    ASSUME NEW gif, NEW n \in Nat, NEW p, NEW l \in 1..n, NEW m \in 1..n,
           Images!Remains(gif, l, n, p), Images!Remains(gif, m, n, p)
    PROVE  l = m
<1>1. ASSUME NEW a \in 1..n, NEW b \in 1..n, a < b, Images!Remains(gif, a, n, p), Images!Remains(gif, b, n, p)
      PROVE  FALSE
  <2>1. b \in a..n /\ b \in b..n /\ b # a /\ ~(b > b)
    BY <1>1
  <2>2. p \in Images!Opaque(gif[b]) /\ ~(Images!Disposal(gif[b]) \in {2, 3})
    BY <1>1, <2>1 DEF Images!Remains
  <2>3. ~(p \in Images!Opaque(gif[b]) /\ Images!Disposal(gif[b]) # 3)
    BY <1>1, <2>1 DEF Images!Remains
  <2> QED
    BY <2>2, <2>3
<1> QED
  BY <1>1

(* A frame that does not draw there and does not clear it leaves what remained. *)
LEMMA RemainsOver ==
    ASSUME NEW gif, NEW n \in Nat, n > 0, NEW p, NEW m \in 1..n - 1
    PROVE  Images!Remains(gif, m, n, p) <=>
              /\ Images!Remains(gif, m, n - 1, p)
              /\ ~(Images!Disposal(gif[n]) = 2 /\ p \in Images!Rectangle(gif[n]))
              /\ ~(p \in Images!Opaque(gif[n]) /\ Images!Disposal(gif[n]) # 3)
<1>1. \A k : k \in m..n <=> k \in m..n - 1 \/ k = n
  OBVIOUS
<1>2. n # m /\ n > m
  OBVIOUS
<1> QED
  BY <1>1, <1>2 DEF Images!Remains

(* Every pixel of the canvas holds the frame that remains there. *)
LEMMA WalkHolds ==
    ASSUME Images!FramesBounds, NEW gif \in Seq(GifFrames), NEW p \in Canvas
    PROVE  \A n \in 0..Len(gif) : Holds(gif, n, p, Images!Walk(gif)[n].left[p])
<1>1. PICK N \in Nat : N = Len(gif) /\ \A k \in 1..N : gif[k] \in GifFrames
  OBVIOUS
<1> DEFINE T == {n \in 0..N : Holds(gif, n, p, Images!Walk(gif)[n].left[p])}
<1>2. 0 \in T
  <2>1. Images!Walk(gif)[0].left[p] = 0
    BY WalkWalks DEF Images!Clear
  <2> QED
    BY <1>1, <2>1 DEF Holds
<1>3. ASSUME NEW n \in 1..N, n - 1 \in T
      PROVE  n \in T
  <2> DEFINE before == Images!Walk(gif)[n - 1].left
             frame == gif[n]
             drawn == [q \in Canvas |-> IF q \in Images!Opaque(frame) THEN n ELSE before[q]]
             v == Images!Walk(gif)[n].left[p]
  <2>1. n \in 0..N /\ n \in Nat /\ n > 0 /\ n - 1 \in Nat /\ n \in 1..n /\ frame \in GifFrames
        /\ \A m \in 1..n : m = n \/ m \in 1..n - 1
    BY <1>1
  <2>2. Holds(gif, n - 1, p, before[p])
    BY <1>3
  <2>3. Images!Walk(gif)[n].left = CASE Images!Disposal(frame) = 2 -> [q \in Canvas |-> IF q \in Images!Rectangle(frame) THEN 0 ELSE drawn[q]]
                              [] Images!Disposal(frame) = 3 -> before
                              [] OTHER -> drawn
    <3>1. Images!Walk(gif)[n] = Images!FrameDrawn(frame, n, before)
      BY <1>1, WalkWalks
    <3> HIDE DEF before, frame
    <3> QED
      BY <3>1 DEF Images!FrameDrawn, Images!Restored
  <2>4. p \in Images!Opaque(frame) => p \in Images!Rectangle(frame)
    BY <2>1 DEF Images!FramesBounds
  <2>5. v = IF Images!Disposal(frame) = 2 /\ p \in Images!Rectangle(frame) THEN 0
            ELSE IF p \in Images!Opaque(frame) /\ Images!Disposal(frame) # 3 THEN n ELSE before[p]
    BY <2>3, <2>4
  <2> HIDE DEF before, drawn, v
  <2>6. \A m \in 1..n - 1 : Images!Remains(gif, m, n, p) <=>
              /\ Images!Remains(gif, m, n - 1, p)
              /\ ~(Images!Disposal(frame) = 2 /\ p \in Images!Rectangle(frame))
              /\ ~(p \in Images!Opaque(frame) /\ Images!Disposal(frame) # 3)
    BY <2>1, RemainsOver
  <2>7. Images!Remains(gif, n, n, p) <=> p \in Images!Opaque(frame) /\ ~(Images!Disposal(frame) \in {2, 3})
    <3>1. \A k : k \in n..n <=> k = n
      BY <2>1
    <3> QED
      BY <3>1 DEF Images!Remains
  <2> HIDE DEF frame
  <2>8. ASSUME Images!Disposal(frame) = 2 /\ p \in Images!Rectangle(frame)
        PROVE  Holds(gif, n, p, v)
    BY <2>1, <2>5, <2>6, <2>7, <2>8 DEF Holds
  <2>9. ASSUME ~(Images!Disposal(frame) = 2 /\ p \in Images!Rectangle(frame)), p \in Images!Opaque(frame), Images!Disposal(frame) # 3
        PROVE  Holds(gif, n, p, v)
    BY <2>1, <2>4, <2>5, <2>7, <2>9 DEF Holds
  <2>10. ASSUME ~(Images!Disposal(frame) = 2 /\ p \in Images!Rectangle(frame)), ~(p \in Images!Opaque(frame) /\ Images!Disposal(frame) # 3)
         PROVE  Holds(gif, n, p, v)
    <3>1. v = before[p]
      BY <2>5, <2>10
    <3>2. \A m \in 1..n - 1 : m \in 1..n
      BY <2>1
    <3>3. ~Images!Remains(gif, n, n, p)
      BY <2>7, <2>10
    <3> QED
      BY <2>1, <2>2, <2>6, <2>10, <3>1, <3>2, <3>3 DEF Holds
  <2>11. Holds(gif, n, p, v)
    BY <2>8, <2>9, <2>10
  <2> QED
    BY <2>1, <2>11 DEF v
<1> HIDE DEF T
<1>4. \A n \in 0..N : n \in T
  BY <1>1, <1>2, <1>3, AllUpTo
<1> QED
  BY <1>1, <1>4 DEF T

(* And a frame shows the one that lasts. *)
LEMMA ComposedWell ==
    ASSUME Images!FramesBounds, NEW gif \in Seq(GifFrames), NEW n \in DOMAIN gif, NEW p \in Canvas
    PROVE  Images!Composed(gif)[n][p] = IF \E m \in 1..n : Images!Lasts(gif, m, n, p)
                                 THEN CHOOSE m \in 1..n : Images!Lasts(gif, m, n, p) ELSE 0
<1> DEFINE before == Images!Walk(gif)[n - 1].left
           v == Images!Composed(gif)[n][p]
<1>1. n \in 1..Len(gif) /\ n \in Nat /\ n - 1 \in 0..Len(gif) /\ n - 1 \in Nat /\ n \in 1..n
      /\ \A m \in 1..n : m = n \/ (m \in 1..n - 1 /\ n > m)
  OBVIOUS
<1>2. v = IF p \in Images!Opaque(gif[n]) THEN n ELSE before[p]
  <2>1. Images!Composed(gif)[n] = Images!FrameDrawn(gif[n], n, before).shown
    BY <1>1, WalkWalks DEF Images!Composed
  <2> QED
    BY <2>1 DEF Images!FrameDrawn
<1>3. Holds(gif, n - 1, p, before[p])
  BY <1>1, WalkHolds
<1>4. Images!Lasts(gif, n, n, p) <=> p \in Images!Opaque(gif[n])
  BY <1>1 DEF Images!Lasts, Images!Remains
<1>5. \A m \in 1..n - 1 : Images!Lasts(gif, m, n, p) <=> Images!Remains(gif, m, n - 1, p) /\ p \notin Images!Opaque(gif[n])
  BY <1>1 DEF Images!Lasts
<1> HIDE DEF before, v
<1>6. CASE v # 0
  <2>1. v \in 1..n /\ Images!Lasts(gif, v, n, p)
    BY <1>1, <1>2, <1>3, <1>4, <1>5, <1>6 DEF Holds
  <2>2. ASSUME NEW m \in 1..n, Images!Lasts(gif, m, n, p)
        PROVE  m = v
    <3>1. CASE p \in Images!Opaque(gif[n])
      BY <1>1, <1>2, <1>5, <2>2, <3>1
    <3>2. CASE p \notin Images!Opaque(gif[n])
      <4>1. m \in 1..n - 1 /\ v \in 1..n - 1 /\ Images!Remains(gif, m, n - 1, p) /\ Images!Remains(gif, v, n - 1, p)
        BY <1>1, <1>4, <1>5, <2>1, <2>2, <3>2
      <4> QED
        BY <1>1, <4>1, OneRemains
    <3> QED
      BY <3>1, <3>2
  <2> QED
    BY <2>1, <2>2 DEF v
<1>7. CASE v = 0
  <2>1. \A m \in 1..n : ~Images!Lasts(gif, m, n, p)
    BY <1>1, <1>2, <1>3, <1>4, <1>5, <1>7 DEF Holds
  <2> QED
    BY <1>7, <2>1 DEF v
<1> QED
  BY <1>6, <1>7

(* No image is loaded at first. *)
LEMMA FramesInvInitially == Images!ImagesInit => Images!FramesInv
  BY DEF Images!ImagesInit, Images!FramesInv

(* Images are composed when they are loaded and never again. *)
LEMMA FramesInvStays == Images!FramesInv /\ [Images!ImagesNext]_(Images!imageVars) => Images!FramesInv'
<1> SUFFICES ASSUME Images!FramesInv, [Images!ImagesNext]_(Images!imageVars)
             PROVE  Images!FramesInv'
  OBVIOUS
<1>1. ASSUME v1' = v1
      PROVE  Images!FramesInv'
  BY <1>1 DEF Images!FramesInv
<1>2. ASSUME NEW gif \in Images!Gifs, Images!LoadResObject(gif)
      PROVE  Images!FramesInv'
  <2>1. gif \in Seq(GifFrames)
    <3>1. PICK n \in 1..MaxGifFrames : gif \in [1..n -> GifFrames]
      BY DEF Images!Gifs
    <3> QED
      BY <3>1
  <2>2. v1' = v1 \/
        /\ DOMAIN v1' = DOMAIN v1 \cup {v2}
        /\ \A o \in DOMAIN v1' : v1'[o] =
              IF o = v2 THEN [gif |-> gif, frames |-> Images!Composed(gif), current |-> 1] ELSE v1[o]
    BY <1>2 DEF Images!LoadResObject
  <2> QED
    BY <1>1, <2>1, <2>2 DEF Images!FramesInv
\* drawing and starting move the frame an image is at
<1>3. ASSUME NEW o \in DOMAIN v1, NEW c, v1' = [v1 EXCEPT ![o].current = c]
      PROVE  Images!FramesInv'
  <2>1. DOMAIN v1' = DOMAIN v1 /\ \A q \in DOMAIN v1 : q # o => v1'[q] = v1[q]
    BY <1>3
  <2>2. v1'[o] = [v1[o] EXCEPT !.current = c]
    BY <1>3
  <2>3. v1'[o].gif = v1[o].gif /\ v1'[o].frames = v1[o].frames
    BY <2>2
  <2> QED
    BY <2>1, <2>3 DEF Images!FramesInv
<1>4. ASSUME NEW o \in Images!Handles, Images!Draw(o) \/ Images!Start(o) \/ Images!Notify(o) \/ \E n \in 1..MaxGifFrames : Images!DrawFrame(o, n)
      PROVE  Images!FramesInv'
  <2>1. Images!Draw(o) => Images!FramesInv'
    BY <1>1, <1>3 DEF Images!Draw
  <2>2. Images!Start(o) => Images!FramesInv'
    BY <1>1, <1>3 DEF Images!Start
  <2>3. Images!Notify(o) \/ (\E n \in 1..MaxGifFrames : Images!DrawFrame(o, n)) => Images!FramesInv'
    BY <1>1 DEF Images!Notify, Images!DrawFrame
  <2> QED
    BY <1>4, <2>1, <2>2, <2>3
<1>5. CASE UNCHANGED Images!imageVars \/ Images!LoadFails
  BY <1>1, <1>5 DEF Images!imageVars, Images!LoadFails
<1> QED
  BY <1>2, <1>4, <1>5 DEF Images!ImagesNext

(* What it says of what is drawn. *)
LEMMA FramesInvSays == Images!FramesBounds /\ Images!FramesInv => Images!FramesAsTheFormatSays
<1> SUFFICES ASSUME Images!FramesBounds, Images!FramesInv, NEW o \in DOMAIN v1,
                    NEW n \in DOMAIN v1[o].gif, NEW p \in Canvas
             PROVE  v1[o].frames[n][p] =
                       IF \E m \in 1..n : Images!Lasts(v1[o].gif, m, n, p)
                       THEN CHOOSE m \in 1..n : Images!Lasts(v1[o].gif, m, n, p) ELSE 0
  BY DEF Images!FramesAsTheFormatSays
<1>1. v1[o].gif \in Seq(GifFrames) /\ v1[o].frames = Images!Composed(v1[o].gif)
  BY DEF Images!FramesInv
<1> QED
  BY <1>1, ComposedWell

-----------------------------------------------------------------------------
(* The lines read from a source are its text up to the cursor (IGetLine). *)
Util == INSTANCE GuestServices WITH
    Vectors <- {1}, MaxItems <- 2, Texts <- LineTexts, MaxSources <- MaxSources,
    vectors <- v1, source <- v2, opened <- v3, lines <- v4

Chars == Seq(Util!Letters)

(* Texts are closed under what is done with them. *)
LEMMA CharsMade ==
    /\ <<>> \in Chars /\ <<"nl">> \in Chars
    /\ \A w \in Chars, e \in Util!Letters : Append(w, e) \in Chars
    /\ \A w, v \in Chars : w \o v \in Chars
    /\ \A w \in Chars : w \o <<>> = w
    /\ \A w \in Chars : Len(w) \in Nat /\ \A k \in 1..Len(w) : w[k] \in Util!Letters
    /\ Chars = Seq(Util!Letters)
<1>1. "nl" \in Util!Letters
  BY DEF Util!Letters
<1> QED
  BY <1>1 DEF Chars

(* The elements of a concatenation. *)
LEMMA Concats ==
    ASSUME NEW S, NEW s \in Seq(S), NEW t \in Seq(S)
    PROVE  /\ s \o t \in Seq(S) /\ Len(s \o t) = Len(s) + Len(t)
           /\ \A k \in 1..Len(s) : (s \o t)[k] = s[k]
           /\ \A k \in 1..Len(t) : (s \o t)[Len(s) + k] = t[k]
OBVIOUS

(* Sequences are their elements. *)
LEMMA SameSequence ==
    ASSUME NEW S, NEW s \in Seq(S), NEW t \in Seq(S), Len(s) = Len(t),
           \A k \in 1..Len(s) : s[k] = t[k]
    PROVE  s = t
OBVIOUS

(* One more element of the second is one more of the whole. *)
LEMMA ConcatsAppend ==
    ASSUME NEW s \in Seq(Util!Letters), NEW t \in Seq(Util!Letters), NEW e \in Util!Letters
    PROVE  Append(s \o t, e) = s \o Append(t, e)
<1> DEFINE a == Append(s \o t, e)
           b == s \o Append(t, e)
<1>1. s \o t \in Seq(Util!Letters) /\ Append(t, e) \in Seq(Util!Letters) /\ Len(Append(t, e)) = Len(t) + 1
      /\ \A k \in 1..Len(t) : Append(t, e)[k] = t[k]
      /\ Append(t, e)[Len(t) + 1] = e
  BY Concats
<1>2. a \in Seq(Util!Letters) /\ b \in Seq(Util!Letters)
  BY <1>1, Concats
<1>3. Len(a) = Len(s) + Len(t) + 1 /\ Len(b) = Len(s) + Len(t) + 1
  BY <1>1, Concats
<1>4. ASSUME NEW k \in 1..Len(s) + Len(t) + 1
      PROVE  a[k] = b[k]
  <2>0. PICK m \in Nat, n \in Nat : m = Len(s) /\ n = Len(t)
    OBVIOUS
  <2>1. CASE k <= m
    <3>1. k \in 1..Len(s) /\ k \in 1..Len(s \o t)
      BY <2>0, <2>1, Concats
    <3>2. a[k] = (s \o t)[k]
      BY <1>1, <3>1
    <3>3. b[k] = s[k] /\ (s \o t)[k] = s[k]
      BY <1>1, <3>1, Concats
    <3> QED
      BY <3>2, <3>3
  <2>2. CASE k > m /\ k <= m + n
    <3>1. PICK i \in 1..n : k = m + i
      <4>1. k - m \in 1..n /\ k = m + (k - m)
        BY <2>0, <2>2
      <4> QED
        BY <4>1
    <3>2. i \in 1..Len(t) /\ i \in 1..Len(Append(t, e)) /\ k \in 1..Len(s \o t)
      BY <1>1, <2>0, <3>1, Concats
    <3>3. a[k] = (s \o t)[k] /\ (s \o t)[k] = t[i]
      BY <1>1, <2>0, <3>1, <3>2, Concats
    <3>4. b[k] = Append(t, e)[i]
      BY <1>1, <2>0, <3>1, <3>2, Concats
    <3> QED
      BY <1>1, <3>2, <3>3, <3>4
  <2>3. CASE k = m + n + 1
    <3>1. a[k] = e
      BY <1>1, <2>0, <2>3, Concats
    <3>2. n + 1 \in 1..Len(Append(t, e)) /\ k = Len(s) + (n + 1)
      BY <1>1, <2>0, <2>3
    <3>3. b[k] = Append(t, e)[n + 1]
      BY <1>1, <3>2, Concats
    <3> QED
      BY <1>1, <2>0, <3>1, <3>3
  <2> QED
    BY <2>0, <2>1, <2>2, <2>3
<1> QED
  BY <1>2, <1>3, <1>4, SameSequence

(* The same, of texts. *)
LEMMA CharsAppend ==
    ASSUME NEW s \in Chars, NEW t \in Chars, NEW e \in Util!Letters
    PROVE  Append(s \o t, e) = s \o Append(t, e)
<1>1. s \in Seq(Util!Letters) /\ t \in Seq(Util!Letters)
  BY DEF Chars
<1> QED
  BY <1>1, ConcatsAppend

(* A piece of a text is the piece before it and its last character. *)
LEMMA PieceGrows ==
    ASSUME NEW s \in Chars, NEW c \in 1..Len(s), NEW d \in c..Len(s)
    PROVE  LET u == SubSeq(s, c, d)
               v == SubSeq(s, c, d - 1)
           IN  /\ u \in Chars /\ u # <<>> /\ u[Len(u)] = s[d]
               /\ v \in Chars /\ u = Append(v, s[d]) /\ v = SubSeq(u, 1, Len(u) - 1)
<1> DEFINE u == SubSeq(s, c, d)
           v == SubSeq(s, c, d - 1)
<1>1. s \in Seq(Util!Letters) /\ c \in Int /\ d \in Int /\ 1 <= c /\ c <= d /\ d <= Len(s) /\ Len(s) \in Nat
  BY DEF Chars
<1>2. /\ u \in Seq(Util!Letters) /\ Len(u) = d - c + 1 /\ \A k \in 1..d - c + 1 : u[k] = s[c + k - 1]
  BY <1>1
<1>3. /\ v \in Seq(Util!Letters) /\ Len(v) = d - c /\ \A k \in 1..d - c : v[k] = s[c + k - 1]
  BY <1>1
<1> HIDE DEF u, v
<1>4. u # <<>> /\ u[Len(u)] = s[d] /\ s[d] \in Util!Letters
  <2>1. d - c + 1 \in 1..d - c + 1 /\ c + (d - c + 1) - 1 = d
    BY <1>1
  <2>2. u[d - c + 1] = s[d]
    BY <1>2, <2>1
  <2>3. d \in 1..Len(s)
    BY <1>1
  <2> QED
    BY <1>1, <1>2, <2>1, <2>2, <2>3
<1>5. u = Append(v, s[d])
  <2> DEFINE w == Append(v, s[d])
  <2>1. w \in Seq(Util!Letters) /\ Len(w) = d - c + 1 /\ (\A k \in 1..d - c : w[k] = v[k]) /\ w[d - c + 1] = s[d]
    BY <1>1, <1>3, <1>4
  <2> HIDE DEF w
  <2>2. ASSUME NEW k \in 1..d - c + 1
        PROVE  u[k] = w[k]
    <3>1. CASE k = d - c + 1
      BY <1>2, <1>4, <2>1, <3>1
    <3>2. CASE k # d - c + 1
      <4>1. k \in 1..d - c
        BY <1>1, <2>2, <3>2
      <4> QED
        BY <1>2, <1>3, <2>1, <4>1
    <3> QED
      BY <3>1, <3>2
  <2>3. u = w
    BY <1>2, <2>1, <2>2, SameSequence
  <2> QED
    BY <2>3 DEF w
<1>6. v = SubSeq(u, 1, Len(u) - 1)
  <2> DEFINE w == SubSeq(u, 1, Len(u) - 1)
  <2>1. w \in Seq(Util!Letters) /\ Len(w) = d - c /\ \A k \in 1..d - c : w[k] = u[k]
    BY <1>1, <1>2
  <2> HIDE DEF w
  <2>2. \A k \in 1..d - c : v[k] = w[k]
    BY <1>1, <1>2, <1>3, <2>1
  <2>3. v = w
    BY <1>3, <2>1, <2>2, SameSequence
  <2> QED
    BY <2>3 DEF w
<1> QED
  BY <1>2, <1>3, <1>4, <1>5, <1>6 DEF Chars, u, v

(* The two recursions are what their equations say. *)
LEMMA PlainWalks ==
    ASSUME NEW text \in Chars
    PROVE  /\ Util!PlainTo(text)[0] = <<>>
           /\ \A n \in 0..Len(text) : Util!PlainTo(text)[n] \in Chars
           /\ \A n \in 1..Len(text) :
                 Util!PlainTo(text)[n] = IF Util!Dropped(text, n) THEN Util!PlainTo(text)[n - 1]
                                    ELSE Append(Util!PlainTo(text)[n - 1], text[n])
<1> DEFINE from == CHOOSE t : t = [n \in 0..Len(text) |->
                      IF n = 0 THEN <<>>
                      ELSE IF Util!Dropped(text, n) THEN t[n - 1] ELSE Append(t[n - 1], text[n])]
           E == Util!Letters \X BOOLEAN
           f == [w \in Chars |-> [e \in E |-> IF e[2] THEN w ELSE Append(w, e[1])]]
<1>1. Util!PlainTo(text) = from
  BY DEF Util!PlainTo
<1>2. Stepping(f, Chars, E)
  <2>1. \A w \in Chars, e \in E : (IF e[2] THEN w ELSE Append(w, e[1])) \in Chars
    BY CharsMade
  <2> QED
    BY <2>1 DEF Stepping
<1>4. PICK N \in Nat : N = Len(text) /\ \A k \in 1..N : text[k] \in Util!Letters
  BY CharsMade
<1>4a. \A n \in 1..N : Util!Dropped(text, n) \in BOOLEAN
  BY DEF Util!Dropped
<1>5. PICK s \in Seq(E) : Len(s) = N /\ \A k \in 1..N : s[k] = <<text[k], Util!Dropped(text, k)>>
  <2> DEFINE t == [k \in 1..N |-> <<text[k], Util!Dropped(text, k)>>]
  <2>1. \A k \in 1..N : t[k] = <<text[k], Util!Dropped(text, k)>> /\ t[k] \in E
    BY <1>4, <1>4a
  <2>2. t \in Seq(E) /\ Len(t) = N
    <3>1. t \in [1..N -> E]
      BY <2>1
    <3> HIDE DEF t, E
    <3> QED
      BY <3>1
  <2> QED
    BY <2>1, <2>2
<1> HIDE DEF f, E
<1>6. PICK r \in [0..N -> Chars] : r[0] = <<>> /\ \A k \in 1..N : r[k] = f[r[k - 1]][s[k]]
  <2>1. <<>> \in Chars
    BY CharsMade
  <2>2. \E r \in [0..Len(s) -> Chars] :
           r[0] = <<>> /\ \A k \in 1..Len(s) : r[k] = f[r[k - 1]][s[k]]
    BY <1>2, <2>1, FoldExists
  <2> QED
    BY <1>5, <2>2
<1>7. \A k \in 1..N : r[k] = IF Util!Dropped(text, k) THEN r[k - 1] ELSE Append(r[k - 1], text[k])
  <2> SUFFICES ASSUME NEW k \in 1..N
               PROVE  r[k] = IF Util!Dropped(text, k) THEN r[k - 1] ELSE Append(r[k - 1], text[k])
    OBVIOUS
  <2>1. r[k - 1] \in Chars /\ s[k] \in E /\ s[k][1] = text[k] /\ s[k][2] = Util!Dropped(text, k)
    <3>1. k - 1 \in 0..N
      BY <1>4
    <3>2. r[k - 1] \in Chars
      BY <1>6, <3>1
    <3>3. s[k] = <<text[k], Util!Dropped(text, k)>> /\ k \in 1..Len(s)
      BY <1>5
    <3>4. s[k] \in E
      BY <1>4, <1>4a, <3>3 DEF E
    <3> QED
      BY <3>2, <3>3, <3>4
  <2>2. f[r[k - 1]][s[k]] = IF s[k][2] THEN r[k - 1] ELSE Append(r[k - 1], s[k][1])
    BY <2>1 DEF f
  <2> QED
    BY <1>6, <2>1, <2>2
<1>8. r = [n \in 0..Len(text) |-> IF n = 0 THEN <<>>
             ELSE IF Util!Dropped(text, n) THEN r[n - 1] ELSE Append(r[n - 1], text[n])]
  <2>1. \A n \in 0..N : n # 0 => n \in 1..N
    BY <1>4
  <2> QED
    BY <1>4, <1>6, <1>7, <2>1
<1>9. from = [n \in 0..Len(text) |-> IF n = 0 THEN <<>>
                ELSE IF Util!Dropped(text, n) THEN from[n - 1] ELSE Append(from[n - 1], text[n])]
  BY <1>8
<1> HIDE DEF from
<1>10. /\ from[0] = <<>>
       /\ \A n \in 1..N : from[n] = IF Util!Dropped(text, n) THEN from[n - 1] ELSE Append(from[n - 1], text[n])
  <2>1. 0 \in 0..N /\ \A n \in 1..N : n \in 0..N /\ n # 0
    BY <1>4
  <2> QED
    BY <1>4, <1>9, <2>1
<1>12. \A n \in 0..N : from[n] \in Chars
  <2> DEFINE T == {n \in 0..N : from[n] \in Chars}
  <2>1. 0 \in T
    <3>1. <<>> \in Chars
      BY CharsMade
    <3>2. 0 \in 0..N
      BY <1>4
    <3> QED
      BY <1>10, <3>1, <3>2
  <2>2. ASSUME NEW n \in 1..N, n - 1 \in T
        PROVE  n \in T
    <3>1. n \in 0..N /\ text[n] \in Util!Letters /\ from[n - 1] \in Chars
      BY <1>4, <2>2
    <3>2. Append(from[n - 1], text[n]) \in Chars
      BY <3>1, CharsMade
    <3>3. from[n] \in Chars
      BY <1>10, <3>1, <3>2
    <3> QED
      BY <3>1, <3>3
  <2> HIDE DEF T
  <2>3. \A n \in 0..N : n \in T
    BY <1>4, <2>1, <2>2, AllUpTo
  <2> QED
    BY <2>3 DEF T
<1> QED
  BY <1>1, <1>4, <1>10, <1>12

(* And of the second. *)
LEMMA JoinWalks ==
    ASSUME NEW pieces \in Seq(Chars)
    PROVE  /\ Util!JoinedTo(pieces)[0] = <<>>
           /\ \A n \in 0..Len(pieces) : Util!JoinedTo(pieces)[n] \in Chars
           /\ \A n \in 1..Len(pieces) :
                 Util!JoinedTo(pieces)[n] = Util!JoinedTo(pieces)[n - 1] \o pieces[n] \o <<"nl">>
<1> DEFINE join == CHOOSE t : t = [n \in 0..Len(pieces) |->
                      IF n = 0 THEN <<>> ELSE t[n - 1] \o pieces[n] \o <<"nl">>]
           f == [w \in Chars |-> [e \in Chars |-> w \o e \o <<"nl">>]]
<1>1. Util!JoinedTo(pieces) = join
  BY DEF Util!JoinedTo
<1>2. \A w \in Chars, e \in Chars : w \o e \o <<"nl">> \in Chars
  <2>1. <<"nl">> \in Chars
    BY CharsMade
  <2> QED
    BY <2>1, CharsMade
<1>3. Stepping(f, Chars, Chars)
  BY <1>2 DEF Stepping
<1>4. PICK N \in Nat : N = Len(pieces) /\ \A k \in 1..N : pieces[k] \in Chars
  OBVIOUS
<1> HIDE DEF f
<1>6. PICK r \in [0..N -> Chars] : r[0] = <<>> /\ \A k \in 1..N : r[k] = f[r[k - 1]][pieces[k]]
  <2>1. <<>> \in Chars
    BY CharsMade
  <2>2. \E r \in [0..Len(pieces) -> Chars] :
           r[0] = <<>> /\ \A k \in 1..Len(pieces) : r[k] = f[r[k - 1]][pieces[k]]
    BY <1>3, <2>1, FoldExists
  <2> QED
    BY <1>4, <2>2
<1>7. \A k \in 1..N : r[k] = r[k - 1] \o pieces[k] \o <<"nl">>
  <2> SUFFICES ASSUME NEW k \in 1..N
               PROVE  r[k] = r[k - 1] \o pieces[k] \o <<"nl">>
    OBVIOUS
  <2>1. r[k - 1] \in Chars /\ pieces[k] \in Chars
    BY <1>4, <1>6
  <2>2. f[r[k - 1]][pieces[k]] = r[k - 1] \o pieces[k] \o <<"nl">>
    BY <2>1 DEF f
  <2> QED
    BY <1>6, <2>2
<1>8. r = [n \in 0..Len(pieces) |-> IF n = 0 THEN <<>> ELSE r[n - 1] \o pieces[n] \o <<"nl">>]
  <2>1. \A n \in 0..N : n # 0 => n \in 1..N
    BY <1>4
  <2> QED
    BY <1>4, <1>6, <1>7, <2>1
<1>9. join = [n \in 0..Len(pieces) |-> IF n = 0 THEN <<>> ELSE join[n - 1] \o pieces[n] \o <<"nl">>]
  BY <1>8
<1> HIDE DEF join
<1>10. join[0] = <<>> /\ \A n \in 1..N : join[n] = join[n - 1] \o pieces[n] \o <<"nl">>
  <2>1. 0 \in 0..N /\ \A n \in 1..N : n \in 0..N /\ n # 0
    BY <1>4
  <2> QED
    BY <1>4, <1>9, <2>1
<1>12. \A n \in 0..N : join[n] \in Chars
  <2> DEFINE T == {n \in 0..N : join[n] \in Chars}
  <2>1. 0 \in T
    <3>1. <<>> \in Chars
      BY CharsMade
    <3>2. 0 \in 0..N
      BY <1>4
    <3> QED
      BY <1>10, <3>1, <3>2
  <2>2. ASSUME NEW n \in 1..N, n - 1 \in T
        PROVE  n \in T
    <3>1. n \in 0..N /\ pieces[n] \in Chars /\ join[n - 1] \in Chars
      BY <1>4, <2>2
    <3> QED
      BY <1>2, <1>10, <3>1
  <2> HIDE DEF T
  <2>3. \A n \in 0..N : n \in T
    BY <1>4, <2>1, <2>2, AllUpTo
  <2> QED
    BY <2>3 DEF T
<1> QED
  BY <1>1, <1>4, <1>10, <1>12

(* One more line is joined behind the others. *)
LEMMA JoinedMore ==
    ASSUME NEW pieces \in Seq(Chars), NEW line \in Chars
    PROVE  Util!Joined(Append(pieces, line)) = Util!Joined(pieces) \o line \o <<"nl">>
<1> DEFINE more == Append(pieces, line)
           T == {n \in 0..Len(pieces) : Util!JoinedTo(more)[n] = Util!JoinedTo(pieces)[n]}
<1>1. PICK N \in Nat : N = Len(pieces)
  OBVIOUS
<1>2. more \in Seq(Chars) /\ Len(more) = N + 1 /\ more[N + 1] = line
      /\ \A k \in 1..N : more[k] = pieces[k]
  BY <1>1
<1> HIDE DEF more
<1>3. 0 \in T
  <2>1. Util!JoinedTo(more)[0] = <<>> /\ Util!JoinedTo(pieces)[0] = <<>>
    BY <1>2, JoinWalks
  <2> QED
    BY <1>1, <2>1
<1>4. ASSUME NEW n \in 1..N, n - 1 \in T
      PROVE  n \in T
  <2>1. n \in 1..Len(pieces) /\ n \in 1..Len(more) /\ n \in 0..Len(pieces) /\ more[n] = pieces[n]
    BY <1>1, <1>2
  <2>2. Util!JoinedTo(more)[n] = Util!JoinedTo(more)[n - 1] \o more[n] \o <<"nl">>
    BY <1>2, <2>1, JoinWalks
  <2>3. Util!JoinedTo(pieces)[n] = Util!JoinedTo(pieces)[n - 1] \o pieces[n] \o <<"nl">>
    BY <2>1, JoinWalks
  <2> QED
    BY <1>4, <2>1, <2>2, <2>3
<1>5. N \in T
  <2> HIDE DEF T
  <2>1. \A n \in 0..N : n \in T
    BY <1>1, <1>3, <1>4, AllUpTo
  <2> QED
    BY <1>1, <2>1
<1>6. N + 1 \in 1..Len(more) /\ N + 1 - 1 = N
  BY <1>1, <1>2
<1>7. Util!JoinedTo(more)[N + 1] = Util!JoinedTo(more)[N] \o more[N + 1] \o <<"nl">>
  <2>1. PICK M \in 1..Len(more) : M = N + 1 /\ M - 1 = N
    BY <1>6
  <2>2. Util!JoinedTo(more)[M] = Util!JoinedTo(more)[M - 1] \o more[M] \o <<"nl">>
    BY <1>2, JoinWalks
  <2> QED
    BY <2>1, <2>2
<1> QED
  BY <1>1, <1>2, <1>5, <1>6, <1>7 DEF Util!Joined, more

(* Between new lines nothing but the carriage return at the end of the line is dropped. *)
LEMMA LineIsPlain ==
    ASSUME NEW text \in Chars, NEW c \in 1..Len(text), NEW e \in c + 1..Len(text) + 1,
           \A k \in c..e - 1 : text[k] # "nl"
    PROVE  \A i \in 0..e - 1 - c :
              Util!PlainTo(text)[c - 1 + i] = Util!PlainTo(text)[c - 1] \o SubSeq(text, c, c - 1 + i)
<1>1. PICK N \in Nat : N = Len(text) /\ \A k \in 1..N : text[k] \in Util!Letters
  BY CharsMade
<1> DEFINE base == Util!PlainTo(text)[c - 1]
           upTo(i) == Util!PlainTo(text)[c - 1 + i]
           line(i) == SubSeq(text, c, c - 1 + i)
           T == {i \in 0..e - 1 - c : upTo(i) = base \o line(i)}
<1>2. base \in Chars
  BY <1>1, PlainWalks
<1>3. \A i \in 0..e - 1 - c : line(i) \in Chars
  BY <1>1, CharsMade
<1>4. line(0) = <<>> /\ upTo(0) = base
  BY <1>1, CharsMade
<1>5. \A i \in 1..e - 1 - c : line(i) = Append(line(i - 1), text[c - 1 + i])
  <2> SUFFICES ASSUME NEW i \in 1..e - 1 - c
               PROVE  line(i) = Append(line(i - 1), text[c - 1 + i])
    OBVIOUS
  <2>1. PICK k \in 1..N : k = c - 1 + i /\ k >= c /\ k - 1 = c - 1 + (i - 1)
    BY <1>1
  <2>2. SubSeq(text, c, k) = Append(SubSeq(text, c, k - 1), text[k])
    BY <1>1, <2>1, CharsMade
  <2> QED
    BY <2>1, <2>2
<1>6. \A i \in 1..e - 1 - c : upTo(i) = Append(upTo(i - 1), text[c - 1 + i])
  <2> SUFFICES ASSUME NEW i \in 1..e - 1 - c
               PROVE  upTo(i) = Append(upTo(i - 1), text[c - 1 + i])
    OBVIOUS
  <2>1. PICK k \in 1..N : k = c - 1 + i /\ k >= c /\ k - 1 = c - 1 + (i - 1) /\ k + 1 \in c..e - 1 /\ k # N
    BY <1>1
  <2>2. ~Util!Dropped(text, k)
    BY <1>1, <2>1 DEF Util!Dropped
  <2>3. Util!PlainTo(text)[k] = Append(Util!PlainTo(text)[k - 1], text[k])
    BY <1>1, <2>1, <2>2, PlainWalks
  <2> QED
    BY <2>1, <2>3
<1>7. \A i \in 1..e - 1 - c : text[c - 1 + i] \in Util!Letters
  BY <1>1
<1> HIDE DEF base, upTo, line
<1>8. 0 \in T
  BY <1>1, <1>2, <1>4, CharsMade
<1>9. ASSUME NEW i \in 1..e - 1 - c, i - 1 \in T
      PROVE  i \in T
  <2>1. i \in 0..e - 1 - c /\ i - 1 \in 0..e - 1 - c /\ upTo(i - 1) = base \o line(i - 1)
    BY <1>9
  <2>2. base \o line(i) = Append(base \o line(i - 1), text[c - 1 + i])
    <3>1. PICK l \in Chars, x \in Util!Letters : l = line(i - 1) /\ x = text[c - 1 + i]
      BY <1>3, <1>7, <2>1
    <3>2. Append(base \o l, x) = base \o Append(l, x)
      BY <1>2, CharsAppend
    <3> QED
      BY <1>5, <3>1, <3>2
  <2> QED
    BY <1>6, <2>1, <2>2
<1>10. e - 1 - c \in Nat
  BY <1>1
<1> HIDE DEF T
<1>11. \A i \in 0..e - 1 - c : i \in T
  BY <1>8, <1>9, <1>10, AllUpTo
<1> QED
  BY <1>11 DEF T, upTo, line, base

(* What a line read adds is what stands there before its end. *)
LEMMA LineRead ==
    ASSUME NEW s, s.text \in Chars, s.cursor \in 1..Len(s.text), NEW got, got = Util!NextLine(s)
    PROVE  /\ got.line \in Chars
           /\ \E e \in s.cursor..Len(s.text) + 1 :
                /\ Util!PlainTo(s.text)[e - 1] = Util!PlainTo(s.text)[s.cursor - 1] \o got.line
                /\ \/ e = Len(s.text) + 1 /\ got.cursor = e /\ s.text[Len(s.text)] # "nl"
                   \/ e <= Len(s.text) /\ got.cursor = e + 1 /\ s.text[e] = "nl"
<1>0. PICK text \in Chars : text = s.text
  OBVIOUS
<1>0a. PICK c \in 1..Len(text) : c = s.cursor
  BY <1>0
<1>1. PICK N \in Nat : N = Len(text) /\ (\A k \in 1..N : text[k] \in Util!Letters) /\ c \in 1..N
  BY CharsMade
<1> DEFINE ends == {n \in s.cursor..Len(s.text) : s.text[n] = "nl"}
           e == IF ends = {} THEN Len(s.text) + 1 ELSE CHOOSE n \in ends : \A m \in ends : n <= m
           line == SubSeq(s.text, s.cursor, e - 1)
           base == Util!PlainTo(text)[c - 1]
<1>2. /\ got.line = IF line # <<>> /\ line[Len(line)] = "cr" THEN SubSeq(line, 1, Len(line) - 1) ELSE line
      /\ got.cursor = IF ends = {} THEN e ELSE e + 1
  BY DEF Util!NextLine
<1>2a. ends = {n \in c..Len(text) : text[n] = "nl"}
  BY <1>0, <1>0a
<1>2b. e = IF ends = {} THEN Len(text) + 1 ELSE CHOOSE n \in ends : \A m \in ends : n <= m
  BY <1>0
<1>2c. line = SubSeq(text, c, e - 1)
  BY <1>0, <1>0a
<1> HIDE DEF ends, e, line
<1>3. /\ ends = {} => e = N + 1
      /\ ends # {} => e \in c..N /\ text[e] = "nl"
      /\ \A k \in c..e - 1 : text[k] # "nl"
  <2>1. CASE ends = {}
    <3>1. e = N + 1 /\ \A k \in c..N : text[k] # "nl"
      BY <1>1, <1>2a, <1>2b, <2>1
    <3> QED
      BY <1>1, <2>1, <3>1
  <2>2. CASE ends # {}
    <3>1. ends \in SUBSET Nat
      BY <1>1, <1>2a
    <3>2. e \in ends /\ \A m \in ends : e <= m
      BY <1>2b, <2>2, <3>1, SmallestOf
    <3>3. e \in c..N /\ text[e] = "nl"
      BY <1>1, <1>2a, <3>2
    <3>4. ASSUME NEW k \in c..e - 1
          PROVE  text[k] # "nl"
      <4>1. k \in c..Len(text) /\ ~(e <= k)
        BY <1>1, <3>3, <3>4
      <4> QED
        BY <1>2a, <3>2, <4>1
    <3> QED
      BY <2>2, <3>3, <3>4
  <2> QED
    BY <2>1, <2>2
<1>4. e \in c..N + 1 /\ e - 1 \in 0..N
  BY <1>1, <1>3
<1>5. base \in Chars
  BY <1>1, PlainWalks
<1>6. got.line \in Chars /\ Util!PlainTo(text)[e - 1] = base \o got.line
  <2>1. CASE e = c
    <3>1. line = <<>> /\ base \o <<>> = base
      <4>1. SubSeq(text, c, c - 1) = <<>>
        BY <1>1, CharsMade
      <4> QED
        BY <1>2c, <1>5, <2>1, <4>1, CharsMade
    <3>2. got.line = <<>>
      BY <1>2, <3>1
    <3>3. <<>> \in Chars
      BY CharsMade
    <3> QED
      BY <2>1, <3>1, <3>2, <3>3
  <2>2. CASE e > c
    <3>1. e \in c + 1..Len(text) + 1 /\ e - 1 \in 1..N /\ e - 1 - c \in 0..e - 1 - c /\ e - 2 = c - 1 + (e - 1 - c)
          /\ e - 1 - 1 = e - 2 /\ e - 2 \in 0..N
      BY <1>1, <1>4, <2>2
    <3>2. Util!PlainTo(text)[e - 2] = base \o SubSeq(text, c, e - 2)
      <4>1. PICK d \in c + 1..Len(text) + 1 : d = e
        BY <3>1
      <4>2. \A k \in c..d - 1 : text[k] # "nl"
        BY <1>3, <4>1
      <4>3. d - 1 - c \in 0..d - 1 - c /\ c - 1 + (d - 1 - c) = e - 2
        BY <3>1, <4>1
      <4>4. Util!PlainTo(text)[c - 1 + (d - 1 - c)] = Util!PlainTo(text)[c - 1] \o SubSeq(text, c, c - 1 + (d - 1 - c))
        BY <4>2, <4>3, LineIsPlain
      <4> QED
        BY <4>3, <4>4
    <3>3. /\ line \in Chars /\ line # <<>> /\ line[Len(line)] = text[e - 1]
          /\ SubSeq(text, c, e - 2) \in Chars /\ line = Append(SubSeq(text, c, e - 2), text[e - 1])
          /\ SubSeq(text, c, e - 2) = SubSeq(line, 1, Len(line) - 1)
      <4>1. PICK d \in c..Len(text) : d = e - 1 /\ d - 1 = e - 2
        BY <1>1, <3>1
      <4>2. d \in c..Len(text) /\ line = SubSeq(text, c, d) /\ SubSeq(text, c, e - 2) = SubSeq(text, c, d - 1)
            /\ text[e - 1] = text[d]
        BY <1>2c, <4>1
      <4>3. /\ SubSeq(text, c, d) \in Chars /\ SubSeq(text, c, d) # <<>>
            /\ SubSeq(text, c, d)[Len(SubSeq(text, c, d))] = text[d]
            /\ SubSeq(text, c, d - 1) \in Chars /\ SubSeq(text, c, d) = Append(SubSeq(text, c, d - 1), text[d])
            /\ SubSeq(text, c, d - 1) = SubSeq(SubSeq(text, c, d), 1, Len(SubSeq(text, c, d)) - 1)
        BY PieceGrows
      <4> QED
        BY <4>2, <4>3
    <3>6. Util!Dropped(text, e - 1) <=> text[e - 1] = "cr"
      <4>1. e - 1 = Len(text) \/ text[e - 1 + 1] = "nl"
        BY <1>1, <1>3, <1>4
      <4> QED
        BY <4>1 DEF Util!Dropped
    <3>7. Util!PlainTo(text)[e - 1] = IF Util!Dropped(text, e - 1) THEN Util!PlainTo(text)[e - 2]
                                 ELSE Append(Util!PlainTo(text)[e - 2], text[e - 1])
      <4>1. PICK k \in 1..Len(text) : k = e - 1 /\ k - 1 = e - 2
        BY <1>1, <3>1
      <4> QED
        BY <4>1, PlainWalks
    <3>8. CASE text[e - 1] = "cr"
      <4>1. got.line = SubSeq(text, c, e - 2)
        BY <1>2, <3>3, <3>8
      <4> QED
        BY <3>2, <3>3, <3>6, <3>7, <3>8, <4>1
    <3>9. CASE text[e - 1] # "cr"
      <4>1. got.line = line
        BY <1>2, <3>3, <3>9
      <4>2. Append(base \o SubSeq(text, c, e - 2), text[e - 1]) = base \o line
        <5>1. PICK l \in Chars, x \in Util!Letters : l = SubSeq(text, c, e - 2) /\ x = text[e - 1]
          BY <1>1, <3>1, <3>3
        <5>2. Append(base \o l, x) = base \o Append(l, x)
          BY <1>5, CharsAppend
        <5> QED
          BY <3>3, <5>1, <5>2
      <4> QED
        BY <3>2, <3>3, <3>6, <3>7, <3>9, <4>1, <4>2
    <3> QED
      BY <3>8, <3>9
  <2> QED
    <3>1. e = c \/ e > c
      BY <1>1, <1>4
    <3> QED
      BY <2>1, <2>2, <3>1, Zenon
<1>7. \/ e = N + 1 /\ got.cursor = e /\ text[N] # "nl"
      \/ e <= N /\ got.cursor = e + 1 /\ text[e] = "nl"
  <2>1. got.cursor = IF ends = {} THEN e ELSE e + 1
    BY <1>2
  <2>2. CASE ends = {}
    <3>1. N \in c..e - 1
      BY <1>1, <1>3, <2>2
    <3> QED
      BY <1>3, <2>1, <2>2, <3>1
  <2>3. CASE ends # {}
    BY <1>1, <1>3, <2>1, <2>3
  <2> QED
    BY <2>2, <2>3
<1> QED
  BY <1>0, <1>0a, <1>1, <1>4, <1>6, <1>7 DEF base

(* No source is open at first. *)
LEMMA ServicesInvInitially == Util!ServicesInit => Util!ServicesInv
  BY DEF Util!ServicesInit, Util!ServicesInv

(* Opening begins at the start of a file, and a line read moves the cursor behind it. *)
LEMMA ServicesInvStays == Util!ServicesBounds /\ Util!ServicesInv /\ [Util!ServicesNext]_(Util!serviceVars) => Util!ServicesInv'
<1> SUFFICES ASSUME Util!ServicesBounds, Util!ServicesInv, [Util!ServicesNext]_(Util!serviceVars)
             PROVE  Util!ServicesInv'
  OBVIOUS
<1>0. Chars = Seq(Util!Letters)
  BY DEF Chars
<1>1. ASSUME UNCHANGED <<v2, v3, v4>>
      PROVE  Util!ServicesInv'
  BY <1>1 DEF Util!ServicesInv
<1>2. ASSUME NEW text \in LineTexts, Util!OpenSource(text)
      PROVE  Util!ServicesInv'
  <2>1. text \in Chars /\ v3 \in Seq(Chars)
    BY <1>0 DEF Util!ServicesBounds, Util!ServicesInv
  <2>2. v2' = [text |-> text, cursor |-> 1] /\ v3' = Append(v3, text) /\ v4' = <<>>
    BY <1>2 DEF Util!OpenSource
  <2>3. v3' \in Seq(Chars) /\ v3' # <<>> /\ v3'[Len(v3')] = text
    BY <2>1, <2>2
  <2>4. v4' \in Seq(Chars) /\ Util!Joined(v4') = <<>>
    <3>1. v4' \in Seq(Chars) /\ Len(v4') = 0
      BY <2>2
    <3> QED
      BY <3>1, JoinWalks DEF Util!Joined
  <2>5. Util!PlainTo(text)[0] = <<>> /\ 1 \in 1..Len(text) + 1
    BY <2>1, PlainWalks, CharsMade
  <2> QED
    BY <1>0, <2>2, <2>3, <2>4, <2>5 DEF Util!ServicesInv
<1>3. ASSUME Util!GetLine
      PROVE  Util!ServicesInv'
  <2> DEFINE text == v3[Len(v3)]
             c == v2.cursor
             got == Util!NextLine(v2)
  <2>1. /\ v3 \in Seq(Chars) /\ v4 \in Seq(Chars) /\ v3 # <<>> /\ text \in Chars
        /\ v2 = [text |-> text, cursor |-> c]
    BY <1>0, <1>3 DEF Util!ServicesInv, Util!GetLine
  <2>2. v2.text = text /\ v2.cursor = c
    BY <2>1
  <2>3. c \in 1..Len(text) /\ Util!Joined(v4) = Util!PlainTo(text)[c - 1]
    <3>1. c <= Len(text) /\ c \in 1..Len(text) + 1 /\ Len(text) \in Nat
      BY <1>3, <2>1, <2>2, CharsMade DEF Util!ServicesInv, Util!GetLine
    <3>2. c \in 1..Len(text) /\ c # Len(text) + 1
      BY <3>1
    <3> QED
      BY <1>3, <2>1, <3>2 DEF Util!ServicesInv
  <2>4. v3' = v3 /\ v4' = Append(v4, got.line) /\ v2' = [text |-> text, cursor |-> got.cursor]
    <3>1. v2' = [v2 EXCEPT !.cursor = got.cursor]
      BY <1>3 DEF Util!GetLine
    <3> HIDE DEF got, text, c
    <3>2. v2' = [text |-> text, cursor |-> got.cursor]
      BY <2>1, <3>1
    <3> QED
      BY <1>3, <3>2 DEF Util!GetLine, got
  <2> HIDE DEF text, c, got
  <2>4a. /\ got.line \in Chars
         /\ \E e \in v2.cursor..Len(v2.text) + 1 :
              /\ Util!PlainTo(v2.text)[e - 1] = Util!PlainTo(v2.text)[v2.cursor - 1] \o got.line
              /\ \/ e = Len(v2.text) + 1 /\ got.cursor = e /\ v2.text[Len(v2.text)] # "nl"
                 \/ e <= Len(v2.text) /\ got.cursor = e + 1 /\ v2.text[e] = "nl"
    <3>1. v2.text \in Chars /\ v2.cursor \in 1..Len(v2.text)
      BY <2>1, <2>2, <2>3
    <3> QED
      BY <3>1, LineRead DEF got
  <2>5. got.line \in Chars
    BY <2>4a
  <2>6. PICK e \in c..Len(text) + 1 :
          /\ Util!PlainTo(text)[e - 1] = Util!PlainTo(text)[c - 1] \o got.line
          /\ \/ e = Len(text) + 1 /\ got.cursor = e /\ text[Len(text)] # "nl"
             \/ e <= Len(text) /\ got.cursor = e + 1 /\ text[e] = "nl"
    BY <2>2, <2>4a
  <2>7. v4' \in Seq(Chars) /\ Util!Joined(v4') = Util!PlainTo(text)[e - 1] \o <<"nl">>
    <3>1. v4' \in Seq(Chars)
      BY <2>1, <2>4, <2>5
    <3>2. Util!Joined(v4') = Util!Joined(v4) \o got.line \o <<"nl">>
      BY <2>1, <2>4, <2>5, JoinedMore
    <3> QED
      BY <2>3, <2>6, <3>1, <3>2
  <2>8. PICK N \in Nat : N = Len(text) /\ (\A k \in 1..N : text[k] \in Util!Letters) /\ c \in 1..N /\ e \in c..N + 1
    BY <2>1, <2>3, CharsMade
  <2>9. /\ got.cursor \in 1..Len(text) + 1
        /\ IF got.cursor = 1 \/ text[got.cursor - 1] = "nl"
           THEN Util!Joined(v4') = Util!PlainTo(text)[got.cursor - 1]
           ELSE got.cursor = Len(text) + 1 /\ Util!Joined(v4') = Util!Plain(text) \o <<"nl">>
    <3>1. CASE e = Len(text) + 1 /\ got.cursor = e /\ text[Len(text)] # "nl"
      <4>1. got.cursor # 1 /\ got.cursor - 1 = Len(text) /\ got.cursor \in 1..Len(text) + 1 /\ e - 1 = Len(text)
        BY <2>8, <3>1
      <4> QED
        BY <2>7, <3>1, <4>1 DEF Util!Plain
    <3>2. CASE e <= Len(text) /\ got.cursor = e + 1 /\ text[e] = "nl"
      <4>1. got.cursor \in 1..Len(text) + 1 /\ got.cursor - 1 = e /\ e \in 1..Len(text) /\ e - 1 \in 0..Len(text)
        BY <2>8, <3>2
      <4>2. ~Util!Dropped(text, e)
        BY <3>2 DEF Util!Dropped
      <4>3. Util!PlainTo(text)[e] = Append(Util!PlainTo(text)[e - 1], "nl")
        BY <2>1, <3>2, <4>1, <4>2, PlainWalks
      <4>4. Util!PlainTo(text)[e - 1] \in Chars
        BY <2>1, <4>1, PlainWalks
      <4>5. \A w \in Chars : Append(w, "nl") = w \o <<"nl">>
        <5>1. "nl" \in Util!Letters
          BY DEF Util!Letters
        <5> QED
          BY <5>1 DEF Chars
      <4> QED
        BY <2>7, <3>2, <4>1, <4>3, <4>4, <4>5
    <3> QED
      BY <2>6, <3>1, <3>2
  <2>10. v2'.cursor = got.cursor /\ v3'[Len(v3')] = text
    BY <2>4 DEF text
  <2> QED
    BY <1>0, <2>1, <2>4, <2>7, <2>9, <2>10 DEF Util!ServicesInv
<1>4. ASSUME NEW v \in {1},
             \/ \E index \in {Util!All} \cup 0..2, item \in {"x", "y"} : Util!InsertItem(v, index, item)
             \/ \E index \in 0..2 : Util!RemoveItem(v, index)
             \/ Util!ClearVector(v)
      PROVE  UNCHANGED <<v2, v3, v4>>
  BY <1>4 DEF Util!InsertItem, Util!RemoveItem, Util!ClearVector, Util!KeepLines
<1>5. CASE UNCHANGED Util!serviceVars
  BY <1>1, <1>5 DEF Util!serviceVars
<1> QED
  BY <1>1, <1>2, <1>3, <1>4, <1>5 DEF Util!ServicesNext

(* What it says of a file read to its end. *)
LEMMA ServicesInvSays == Util!ServicesInv => Util!LinesRestoreTheFile
<1> SUFFICES ASSUME Util!ServicesInv, v3 # <<>>, v2.cursor > Len(v2.text)
             PROVE  Util!Joined(v4) \in {Util!Plain(v3[Len(v3)]), Util!Plain(v3[Len(v3)]) \o <<"nl">>}
  BY DEF Util!LinesRestoreTheFile
<1> DEFINE text == v3[Len(v3)]
<1>1. v2 = [text |-> text, cursor |-> v2.cursor] /\ v2.cursor \in 1..Len(text) + 1
  BY DEF Util!ServicesInv
<1>2. v3 \in Seq(Chars) /\ text \in Chars
  BY DEF Util!ServicesInv, Chars
<1>3. v2.text = text /\ Len(text) \in Nat
  <2>1. v2.text = text
    BY <1>1
  <2> QED
    BY <1>2, <2>1, CharsMade
<1>4. v2.cursor = Len(text) + 1 /\ v2.cursor - 1 = Len(text)
  BY <1>1, <1>3
<1> QED
  BY <1>4 DEF Util!ServicesInv, Util!Plain

-----------------------------------------------------------------------------
(* The widgets.  Installing a handler exchanges what a slot and a block hold, so
   every handler stays in one place, and the walk over the blocks (Met) cannot come
   back: the handler it came back to would be in two. *)
Ui == INSTANCE Widgets WITH
    MaxWidgets <- MaxMade, Handlers <- TitleHandlers, Items <- WidgetItems,
    ObjectItems <- HoldingItems, Edge <- ScreenEdge, Positions <- Positions,
    MaxCalls <- MaxWidgetCalls,
    widgets <- v1, next <- v2, handler <- v3, draws <- v4, block <- v5,
    registered <- v6, title <- v7, calls <- v8

HandlersOrNone == TitleHandlers \cup {Ui!None}

LEMMA HeldIs ==
    /\ \A w \in Ui!Addresses : /\ <<"event", w>> \in Ui!Places /\ <<"draw", w>> \in Ui!Places
                               /\ Ui!HeldAt(<<"event", w>>) = v3[w]
                               /\ Ui!HeldAt(<<"draw", w>>) = v4[w]
    /\ \A h \in TitleHandlers : /\ <<"block", h>> \in Ui!Places
                                /\ Ui!HeldAt(<<"block", h>>) = v5[h]
    /\ \A p \in Ui!Places : \/ \E w \in Ui!Addresses : p = <<"event", w>> \/ p = <<"draw", w>>
                            \/ \E h \in TitleHandlers : p = <<"block", h>>
  BY DEF Ui!Places, Ui!HeldAt, Ui!Slots

(* Met walks the blocks. *)
LEMMA MetIs ==
    ASSUME v5 \in [TitleHandlers -> HandlersOrNone], NEW first \in HandlersOrNone,
           NEW n \in Nat, n = Ui!Cardinality(TitleHandlers)
    PROVE  /\ \A k \in 0..n : Ui!Met(first)[k] \in HandlersOrNone
           /\ Ui!Met(first)[0] = first
           /\ \A k \in 1..n : Ui!Met(first)[k] = Ui!Before(Ui!Met(first)[k - 1])
<1> DEFINE f == [h \in HandlersOrNone |-> [e \in {0} |-> Ui!Before(h)]]
           s == [k \in 1..n |-> 0]
<1>1. Stepping(f, HandlersOrNone, {0})
  <2>1. \A h \in HandlersOrNone : Ui!Before(h) \in HandlersOrNone
    BY DEF Ui!Before, HandlersOrNone
  <2> QED
    BY <2>1 DEF Stepping
<1>2. s \in Seq({0}) /\ Len(s) = n /\ \A k \in 1..n : s[k] = 0
  <2>1. s \in [1..n -> {0}]
    OBVIOUS
  <2> HIDE DEF s
  <2>2. s \in Seq({0}) /\ Len(s) = n
    BY <2>1
  <2> QED
    BY <2>1, <2>2
<1>3. PICK r \in [0..n -> HandlersOrNone] :
          r[0] = first /\ \A k \in 1..n : r[k] = f[r[k - 1]][s[k]]
  <2>1. \E r \in [0..Len(s) -> HandlersOrNone] :
            r[0] = first /\ \A k \in 1..Len(s) : r[k] = f[r[k - 1]][s[k]]
    <3>1. PICK S, E : S = HandlersOrNone /\ E = {0}
      OBVIOUS
    <3> HIDE DEF f, s
    <3> QED
      BY <3>1, <1>1, <1>2, FoldExists
  <2> HIDE DEF f, s
  <2> QED
    BY <2>1, <1>2
<1>4. \A k \in 1..n : r[k] = Ui!Before(r[k - 1])
  <2> SUFFICES ASSUME NEW k \in 1..n
               PROVE  r[k] = Ui!Before(r[k - 1])
    OBVIOUS
  <2>1. k - 1 \in 0..n /\ s[k] = 0
    BY <1>2
  <2> QED
    BY <1>3, <2>1
<1>5. r = [k \in 0..n |-> IF k = 0 THEN first ELSE Ui!Before(r[k - 1])]
  BY <1>3, <1>4
<1> DEFINE q == Ui!Met(first)
<1>6. q = [k \in 0..n |-> IF k = 0 THEN first ELSE Ui!Before(q[k - 1])]
  BY <1>5 DEF Ui!Met
<1> HIDE DEF q, f, s
<1>7. \A k \in 0..n : q[k] = r[k]
  <2>1. q[0] = r[0]
    BY <1>3, <1>6
  <2>2. \A k \in 1..n : q[k - 1] = r[k - 1] => q[k] = r[k]
    BY <1>4, <1>6
  <2> DEFINE T == {k \in 0..n : q[k] = r[k]}
  <2>3. 0 \in T /\ \A k \in 1..n : k - 1 \in T => k \in T
    BY <2>1, <2>2
  <2>4. \A k \in 0..n : k \in T
    <3> HIDE DEF T
    <3> QED
      BY <2>3, AllUpTo
  <2> QED
    BY <2>4
<1>8. \A k \in 1..n : k - 1 \in 0..n /\ k \in 0..n
  OBVIOUS
<1>9. \A k \in 1..n : q[k] = Ui!Before(q[k - 1])
  BY <1>4, <1>7, <1>8
<1> QED
  BY <1>3, <1>7, <1>9 DEF q

LEMMA NeverBackKept ==
    ASSUME Ui!WidgetBounds, Ui!HandlersKept, NEW p \in Ui!Places, p[1] # "block",
           NEW first \in HandlersOrNone, Ui!HeldAt(p) = first
    PROVE  Ui!NeverBack(first)
<1>1. PICK n \in Nat : n = Ui!Cardinality(TitleHandlers)
  BY DEF Ui!WidgetBounds
<1>2. PICK m : m = Ui!Met(first)
  OBVIOUS
<1>3. /\ \A k \in 0..n : m[k] \in HandlersOrNone
      /\ m[0] = first
      /\ \A k \in 1..n : m[k] = Ui!Before(m[k - 1])
  BY <1>1, <1>2, MetIs DEF Ui!HandlersKept, HandlersOrNone
<1> SUFFICES ASSUME NEW a \in 0..n, NEW b \in 0..n, a < b, m[a] = m[b],
                    \A k \in 0..b : m[k] \notin v7.filled, m[a] # Ui!None
             PROVE  FALSE
  BY <1>1, <1>2 DEF Ui!NeverBack
<1> DEFINE T == {x \in 0..n : \E y \in 0..n : x < y /\ y <= b /\ m[x] = m[y] /\ m[x] # Ui!None}
<1>4. a \in T
  OBVIOUS
<1>5. PICK x \in T : \A k \in T : x <= k
  <2>1. T \in SUBSET Nat
    OBVIOUS
  <2> HIDE DEF T
  <2> QED
    BY <1>4, <2>1, SmallestOf
<1>6. PICK y \in 0..n : x < y /\ y <= b /\ m[x] = m[y] /\ m[x] # Ui!None
  BY <1>5
<1>7. x \in 0..n /\ x \in 0..b /\ y \in 1..n /\ y - 1 \in 0..n
  BY <1>5, <1>6
<1>8. PICK h \in TitleHandlers \ v7.filled : h = m[x]
  BY <1>3, <1>6, <1>7 DEF HandlersOrNone
<1>9. ASSUME NEW k \in 1..n, m[k] = h
      PROVE  /\ k - 1 \in 0..n /\ m[k - 1] \in TitleHandlers /\ m[k - 1] # Ui!None
             /\ <<"block", m[k - 1]>> \in Ui!Places
             /\ Ui!HeldAt(<<"block", m[k - 1]>>) = h
  <2>1. k - 1 \in 0..n
    OBVIOUS
  <2>2. h # Ui!None
    BY <1>6, <1>8
  <2>3. m[k - 1] # Ui!None
    BY <1>3, <1>9, <2>2 DEF Ui!Before
  <2>4. m[k - 1] \in TitleHandlers
    BY <1>3, <2>1, <2>3 DEF HandlersOrNone
  <2>5. v5[m[k - 1]] = h
    BY <1>3, <1>9, <2>3 DEF Ui!Before
  <2> QED
    BY <2>1, <2>3, <2>4, <2>5, HeldIs
<1>10. \A u, v \in Ui!Places : Ui!HeldAt(u) = h /\ Ui!HeldAt(v) = h => u = v
  BY <1>8 DEF Ui!HandlersKept, Ui!HeldOnce
<1>11. /\ <<"block", m[y - 1]>> \in Ui!Places
       /\ Ui!HeldAt(<<"block", m[y - 1]>>) = h
  BY <1>6, <1>7, <1>8, <1>9
<1>12. CASE x = 0
  <2>1. p = <<"block", m[y - 1]>>
    BY <1>3, <1>8, <1>10, <1>11, <1>12
  <2> QED
    BY <2>1
<1>13. CASE x # 0
  <2>1. x \in 1..n /\ x - 1 \in 0..n /\ x - 1 < y - 1 /\ y - 1 <= b /\ ~(x <= x - 1)
    BY <1>6, <1>7, <1>13
  <2>2. <<"block", m[x - 1]>> = <<"block", m[y - 1]>>
    BY <2>1, <1>8, <1>9, <1>10, <1>11
  <2>3. m[x - 1] = m[y - 1] /\ m[x - 1] # Ui!None
    BY <2>1, <2>2, <1>8, <1>9
  <2>4. x - 1 \in T
    BY <2>1, <2>3, <1>7
  <2> HIDE DEF T
  <2> QED
    BY <2>1, <2>4, <1>5
<1> QED
  BY <1>12, <1>13

LEMMA HandlersChainedKept ==
    ASSUME Ui!WidgetBounds, Ui!HandlersKept
    PROVE  Ui!HandlersChained
<1>1. ASSUME NEW w \in Ui!Addresses
      PROVE  Ui!NeverBack(v3[w]) /\ Ui!NeverBack(v4[w])
  <2>1. v3[w] \in HandlersOrNone /\ v4[w] \in HandlersOrNone
    BY DEF Ui!HandlersKept, HandlersOrNone
  <2>2. /\ <<"event", w>> \in Ui!Places /\ Ui!HeldAt(<<"event", w>>) = v3[w]
        /\ <<"draw", w>> \in Ui!Places /\ Ui!HeldAt(<<"draw", w>>) = v4[w]
    BY HeldIs
  <2>3. <<"event", w>>[1] # "block" /\ <<"draw", w>>[1] # "block"
    OBVIOUS
  <2> QED
    BY <2>1, <2>2, <2>3, NeverBackKept
<1> QED
  BY <1>1 DEF Ui!HandlersKept, Ui!HandlersChained

(* When two places exchange what they hold, what was in one place still is. *)
LEMMA SwapOnce ==
    ASSUME NEW P, NEW f, NEW g, NEW a \in P, NEW b \in P,
           \A p \in P : g[p] = IF p = a THEN f[b] ELSE IF p = b THEN f[a] ELSE f[p],
           NEW h, \E p \in P : \A q \in P : f[q] = h <=> q = p
    PROVE  \E p \in P : \A q \in P : g[q] = h <=> q = p
<1>1. PICK p \in P : \A q \in P : f[q] = h <=> q = p
  OBVIOUS
<1>2. CASE p = a
  <2>1. \A q \in P : g[q] = h <=> q = b
    BY <1>1, <1>2
  <2> QED
    BY <2>1
<1>3. CASE p = b
  <2>1. \A q \in P : g[q] = h <=> q = a
    BY <1>1, <1>3
  <2> QED
    BY <2>1
<1>4. CASE p # a /\ p # b
  <2>1. \A q \in P : g[q] = h <=> q = p
    BY <1>1, <1>4
  <2> QED
    BY <2>1
<1> QED
  BY <1>2, <1>3, <1>4

LEMMA AppendSet ==
    ASSUME NEW S, NEW s \in Seq(S), NEW e \in S
    PROVE  Ui!Elems(Append(s, e)) = Ui!Elems(s) \cup {e}
<1>1. PICK n \in Nat : n = Len(s)
  OBVIOUS
<1>2. /\ DOMAIN Append(s, e) = 1..n + 1 /\ DOMAIN s = 1..n
      /\ Append(s, e)[n + 1] = e /\ \A k \in 1..n : Append(s, e)[k] = s[k]
  BY <1>1
<1>3. \A k \in 1..n + 1 : k \in 1..n \/ k = n + 1
  OBVIOUS
<1>4. n + 1 \in 1..n + 1 /\ \A k \in 1..n : k \in 1..n + 1
  OBVIOUS
<1> QED
  BY <1>2, <1>3, <1>4 DEF Ui!Elems

LEMMA HandlersKeptInit ==
    ASSUME Ui!WidgetBounds, Ui!WidgetsInit
    PROVE  Ui!HandlersKept
<1>1. /\ v5 \in [TitleHandlers -> TitleHandlers \cup {Ui!None}]
      /\ v3 \in [Ui!Addresses -> TitleHandlers \cup {Ui!None}]
      /\ v4 \in [Ui!Addresses -> TitleHandlers \cup {Ui!None}]
      /\ \A w \in Ui!Addresses : v3[w] = Ui!None /\ v4[w] = Ui!None
      /\ \A h \in TitleHandlers : v5[h] = h
  BY DEF Ui!WidgetsInit
<1>2. v6 \in Seq([object : Ui!Addresses, handler : TitleHandlers \cup {Ui!None}])
  BY DEF Ui!WidgetsInit
<1>3. Ui!HeldOnce
  <2> SUFFICES ASSUME NEW h \in TitleHandlers
               PROVE  \E p \in Ui!Places : \A q \in Ui!Places : Ui!HeldAt(q) = h <=> q = p
    BY DEF Ui!HeldOnce
  <2>1. h # Ui!None
    BY DEF Ui!WidgetBounds
  <2>2. ASSUME NEW q \in Ui!Places
        PROVE  Ui!HeldAt(q) = h <=> q = <<"block", h>>
    <3>1. CASE \E w \in Ui!Addresses : q = <<"event", w>> \/ q = <<"draw", w>>
      <4>1. Ui!HeldAt(q) = Ui!None
        BY <3>1, <1>1, HeldIs
      <4>2. q # <<"block", h>>
        BY <3>1
      <4> QED
        BY <4>1, <4>2, <2>1
    <3>2. CASE \E g \in TitleHandlers : q = <<"block", g>>
      <4>1. PICK g \in TitleHandlers : q = <<"block", g>>
        BY <3>2
      <4>2. Ui!HeldAt(q) = g
        BY <4>1, <1>1, HeldIs
      <4> QED
        BY <4>1, <4>2
    <3> QED
      BY <3>1, <3>2, HeldIs
  <2> QED
    BY <2>2, HeldIs
<1>4. Ui!KeysFind
  BY <1>1 DEF Ui!KeysFind
<1> QED
  BY <1>1, <1>2, <1>3, <1>4 DEF Ui!HandlersKept

LEMMA HandlersKeptSame ==
    ASSUME Ui!HandlersKept, Ui!KeepHandlers, v7'.filled = v7.filled
    PROVE  Ui!HandlersKept'
<1>1. v3' = v3 /\ v4' = v4 /\ v5' = v5 /\ v6' = v6
  BY DEF Ui!KeepHandlers
<1>2. Ui!HeldOnce' <=> Ui!HeldOnce
  BY <1>1 DEF Ui!HeldOnce, Ui!HeldAt
<1>3. Ui!KeysFind' <=> Ui!KeysFind
  BY <1>1 DEF Ui!KeysFind
<1> QED
  BY <1>1, <1>2, <1>3 DEF Ui!HandlersKept

LEMMA HandlersKeptSet ==
    ASSUME Ui!WidgetBounds, Ui!HandlersKept, NEW slot \in Ui!Slots, NEW w \in Ui!Addresses,
           NEW h \in TitleHandlers, Ui!SetHandler(slot, w, h)
    PROVE  Ui!HandlersKept'
<1>1. /\ v5 \in [TitleHandlers -> HandlersOrNone]
      /\ v3 \in [Ui!Addresses -> HandlersOrNone] /\ v4 \in [Ui!Addresses -> HandlersOrNone]
      /\ v6 \in Seq([object : Ui!Addresses, handler : HandlersOrNone])
      /\ Ui!HeldOnce /\ Ui!KeysFind
  BY DEF Ui!HandlersKept, HandlersOrNone
<1>2. slot = "event" \/ slot = "draw"
  BY DEF Ui!Slots
<1>3. PICK before : before = Ui!HeldAt(<<slot, w>>)
  OBVIOUS
<1>4. /\ before \in HandlersOrNone /\ v5' = [v5 EXCEPT ![h] = before]
      /\ slot = "event" => v3' = [v3 EXCEPT ![w] = v5[h]] /\ v4' = v4
      /\ slot = "draw" => v4' = [v4 EXCEPT ![w] = v5[h]] /\ v3' = v3
  BY <1>1, <1>2, <1>3, HeldIs DEF Ui!SetHandler, Ui!WrittenBack
<1>5. /\ v5' \in [TitleHandlers -> HandlersOrNone]
      /\ v3' \in [Ui!Addresses -> HandlersOrNone] /\ v4' \in [Ui!Addresses -> HandlersOrNone]
  BY <1>1, <1>2, <1>4
<1>6. PICK a \in Ui!Places : a = <<slot, w>>
  BY <1>2, HeldIs
<1>7. PICK b \in Ui!Places : b = <<"block", h>>
  BY HeldIs
<1> DEFINE f == [p \in Ui!Places |-> Ui!HeldAt(p)]
           g == [p \in Ui!Places |-> Ui!HeldAt(p)']
<1>8. f[a] = before /\ f[b] = v5[h]
  BY <1>3, <1>6, <1>7, HeldIs
<1>9. ASSUME NEW p \in Ui!Places
      PROVE  g[p] = IF p = a THEN f[b] ELSE IF p = b THEN f[a] ELSE f[p]
  <2>1. g[p] = Ui!HeldAt(p)' /\ f[p] = Ui!HeldAt(p)
    OBVIOUS
  <2> HIDE DEF f, g
  <2>2. ASSUME NEW u \in Ui!Addresses, p = <<"event", u>>
        PROVE  g[p] = IF p = a THEN f[b] ELSE IF p = b THEN f[a] ELSE f[p]
    <3>1. g[p] = v3'[u] /\ f[p] = v3[u]
      BY <2>1, <2>2 DEF Ui!HeldAt
    <3>2. p # b
      BY <2>2, <1>7
    <3>3. CASE p = a
      <4>1. <<slot, w>> = <<"event", u>>
        BY <3>3, <2>2, <1>6
      <4>2. slot = "event" /\ u = w
        BY <4>1, ZenonT(20)
      <4> QED
        BY <4>2, <3>1, <3>3, <1>1, <1>4, <1>8
    <3>4. CASE p # a
      <4>1. ~(slot = "event" /\ u = w)
        BY <3>4, <2>2, <1>6
      <4>2. v3'[u] = v3[u]
        BY <4>1, <1>1, <1>2, <1>4
      <4> QED
        BY <4>2, <3>1, <3>2, <3>4
    <3> QED
      BY <3>3, <3>4
  <2>3. ASSUME NEW u \in Ui!Addresses, p = <<"draw", u>>
        PROVE  g[p] = IF p = a THEN f[b] ELSE IF p = b THEN f[a] ELSE f[p]
    <3>1. g[p] = v4'[u] /\ f[p] = v4[u]
      BY <2>1, <2>3 DEF Ui!HeldAt
    <3>2. p # b
      BY <2>3, <1>7
    <3>3. CASE p = a
      <4>1. <<slot, w>> = <<"draw", u>>
        BY <3>3, <2>3, <1>6
      <4>2. slot = "draw" /\ u = w
        BY <4>1, ZenonT(20)
      <4> QED
        BY <4>2, <3>1, <3>3, <1>1, <1>4, <1>8
    <3>4. CASE p # a
      <4>1. ~(slot = "draw" /\ u = w)
        BY <3>4, <2>3, <1>6
      <4>2. v4'[u] = v4[u]
        BY <4>1, <1>1, <1>2, <1>4
      <4> QED
        BY <4>2, <3>1, <3>2, <3>4
    <3> QED
      BY <3>3, <3>4
  <2>4. ASSUME NEW k \in TitleHandlers, p = <<"block", k>>
        PROVE  g[p] = IF p = a THEN f[b] ELSE IF p = b THEN f[a] ELSE f[p]
    <3>1. g[p] = v5'[k] /\ f[p] = v5[k]
      BY <2>1, <2>4 DEF Ui!HeldAt
    <3>2. p # a
      BY <2>4, <1>2, <1>6
    <3>3. CASE p = b
      <4>1. <<"block", k>> = <<"block", h>>
        BY <3>3, <2>4, <1>7
      <4>2. k = h
        BY <4>1, ZenonT(20)
      <4> QED
        BY <4>2, <3>1, <3>2, <3>3, <1>1, <1>4, <1>8
    <3>4. CASE p # b
      <4>1. k # h
        BY <3>4, <2>4, <1>7
      <4>2. v5'[k] = v5[k]
        BY <4>1, <1>1, <1>4
      <4> QED
        BY <4>2, <3>1, <3>2, <3>4
    <3> QED
      BY <3>3, <3>4
  <2> QED
    BY <2>2, <2>3, <2>4, HeldIs
<1>10. Ui!HeldOnce'
  <2> SUFFICES ASSUME NEW x \in TitleHandlers, x \notin v7'.filled
               PROVE  \E p \in Ui!Places : \A q \in Ui!Places : Ui!HeldAt(q)' = x <=> q = p
    BY DEF Ui!HeldOnce, Ui!Places
  <2>1. x \notin v7.filled
    BY DEF Ui!SetHandler
  <2>2. \A q \in Ui!Places : f[q] = Ui!HeldAt(q) /\ g[q] = Ui!HeldAt(q)'
    OBVIOUS
  <2> HIDE DEF f, g
  <2>3. \E p \in Ui!Places : \A q \in Ui!Places : f[q] = x <=> q = p
    BY <1>1, <2>1, <2>2 DEF Ui!HeldOnce
  <2>4. PICK P : P = Ui!Places
    OBVIOUS
  <2>5. \E p \in P : \A q \in P : g[q] = x <=> q = p
    BY <1>9, <2>3, <2>4, SwapOnce
  <2> QED
    BY <2>2, <2>4, <2>5
<1>11. Ui!KeysFind' /\ v6' \in Seq([object : Ui!Addresses, handler : HandlersOrNone])
  <2>1. CASE slot = "event"
    <3>1. PICK e \in [object : Ui!Addresses, handler : HandlersOrNone] : e = [object |-> w, handler |-> v5[h]]
      BY <1>1
    <3>2. v6' = Append(v6, e)
      BY <2>1, <3>1 DEF Ui!SetHandler
    <3>3. Ui!Elems(v6') = Ui!Elems(v6) \cup {e}
      <4>1. PICK S : S = [object : Ui!Addresses, handler : HandlersOrNone]
        OBVIOUS
      <4>2. v6 \in Seq(S) /\ e \in S
        BY <1>1, <4>1
      <4> QED
        BY <3>2, <4>2, AppendSet
    <3>4. v6' \in Seq([object : Ui!Addresses, handler : HandlersOrNone])
      BY <1>1, <3>2
    <3>5. ASSUME NEW u \in Ui!Addresses, v3'[u] # Ui!None
          PROVE  [object |-> u, handler |-> v3'[u]] \in Ui!Elems(v6')
      <4>1. CASE u = w
        BY <4>1, <2>1, <1>1, <1>4, <3>1, <3>3
      <4>2. CASE u # w
        <5>1. v3'[u] = v3[u]
          BY <4>2, <2>1, <1>1, <1>4
        <5> QED
          BY <5>1, <1>1, <3>3, <3>5 DEF Ui!KeysFind
      <4> QED
        BY <4>1, <4>2
    <3> QED
      BY <3>4, <3>5 DEF Ui!KeysFind
  <2>2. CASE slot = "draw"
    <3>1. v6' = v6 /\ v3' = v3
      BY <2>2 DEF Ui!SetHandler
    <3> QED
      BY <3>1, <1>1 DEF Ui!KeysFind
  <2> QED
    BY <2>1, <2>2, <1>2
<1> QED
  BY <1>5, <1>10, <1>11 DEF Ui!HandlersKept, HandlersOrNone

LEMMA HandlersKeptFill ==
    ASSUME Ui!HandlersKept, NEW h \in TitleHandlers, Ui!FillBlock(h),
           v7 \in [filled : SUBSET HandlersOrNone, stored : SUBSET Int, created : SUBSET Ui!Addresses]
    PROVE  Ui!HandlersKept'
<1>1. /\ v5' = [v5 EXCEPT ![h] = h] /\ v3' = v3 /\ v4' = v4 /\ v6' = v6
      /\ v7'.filled = v7.filled \cup {h, v5[h]}
  BY DEF Ui!FillBlock
<1>2. v5 \in [TitleHandlers -> TitleHandlers \cup {Ui!None}] /\ Ui!HeldOnce
  BY DEF Ui!HandlersKept
<1>3. Ui!HeldOnce'
  <2> SUFFICES ASSUME NEW x \in TitleHandlers, x \notin v7'.filled
               PROVE  \E p \in Ui!Places : \A q \in Ui!Places : Ui!HeldAt(q)' = x <=> q = p
    BY DEF Ui!HeldOnce, Ui!Places
  <2>1. x \notin v7.filled /\ x # h /\ x # v5[h]
    BY <1>1
  <2>2. PICK p \in Ui!Places : \A q \in Ui!Places : Ui!HeldAt(q) = x <=> q = p
    BY <1>2, <2>1 DEF Ui!HeldOnce
  <2>3. ASSUME NEW q \in Ui!Places
        PROVE  Ui!HeldAt(q)' = x <=> Ui!HeldAt(q) = x
    <3>1. CASE \E w \in Ui!Addresses : q = <<"event", w>> \/ q = <<"draw", w>>
      BY <3>1, <1>1 DEF Ui!HeldAt
    <3>2. CASE \E k \in TitleHandlers : q = <<"block", k>>
      <4>1. PICK k \in TitleHandlers : q = <<"block", k>>
        BY <3>2
      <4>2. Ui!HeldAt(q)' = v5'[k] /\ Ui!HeldAt(q) = v5[k]
        BY <4>1 DEF Ui!HeldAt
      <4>3. v5'[k] = IF k = h THEN h ELSE v5[k]
        BY <1>1, <1>2
      <4> QED
        BY <4>2, <4>3, <2>1
    <3> QED
      BY <3>1, <3>2, HeldIs
  <2> QED
    BY <2>2, <2>3
<1>4. v5' \in [TitleHandlers -> TitleHandlers \cup {Ui!None}]
  BY <1>1, <1>2
<1> QED
  BY <1>1, <1>3, <1>4 DEF Ui!HandlersKept, Ui!KeysFind

(* ---- the widgets ---- *)
TitleRecords == [filled : SUBSET HandlersOrNone, stored : SUBSET Int, created : SUBSET Ui!Addresses]

\* of a step that leaves the children alone
LEMMA WidgetsKeptPlaces ==
    ASSUME Ui!WidgetBounds, Ui!WidgetsKept, Ui!Calling, NEW q \in Ui!AllOfWidgets, v1' = q,
           q.children = v1.children,
           \A w \in Ui!Addresses : q.refs[w] <= 2 + v8,
           \A w, c \in Ui!Addresses : q.place[w][c][1] + q.place[w][c][2] <= ScreenEdge,
           v2' \in v2 .. MaxMade + 1, v7' \in TitleRecords, v7'.stored = v7.stored,
           \A w \in v7'.created : w < v2' /\ (w \in v7.created \/ w = v2)
    PROVE  Ui!WidgetsKept'
<1>1. v8' \in 0..MaxWidgetCalls /\ v8' = v8 + 1 /\ v8 \in Nat
  BY DEF Ui!Calling, Ui!WidgetsKept, Ui!WidgetBounds
<1>2. \A w \in Ui!Addresses : q.refs[w] \in Nat
  BY DEF Ui!AllOfWidgets
<1>3. \A w \in Ui!Addresses : q.refs[w] <= 1 + v8'
  BY <1>1, <1>2
<1>4. v2' \in 1..MaxMade + 1 /\ v2' >= v2 /\ v2 \in Nat
  BY DEF Ui!WidgetsKept, Ui!WidgetBounds
<1>5. \A v \in Ui!Addresses, i \in WidgetItems : q.children[v][i] \in Int /\ q.children[v][i] < v2
  BY DEF Ui!WidgetsKept, Ui!AllOfWidgets
<1>6. \A v \in Ui!Addresses, i \in WidgetItems : q.children[v][i] < v2'
  BY <1>4, <1>5
<1>7. ASSUME NEW w \in Ui!Addresses, NEW v \in Ui!Addresses, NEW i \in WidgetItems, NEW j \in WidgetItems,
             q.children[w][i] \notin {Ui!Absent, Ui!None} \cup v7'.stored
      PROVE  /\ q.children[w][i] \notin v7'.created
             /\ q.children[w][i] = q.children[v][j] => w = v /\ i = j
  <2>1. /\ q.children[w][i] \notin v7.created
        /\ q.children[w][i] = q.children[v][j] => w = v /\ i = j
    BY <1>7 DEF Ui!WidgetsKept, Ui!ChildrenApart
  <2>2. q.children[w][i] # v2
    BY <1>4, <1>5
  <2> QED
    BY <2>1, <2>2
<1>8. Ui!ChildrenApart'
  BY <1>7 DEF Ui!ChildrenApart
<1> QED
  BY <1>1, <1>3, <1>4, <1>6, <1>8 DEF Ui!WidgetsKept, TitleRecords, HandlersOrNone

\* of a step that gives one item a new child, or one the title stores
LEMMA WidgetsKeptChild ==
    ASSUME Ui!WidgetBounds, Ui!WidgetsKept, Ui!Calling, NEW q \in Ui!AllOfWidgets, v1' = q,
           NEW w \in Ui!Addresses, NEW i \in WidgetItems, NEW n \in Int,
           q.children = [v1.children EXCEPT ![w][i] = n],
           \A v \in Ui!Addresses : q.refs[v] <= 2 + v8,
           q.place = v1.place,
           v2' \in v2 .. MaxMade + 1, n < v2', v7' \in TitleRecords,
           v7'.created = v7.created, v7.stored \subseteq v7'.stored, n = v2 \/ n \in v7'.stored
    PROVE  Ui!WidgetsKept'
<1>1. v8' \in 0..MaxWidgetCalls /\ v8' = v8 + 1 /\ v8 \in Nat
  BY DEF Ui!Calling, Ui!WidgetsKept, Ui!WidgetBounds
<1>2. \A v \in Ui!Addresses : q.refs[v] \in Nat
  BY DEF Ui!AllOfWidgets
<1>3. \A v \in Ui!Addresses : q.refs[v] <= 1 + v8'
  BY <1>1, <1>2
<1>4. v2' \in 1..MaxMade + 1 /\ v2' >= v2 /\ v2 \in Nat
  BY DEF Ui!WidgetsKept, Ui!WidgetBounds
<1>r. PICK r \in Ui!AllOfWidgets : r = v1
  BY DEF Ui!WidgetsKept
<1>5. \A v \in Ui!Addresses, j \in WidgetItems : r.children[v][j] \in Int /\ r.children[v][j] < v2
  BY <1>r DEF Ui!WidgetsKept, Ui!AllOfWidgets
<1>6. \A v \in Ui!Addresses, j \in WidgetItems :
          q.children[v][j] = IF v = w /\ j = i THEN n ELSE r.children[v][j]
  BY <1>r DEF Ui!AllOfWidgets
<1>7. \A v \in Ui!Addresses, j \in WidgetItems : q.children[v][j] < v2'
  BY <1>4, <1>5, <1>6
<1>8. \A x \in v7.created : x \in Nat /\ x < v2
  BY DEF Ui!WidgetsKept, Ui!Addresses, Ui!WidgetBounds
<1>9. ASSUME NEW u \in Ui!Addresses, NEW v \in Ui!Addresses, NEW k \in WidgetItems, NEW j \in WidgetItems,
             q.children[u][k] \notin {Ui!Absent, Ui!None} \cup v7'.stored
      PROVE  /\ q.children[u][k] \notin v7'.created
             /\ q.children[u][k] = q.children[v][j] => u = v /\ k = j
  <2>1. CASE u = w /\ k = i
    <3>1. q.children[u][k] = n /\ n = v2
      BY <1>6, <1>9, <2>1
    <3>2. ~(v = w /\ j = i) => q.children[v][j] # n
      BY <1>4, <1>5, <1>6, <3>1
    <3>3. n \notin v7.created
      BY <1>4, <1>8, <3>1
    <3> QED
      BY <3>1, <3>2, <3>3, <2>1
  <2>2. CASE ~(u = w /\ k = i)
    <3>1. q.children[u][k] = r.children[u][k]
      BY <1>6, <2>2
    <3>2. r.children[u][k] \notin {Ui!Absent, Ui!None} \cup v7.stored
      BY <3>1, <1>9
    <3>3. /\ r.children[u][k] \notin v7.created
          /\ r.children[u][k] = r.children[v][j] => u = v /\ k = j
      BY <3>2, <1>r DEF Ui!WidgetsKept, Ui!ChildrenApart
    <3>4. r.children[u][k] # v2
      BY <1>4, <1>5
    <3>5. CASE v = w /\ j = i
      <4>1. q.children[v][j] = n
        BY <3>5, <1>6
      <4>2. q.children[u][k] # n
        BY <3>1, <3>4, <1>9
      <4> QED
        BY <4>1, <4>2, <3>1, <3>3
    <3>6. CASE ~(v = w /\ j = i)
      <4>1. q.children[v][j] = r.children[v][j]
        BY <3>6, <1>6
      <4> QED
        BY <4>1, <3>1, <3>3
    <3> QED
      BY <3>5, <3>6
  <2> QED
    BY <2>1, <2>2
<1>10. \A v, c \in Ui!Addresses : q.place[v][c][1] + q.place[v][c][2] <= ScreenEdge
  BY DEF Ui!WidgetsKept, Ui!ChildrenApart
<1>11. Ui!ChildrenApart'
  BY <1>9, <1>10 DEF Ui!ChildrenApart
<1>12. \A x \in v7'.created : x < v2'
  BY <1>4, <1>8
<1> QED
  BY <1>1, <1>3, <1>4, <1>7, <1>11, <1>12 DEF Ui!WidgetsKept, TitleRecords, HandlersOrNone

LEMMA WidgetsKeptInit ==
    ASSUME Ui!WidgetBounds, Ui!WidgetsInit
    PROVE  Ui!WidgetsKept
<1>1. v2 = 1 /\ v8 = 0 /\ MaxMade \in Nat /\ MaxWidgetCalls \in Nat /\ ScreenEdge \in Nat
  BY DEF Ui!WidgetsInit, Ui!WidgetBounds
<1>2. v1 \in Ui!AllOfWidgets
  BY DEF Ui!WidgetsInit, Ui!AllOfWidgets, Ui!None, Ui!Absent
<1>3. /\ \A w \in Ui!Addresses : v1.refs[w] = 0 /\ \A c \in Ui!Addresses : v1.place[w][c] = <<0, 0>>
      /\ \A w \in Ui!Addresses, i \in WidgetItems : v1.children[w][i] = Ui!Absent
  BY DEF Ui!WidgetsInit
<1>4. Ui!ChildrenApart
  BY <1>1, <1>3 DEF Ui!ChildrenApart
<1>5. v7 = [filled |-> {}, stored |-> {}, created |-> {}]
  BY DEF Ui!WidgetsInit
<1>6. v7 \in [filled : SUBSET (TitleHandlers \cup {Ui!None}), stored : SUBSET Int,
              created : SUBSET Ui!Addresses]
  BY <1>5
<1>7. \A w \in v7.created : w < v2
  BY <1>5
<1> QED
  BY <1>1, <1>2, <1>3, <1>4, <1>6, <1>7 DEF Ui!WidgetsKept, Ui!Absent

LEMMA WidgetsKeptStep ==
    ASSUME Ui!WidgetBounds, Ui!WidgetsKept, Ui!HandlersKept, Ui!WidgetsNext
    PROVE  Ui!WidgetsKept'
<1> USE DEF Ui!None
<1>0. /\ v2 \in 1..MaxMade + 1 /\ MaxMade \in Nat /\ ScreenEdge \in Nat
      /\ v8 \in Nat /\ v1 \in Ui!AllOfWidgets /\ v7 \in TitleRecords
  BY DEF Ui!WidgetsKept, Ui!WidgetBounds, TitleRecords, HandlersOrNone
<1>a. PICK r \in Ui!AllOfWidgets : r = v1
  BY <1>0
<1>b. \A w \in Ui!Addresses : r.refs[w] \in Nat /\ r.refs[w] <= 1 + v8 /\ r.refs[w] <= 2 + v8
  BY <1>a, <1>0 DEF Ui!WidgetsKept, Ui!AllOfWidgets
<1>c. \A w \in Ui!Made : w \in Ui!Addresses
  BY <1>0 DEF Ui!Made, Ui!Addresses
<1>d. \A w, c \in Ui!Addresses : /\ r.place[w][c] \in Int \X Int
                             /\ r.place[w][c][1] + r.place[w][c][2] <= ScreenEdge
  BY <1>a DEF Ui!WidgetsKept, Ui!AllOfWidgets, Ui!ChildrenApart
<1>e. \A w \in v7.created : w \in Ui!Addresses /\ w < v2
  BY DEF Ui!WidgetsKept
<1>f. PICK q : q = v1'
  OBVIOUS
\* a step that changes nothing but the records, as far as the lemmas look at them
<1>g. ASSUME Ui!Calling, v2' = v2, v7' \in TitleRecords, v7'.stored = v7.stored, v7'.created = v7.created,
             q \in Ui!AllOfWidgets, q.children = r.children,
             \A w \in Ui!Addresses : q.refs[w] <= 2 + v8,
             \A w, c \in Ui!Addresses : q.place[w][c][1] + q.place[w][c][2] <= ScreenEdge
      PROVE  Ui!WidgetsKept'
  <2>1. v2' \in v2..MaxMade + 1
    BY <1>g, <1>0
  <2>2. \A w \in v7'.created : w < v2' /\ (w \in v7.created \/ w = v2)
    BY <1>g, <1>e
  <2> QED
    BY <1>g, <1>a, <1>f, <2>1, <2>2, WidgetsKeptPlaces
<1>1. CASE Ui!CreateWidget
  <2>1. /\ v2 \in Ui!Addresses /\ v2' \in v2 .. MaxMade + 1 /\ v2' = v2 + 1 /\ Ui!Calling
        /\ v7' = [v7 EXCEPT !.created = @ \cup {v2}]
        /\ q = [r EXCEPT !.refs[v2] = 1]
    BY <1>1, <1>0, <1>a, <1>f DEF Ui!CreateWidget, Ui!Addresses
  <2>2. /\ v7' \in TitleRecords /\ v7'.stored = v7.stored /\ v7'.created = v7.created \cup {v2}
    BY <2>1, <1>0 DEF TitleRecords
  <2>3. \A w \in v7'.created : w < v2' /\ (w \in v7.created \/ w = v2)
    <3>1. \A w \in v7.created : w \in Nat /\ w < v2
      BY <1>e DEF Ui!Addresses
    <3> QED
      BY <2>1, <2>2, <3>1, <1>0
  <2>4. /\ q \in Ui!AllOfWidgets /\ q.children = r.children /\ q.place = r.place
        /\ \A w \in Ui!Addresses : q.refs[w] = IF w = v2 THEN 1 ELSE r.refs[w]
    BY <2>1 DEF Ui!AllOfWidgets
  <2>5. \A w \in Ui!Addresses : q.refs[w] <= 2 + v8
    BY <2>4, <1>b, <1>0
  <2> QED
    BY <2>1, <2>2, <2>3, <2>4, <2>5, <1>a, <1>d, <1>f, WidgetsKeptPlaces
<1>2. ASSUME NEW w \in Ui!Made, Ui!AddRef(w) \/ Ui!Release(w) \/ Ui!QueryInterface(w)
      PROVE  Ui!WidgetsKept'
  <2>1. w \in Ui!Addresses /\ v2' = v2 /\ v7' = v7 /\ Ui!Calling
    BY <1>2, <1>c DEF Ui!AddRef, Ui!Release, Ui!QueryInterface
  <2>2. PICK n \in Nat : n = r.refs[w] /\ n <= 1 + v8
    BY <2>1, <1>b
  <2>3. PICK m \in Nat : m <= 2 + v8 /\ q = [r EXCEPT !.refs[w] = m]
    <3>1. CASE Ui!AddRef(w)
      <4>1. PICK m \in Nat : m = (IF n = 0 THEN 1 ELSE n) + 1 /\ m <= 2 + v8
        BY <2>2, <1>0
      <4> QED
        BY <3>1, <4>1, <2>2, <1>a, <1>f DEF Ui!AddRef
    <3>2. CASE Ui!Release(w)
      <4>1. PICK m \in Nat : m = (IF n > 1 THEN n - 1 ELSE n) /\ m <= 2 + v8
        BY <2>2, <1>0
      <4> QED
        BY <3>2, <4>1, <2>2, <1>a, <1>f DEF Ui!Release
    <3>3. CASE Ui!QueryInterface(w)
      <4>1. PICK m \in Nat : m = n + 1 /\ m <= 2 + v8
        BY <2>2, <1>0
      <4> QED
        BY <3>3, <4>1, <2>2, <1>a, <1>f DEF Ui!QueryInterface
    <3> QED
      BY <1>2, <3>1, <3>2, <3>3
  <2>4. /\ q \in Ui!AllOfWidgets /\ q.children = r.children /\ q.place = r.place
        /\ \A v \in Ui!Addresses : q.refs[v] = IF v = w THEN m ELSE r.refs[v]
    BY <2>1, <2>3 DEF Ui!AllOfWidgets
  <2>5. \A v \in Ui!Addresses : q.refs[v] <= 2 + v8
    BY <2>3, <2>4, <1>b
  <2> QED
    BY <2>1, <2>4, <2>5, <1>0, <1>d, <1>g
<1>3. ASSUME NEW w \in Ui!Made, NEW i \in WidgetItems, Ui!GetItem(w, i)
      PROVE  Ui!WidgetsKept'
  <2>1. w \in Ui!Addresses /\ Ui!Calling /\ v7' = v7
    BY <1>3, <1>c DEF Ui!GetItem
  <2>2. CASE UNCHANGED <<v1, v2>>
    BY <2>1, <2>2, <1>0, <1>a, <1>b, <1>d, <1>f, <1>g
  <2>3. CASE ~UNCHANGED <<v1, v2>>
    <3>1. /\ v2 <= MaxMade /\ v2' = v2 + 1
          /\ v1' = [v1 EXCEPT !.refs[v2] = 1, !.children[w][i] = v2]
      BY <1>3, <2>3 DEF Ui!GetItem
    <3>3. PICK n \in Nat : n = v2 /\ n \in Ui!Addresses
      BY <3>1, <1>0 DEF Ui!Addresses
    <3>5. q = [r EXCEPT !.refs[n] = 1, !.children[w][i] = n]
      BY <3>1, <3>3, <1>a, <1>f
    <3>6. /\ q \in Ui!AllOfWidgets /\ q.refs = [r.refs EXCEPT ![n] = 1]
          /\ q.children = [r.children EXCEPT ![w][i] = n] /\ q.place = r.place
      <4>1. PICK t : t = [r EXCEPT !.refs[n] = 1]
        OBVIOUS
      <4>2. /\ t \in Ui!AllOfWidgets /\ t.refs = [r.refs EXCEPT ![n] = 1]
            /\ t.children = r.children /\ t.place = r.place
        BY <4>1, <3>3 DEF Ui!AllOfWidgets
      <4>3. q = [t EXCEPT !.children[w][i] = n]
        BY <4>1, <3>5
      <4>4. PICK c : c = [t.children EXCEPT ![w][i] = n]
        OBVIOUS
      <4>5. c \in [Ui!Addresses -> [WidgetItems -> Int]]
        BY <4>2, <4>4, <2>1 DEF Ui!AllOfWidgets
      <4>6. q = [t EXCEPT !.children = c]
        BY <4>3, <4>4
      <4>7. /\ q \in Ui!AllOfWidgets /\ q.refs = t.refs /\ q.children = c /\ q.place = t.place
        BY <4>2, <4>5, <4>6 DEF Ui!AllOfWidgets
      <4> QED
        BY <4>2, <4>4, <4>7
    <3>7. \A v \in Ui!Addresses : q.refs[v] = IF v = n THEN 1 ELSE r.refs[v]
      BY <3>6 DEF Ui!AllOfWidgets
    <3>8. \A v \in Ui!Addresses : q.refs[v] <= 2 + v8
      BY <3>7, <1>b, <1>0
    <3>9. v2' \in v2..MaxMade + 1 /\ n < v2' /\ n \in Int
      BY <3>1, <3>3, <1>0
    <3>10. /\ v7' \in TitleRecords /\ v7'.created = v7.created /\ v7.stored \subseteq v7'.stored
           /\ n = v2 /\ q.children = [v1.children EXCEPT ![w][i] = n] /\ q.place = v1.place
           /\ q \in Ui!AllOfWidgets
      BY <2>1, <3>3, <3>6, <1>0, <1>a
    <3> HIDE DEF Ui!None
    <3> QED
      BY ONLY Ui!WidgetBounds, Ui!WidgetsKept, <2>1, <3>8, <3>9, <3>10, <1>f, WidgetsKeptChild
  <2> QED
    BY <2>2, <2>3
<1>4. ASSUME NEW w \in Ui!Made, NEW i \in WidgetItems, NEW value \in Ui!Made \cup {Ui!None},
             Ui!SetItem(w, i, value) \/ Ui!SetProperty(w, i, value)
      PROVE  Ui!WidgetsKept'
  <2>1. w \in Ui!Addresses /\ Ui!Calling /\ v2' = v2
    BY <1>4, <1>c DEF Ui!SetItem, Ui!SetProperty
  <2>2. value \in Int /\ value < v2
    BY <1>0 DEF Ui!Made
  <2>4. CASE q = [r EXCEPT !.props[w][i] = value] /\ v7' = v7
    <3>2. /\ q \in Ui!AllOfWidgets /\ q.refs = r.refs /\ q.children = r.children
          /\ q.place = r.place
      BY <2>4, <2>1, <2>2 DEF Ui!AllOfWidgets
    <3> QED
      BY <2>1, <2>4, <3>2, <1>0, <1>b, <1>d, <1>g
  <2>5. CASE /\ q = [r EXCEPT !.children[w][i] = value]
             /\ v7' = [v7 EXCEPT !.stored = @ \cup {value}]
    <3>2. /\ q \in Ui!AllOfWidgets /\ q.refs = r.refs
          /\ q.children = [r.children EXCEPT ![w][i] = value] /\ q.place = r.place
      BY <2>5, <2>1, <2>2 DEF Ui!AllOfWidgets
    <3>3. /\ v7' \in TitleRecords /\ v7'.created = v7.created /\ v7.stored \subseteq v7'.stored
          /\ value \in v7'.stored
      BY <2>5, <2>2, <1>0 DEF TitleRecords
    <3>4. v2' \in v2..MaxMade + 1 /\ value < v2'
      BY <2>1, <2>2, <1>0
    <3>5. \A v \in Ui!Addresses : q.refs[v] <= 2 + v8
      BY <3>2, <1>b
    <3>6. /\ q \in Ui!AllOfWidgets /\ q.place = v1.place
          /\ q.children = [v1.children EXCEPT ![w][i] = value]
      BY <3>2, <1>a
    <3> QED
      BY ONLY Ui!WidgetBounds, Ui!WidgetsKept, <2>1, <2>2, <3>3, <3>4, <3>5, <3>6, <1>f,
              WidgetsKeptChild
  <2> QED
    BY <2>4, <2>5, <1>4, <1>a, <1>f DEF Ui!SetItem, Ui!SetProperty
<1>5. ASSUME NEW w \in Ui!Made, NEW slot \in Ui!Slots, NEW h \in TitleHandlers, Ui!SetHandler(slot, w, h)
      PROVE  Ui!WidgetsKept'
  <2>1. q = r /\ v2' = v2 /\ v7' = v7 /\ Ui!Calling
    BY <1>5, <1>a, <1>f DEF Ui!SetHandler
  <2> QED
    BY <2>1, <1>0, <1>b, <1>d, <1>g
<1>6. ASSUME NEW h \in TitleHandlers, Ui!FillBlock(h)
      PROVE  Ui!WidgetsKept'
  <2>1. /\ q = r /\ v2' = v2 /\ Ui!Calling /\ v5[h] \in HandlersOrNone
        /\ v7' = [v7 EXCEPT !.filled = @ \cup {h, v5[h]}]
    BY <1>6, <1>a, <1>f DEF Ui!FillBlock, Ui!HandlersKept, HandlersOrNone
  <2>2. v7' \in TitleRecords /\ v7'.stored = v7.stored /\ v7'.created = v7.created
    BY <2>1, <1>0 DEF TitleRecords, HandlersOrNone
  <2> QED
    BY <2>1, <2>2, <1>0, <1>b, <1>d, <1>g
<1>7. ASSUME NEW w \in Ui!Made, Ui!SetImage(w, 1) \/ Ui!SetVisible(w, FALSE)
      PROVE  Ui!WidgetsKept'
  <2>3. /\ q \in Ui!AllOfWidgets /\ q.refs = r.refs /\ q.children = r.children
        /\ q.place = r.place
    <3>1. CASE Ui!SetImage(w, 1)
      <4>1. q = [r EXCEPT !.image[w] = 1]
        BY <3>1, <1>a, <1>f DEF Ui!SetImage
      <4> QED
        BY <4>1 DEF Ui!AllOfWidgets
    <3>2. CASE Ui!SetVisible(w, FALSE)
      <4>1. q = [r EXCEPT !.visible[w] = FALSE]
        BY <3>2, <1>a, <1>f DEF Ui!SetVisible
      <4> QED
        BY <4>1 DEF Ui!AllOfWidgets
    <3> QED
      BY <1>7, <3>1, <3>2
  <2>4. v2' = v2 /\ v7' = v7 /\ Ui!Calling
    BY <1>7 DEF Ui!SetImage, Ui!SetVisible
  <2> QED
    BY <2>3, <2>4, <1>0, <1>b, <1>d, <1>g
<1>8. ASSUME NEW w \in Ui!Made, NEW child \in Ui!Made, NEW p \in Positions, Ui!AddChild(w, child, p)
      PROVE  Ui!WidgetsKept'
  <2>1. /\ w \in Ui!Addresses /\ w \in Nat /\ child \in Ui!Addresses /\ Ui!Calling /\ v2' = v2 /\ v7' = v7
        /\ p \in Int \X Int
    BY <1>8, <1>c DEF Ui!AddChild, Ui!WidgetBounds, Ui!Addresses
  <2>4. PICK at \in Int \X Int :
          /\ at = IF Ui!Plausible(p[1], p[2]) THEN p ELSE r.place[w][child]
          /\ at[1] + at[2] <= ScreenEdge
    <3>1. CASE Ui!Plausible(p[1], p[2])
      <4>1. p[1] \in Int /\ p[2] \in Int
        BY <2>1
      <4>2. p[1] + p[2] <= ScreenEdge
        BY <3>1, <4>1, <1>0 DEF Ui!Plausible
      <4> QED
        BY <3>1, <4>2, <2>1
    <3>2. CASE ~Ui!Plausible(p[1], p[2])
      BY <3>2, <2>1, <1>d
    <3> QED
      BY <3>1, <3>2
  <2>5. q = [r EXCEPT !.parent[child] = w, !.place[w][child] = at]
    BY <1>8, <1>a, <1>f, <2>4 DEF Ui!AddChild
  <2>6. /\ q \in Ui!AllOfWidgets /\ q.refs = r.refs /\ q.children = r.children
        /\ q.place = [r.place EXCEPT ![w][child] = at]
    BY <2>1, <2>5 DEF Ui!AllOfWidgets
  <2>7. \A v, c \in Ui!Addresses :
          q.place[v][c] = IF v = w /\ c = child THEN at ELSE r.place[v][c]
    BY <2>1, <2>6 DEF Ui!AllOfWidgets
  <2>8. \A v, c \in Ui!Addresses : q.place[v][c][1] + q.place[v][c][2] <= ScreenEdge
    BY <2>4, <2>7, <1>d
  <2> QED
    BY <2>1, <2>6, <2>8, <1>0, <1>b, <1>g
<1> QED
  BY <1>1, <1>2, <1>3, <1>4, <1>5, <1>6, <1>7, <1>8 DEF Ui!WidgetsNext

LEMMA WidgetsInvInit ==
    ASSUME Ui!WidgetBounds, Ui!WidgetsInit
    PROVE  Ui!WidgetsInv
BY WidgetsKeptInit, HandlersKeptInit DEF Ui!WidgetsInv

LEMMA WidgetsInvStep ==
    ASSUME Ui!WidgetBounds, Ui!WidgetsInv, [Ui!WidgetsNext]_Ui!widgetVars
    PROVE  Ui!WidgetsInv'
<1>0. Ui!WidgetsKept /\ Ui!HandlersKept
  BY DEF Ui!WidgetsInv
<1>1. CASE UNCHANGED Ui!widgetVars
  <2>1. Ui!KeepHandlers /\ v1' = v1 /\ v2' = v2 /\ v7' = v7 /\ v8' = v8
    BY <1>1 DEF Ui!widgetVars, Ui!KeepHandlers
  <2>2. Ui!HandlersKept'
    BY <1>0, <2>1, HandlersKeptSame
  <2>3. Ui!WidgetsKept'
    BY <1>0, <2>1 DEF Ui!WidgetsKept, Ui!ChildrenApart
  <2> QED
    BY <2>2, <2>3 DEF Ui!WidgetsInv
<1>2. CASE Ui!WidgetsNext
  <2>1. Ui!WidgetsKept'
    BY <1>0, <1>2, WidgetsKeptStep
  <2>2. \A w \in Ui!Made : w \in Ui!Addresses
    BY <1>0 DEF Ui!WidgetsKept, Ui!WidgetBounds, Ui!Made, Ui!Addresses
  <2>3. CASE Ui!KeepHandlers /\ v7'.filled = v7.filled
    BY <1>0, <2>1, <2>3, HandlersKeptSame DEF Ui!WidgetsInv
  <2>4. CASE \E w \in Ui!Made, slot \in Ui!Slots, h \in TitleHandlers : Ui!SetHandler(slot, w, h)
    BY <1>0, <2>1, <2>2, <2>4, HandlersKeptSet DEF Ui!WidgetsInv
  <2>5. CASE \E h \in TitleHandlers : Ui!FillBlock(h)
    <3>1. v7 \in [filled : SUBSET HandlersOrNone, stored : SUBSET Int, created : SUBSET Ui!Addresses]
      BY <1>0 DEF Ui!WidgetsKept, HandlersOrNone
    <3> QED
      BY <1>0, <2>1, <2>5, <3>1, HandlersKeptFill DEF Ui!WidgetsInv
  <2>6. CASE ~(\/ \E w \in Ui!Made, slot \in Ui!Slots, h \in TitleHandlers : Ui!SetHandler(slot, w, h)
               \/ \E h \in TitleHandlers : Ui!FillBlock(h))
    <3>1. v7 \in TitleRecords
      BY <1>0 DEF Ui!WidgetsKept, TitleRecords, HandlersOrNone
    <3>2. \/ Ui!CreateWidget
          \/ \E w \in Ui!Made : Ui!AddRef(w) \/ Ui!Release(w) \/ Ui!QueryInterface(w)
          \/ \E w \in Ui!Made, i \in WidgetItems : Ui!GetItem(w, i)
          \/ \E w \in Ui!Made, i \in WidgetItems, v \in Ui!Made \cup {Ui!None} :
               Ui!SetItem(w, i, v) \/ Ui!SetProperty(w, i, v)
          \/ \E w \in Ui!Made : Ui!SetImage(w, 1) \/ Ui!SetVisible(w, FALSE)
          \/ \E w, child \in Ui!Made, p \in Positions : Ui!AddChild(w, child, p)
      BY <1>2, <2>6 DEF Ui!WidgetsNext
    <3>3. Ui!KeepHandlers /\ v7'.filled = v7.filled
      BY <3>1, <3>2 DEF TitleRecords, Ui!CreateWidget, Ui!AddRef, Ui!Release, Ui!QueryInterface, Ui!GetItem,
         Ui!SetItem, Ui!SetProperty, Ui!SetImage, Ui!AddChild, Ui!SetVisible
    <3> QED
      BY <2>3, <3>3
  <2> QED
    BY <2>4, <2>5, <2>6
<1> QED
  BY <1>1, <1>2

LEMMA WidgetsInvSays ==
    ASSUME Ui!WidgetBounds, Ui!WidgetsInv
    PROVE  Ui!HandlersChained /\ Ui!ChildrenApart
BY HandlersChainedKept DEF Ui!WidgetsInv, Ui!WidgetsKept

-----------------------------------------------------------------------------
(* The other parts. *)
Arm == INSTANCE ArmInterpreter WITH
    Samples <- {0, 1, 2, 7, 9, 127, 128, 255},
    program <- v1, before <- v2, cpu <- v3

Pages == INSTANCE GuestMemory WITH
    Top <- MemoryTop, PageSize <- MemoryPage, At <- Accessed, Pointer <- MediaPointer,
    Words <- WrittenWords, MaxOps <- MaxAccesses,
    pages <- v1, bound <- v2, seed <- v3, saved <- v4, hooks <- v5, asked <- v6,
    ops <- v7

Helpers == INSTANCE BaseHelpers WITH
    Top <- 6, MaxCopy <- 5,
    mem <- v1

Format == INSTANCE TextFormat WITH
    Wide <- 64, MaxPieces <- 2, Widths <- {1, 4},
    kind <- v1, format <- v2, size <- v3, at <- v4, out <- v5, used <- v6

Codec == INSTANCE TextCodec WITH
    TextBytes <- {65, 195, 169, 224, 160, 128, 237, 240, 144, 244}, Longest <- 4,
    Caps <- {1, 4},
    text <- v1, cap <- v2, in <- v3, wide <- v4, narrow <- v5, phase <- v6, ok <- v7

Files == INSTANCE FileHle WITH
    Shipped <- Shipped, Loose <- Loose, Names <- PathNames, Written <- FileWrites,
    MaxSize <- MaxFile, MaxHandles <- MaxHandles, MaxOps <- MaxFileOps,
    vfs <- v1, writable <- v2, dirs <- v3, handles <- v4, last <- v5, dirty <- v6,
    userdata <- v7, promised <- v8, ops <- v9

Gl == INSTANCE GlDispatch WITH
    built <- v1, call <- v2, handler <- v3, received <- v4, result <- v5,
    written <- v6

Layout == INSTANCE ObjectLayout WITH
    MaxNew <- 9,
    at <- v1, built <- v2, overwritten <- v3, made <- v4

-----------------------------------------------------------------------------
(* What the parts that are proved about ask of their constants. *)
ASSUME PlatformAssumption ==
    /\ Jit!DynarmicBounds /\ Files!FileBounds /\ Egl!EglBounds /\ Raster!SoftBounds
    /\ TimersBounds /\ Shell!ShellBounds /\ Screen!DisplayBounds /\ Images!ImagesBounds
    /\ Pages!MemoryBounds /\ Calls!CallsBounds /\ Heap!HeapBounds
    /\ Ui!WidgetBounds /\ Pad!HidBounds /\ Textures!LogBounds
    /\ Arrays!ArraysBounds /\ Screen!BitmapBounds /\ Sql!SqlBounds
    /\ Sorting!SortBounds /\ Clock!ClockBounds /\ Images!FramesBounds
    /\ Util!ServicesBounds

(* The files of the run. *)
SomeFiles == <<<<<<"a">>, <<1>>>>, <<<<"d", "b">>, <<2>>>>>>
SomeLoose == [n \in {<<"d", "c">>} |-> <<1>>]
SomeNames ==
  {<<"A">>, <<"d", "c">>, <<"..", "d", "">>, <<"fs:", ".", "n">>, <<".">>}
SomeWrites == {<<>>, <<1>>, <<2>>}

(* The word of a media object and the words written. *)
SomePointer == <<2, 2, 2, 2>>
SomeWords == {<<2, 2, 2, 2>>, <<0, 0, 0, 0>>, <<1, 0, 2, 1>>}

(* The positions the title gives to widgets. *)
SomePositions == {<<0, 0>>, <<1, 2>>}

(* The rectangles and the bitmaps of the run, its classes and its GIFs. *)
SomeRects == {<<0, 0, 2, 1>>, <<0 - 1, 0, 2, 1>>, <<1, 0, 1, 1>>}
SomeSizes == {<<1, 1>>, <<2, 1>>, <<3, 1>>}
SomeCatalog == {<<"a", 1>>, <<"b", 2>>, <<"b", 1>>, <<"c", 3>>}
SomeFrames ==
  {<<{1, 2}, {1, 2}, 1>>, <<{1, 2}, {1}, 3>>, <<{1}, {1}, 2>>, <<{2}, {2}, 3>>}

(* The answers of the run's queries: rows of values, by their lengths. *)
SomeTables == {<<<<1>>, <<3, 1>>>>, <<<<2, 0>>>>}

(* The files whose lines are read. *)
SomeTexts == UNION {[1..n -> {"a", "cr", "nl"}] : n \in 0..2}

(* Kept, by which the vectors of the source lose elements, is SelectSeq, whatever
   is kept of whatever short sequence. *)
ASSUME KeptIsSelectSeq ==
  \A n \in 0..3 : \A s \in [1..n -> 1..3], K \in SUBSET (1..3) :
    Kept(s, {i \in 1..n : s[i] \in K}) = {SelectSeq(s, LAMBDA e : e \in K)}

-----------------------------------------------------------------------------
PlatformInit ==
  \/ subject = "Timers" /\ Timers!TimersInit /\ Fixed3
  \/ subject = "Arm" /\ Arm!ArmInit /\ Fixed4
  \/ subject = "Pages" /\ Pages!MemoryInit /\ Fixed8
  \/ subject = "Jit" /\ Jit!DynarmicInit
  \/ subject = "Calls" /\ Calls!CallsInit /\ Fixed8
  \/ subject = "Runtime" /\ Runtime!RuntimeInit /\ Fixed8
  \/ subject = "Helpers" /\ Helpers!HelpersInit /\ Fixed2
  \/ subject = "Heap" /\ Heap!HeapInit /\ Fixed6
  \/ subject = "Clock" /\ Clock!ClockInit /\ Fixed4
  \/ subject = "Sorting" /\ Sorting!SortInit /\ Fixed6
  \/ subject = "Format" /\ Format!FormatInit /\ Fixed7
  \/ subject = "Codec" /\ Codec!CodecInit /\ Fixed8
  \/ subject = "Shell" /\ Shell!ShellInit
  \/ subject = "Files" /\ Files!FileInit /\ Fixed10
  \/ subject = "Arrays" /\ Arrays!ArraysInit /\ Fixed6
  \/ subject = "Gl" /\ Gl!DispatchInit /\ Fixed7
  \/ subject = "Ui" /\ Ui!WidgetsInit /\ Fixed9
  \/ subject = "Util" /\ Util!ServicesInit /\ Fixed5
  \/ subject = "Layout" /\ Layout!LayoutInit /\ Fixed5
  \/ subject = "Screen" /\ Screen!DisplayInit
  \/ subject = "Sql" /\ Sql!SqlInit /\ Fixed8
  \/ subject = "Ext" /\ Ext!ExtensionInit /\ Fixed11
  \/ subject = "Pad" /\ Pad!HidInit /\ Fixed8
  \/ subject = "Presenter" /\ Presenter!PresenterInit /\ Fixed5
  \/ subject = "Textures" /\ Textures!LogInit /\ Fixed5
  \/ subject = "Raster" /\ Raster!SoftInit /\ Fixed6
  \/ subject = "Egl" /\ Egl!EglInit /\ Fixed8
  \/ subject = "Images" /\ Images!ImagesInit /\ Fixed7

TimersSteps == subject = "Timers" /\ Same3 /\ TimersNext
ArmSteps == subject = "Arm" /\ Same4 /\ Arm!RunStep
PagesSteps == subject = "Pages" /\ Same8 /\ Pages!MemoryNext
JitSteps == subject = "Jit" /\ Same12 /\ Jit!DynarmicNext
CallsSteps == subject = "Calls" /\ Same8 /\ Calls!CallsNext
RuntimeSteps == subject = "Runtime" /\ Same8 /\ Runtime!RuntimeNext
HelpersSteps == subject = "Helpers" /\ Same2 /\ Helpers!HelpersNext
HeapSteps == subject = "Heap" /\ Same6 /\ Heap!HeapNext
ClockSteps == subject = "Clock" /\ Same4 /\ Clock!ClockNext
SortingSteps == subject = "Sorting" /\ Same6 /\ Sorting!InsertStep
FormatSteps == subject = "Format" /\ Same7 /\ Format!FormatPiece
CodecSteps == subject = "Codec" /\ Same8 /\ Codec!CodecNext
ShellSteps == subject = "Shell" /\ Same12 /\ Shell!ShellNext
FilesSteps == subject = "Files" /\ Same10 /\ Files!FileNext
ArraysSteps == subject = "Arrays" /\ Same6 /\ Arrays!ArraysNext
GlSteps == subject = "Gl" /\ Same7 /\ Gl!DispatchNext
UiSteps == subject = "Ui" /\ Same9 /\ Ui!WidgetsNext
UtilSteps == subject = "Util" /\ Same5 /\ Util!ServicesNext
LayoutSteps == subject = "Layout" /\ Same5 /\ Layout!LayoutNext
ScreenSteps == subject = "Screen" /\ Same12 /\ Screen!DisplayNext
SqlSteps == subject = "Sql" /\ Same8 /\ Sql!SqlNext
ExtSteps == subject = "Ext" /\ Same11 /\ Ext!ExtensionNext
PadSteps == subject = "Pad" /\ Same8 /\ Pad!HidNext
PresenterSteps == subject = "Presenter" /\ Same5 /\ Presenter!PresenterNext
TexturesSteps == subject = "Textures" /\ Same5 /\ Textures!LogNext
RasterSteps == subject = "Raster" /\ Same6 /\ Raster!SoftNext
EglSteps == subject = "Egl" /\ Same8 /\ Egl!EglNext
ImagesSteps == subject = "Images" /\ Same7 /\ Images!ImagesNext

PlatformNext ==
  \/ TimersSteps \/ ArmSteps \/ PagesSteps \/ JitSteps \/ CallsSteps \/ RuntimeSteps
  \/ HelpersSteps \/ HeapSteps \/ ClockSteps \/ SortingSteps \/ FormatSteps
  \/ CodecSteps \/ ShellSteps \/ FilesSteps \/ ArraysSteps \/ GlSteps
  \/ UiSteps \/ UtilSteps \/ LayoutSteps \/ ScreenSteps \/ SqlSteps \/ ExtSteps
  \/ PadSteps \/ PresenterSteps \/ TexturesSteps \/ RasterSteps \/ EglSteps
  \/ ImagesSteps

PlatformSpec == PlatformInit /\ [][PlatformNext]_parts
-----------------------------------------------------------------------------
(* Properties: of each, the part that speaks of the machine that runs. *)

(* Every part's variables keep their types. *)
PlatformTypeOK ==
  /\ subject = "Timers" => Timers!TimersTypeOK
  /\ subject = "Arm" => Arm!ArmTypeOK
  /\ subject = "Pages" => Pages!MemoryTypeOK
  /\ subject = "Jit" => Jit!DynarmicTypeOK
  /\ subject = "Calls" => Calls!CallsTypeOK
  /\ subject = "Runtime" => Runtime!ContextTypeOK
  /\ subject = "Helpers" => Helpers!HelpersTypeOK
  /\ subject = "Heap" => Heap!HeapTypeOK
  /\ subject = "Clock" => Clock!ClockTypeOK
  /\ subject = "Sorting" => Sorting!SortTypeOK
  /\ subject = "Format" => Format!FormatTypeOK
  /\ subject = "Codec" => Codec!CodecTypeOK
  /\ subject = "Shell" => Shell!ShellTypeOK
  /\ subject = "Files" => Files!FileTypeOK
  /\ subject = "Arrays" => Arrays!ArraysTypeOK
  /\ subject = "Gl" => Gl!DispatchTypeOK
  /\ subject = "Ui" => Ui!WidgetsTypeOK
  /\ subject = "Screen" => Screen!DisplayTypeOK
  /\ subject = "Sql" => Sql!SqlTypeOK
  /\ subject = "Ext" => Ext!ExtensionTypeOK
  /\ subject = "Pad" => Pad!HidTypeOK
  /\ subject = "Presenter" => Presenter!PresenterTypeOK
  /\ subject = "Textures" => Textures!LogTypeOK
  /\ subject = "Raster" => Raster!SoftTypeOK
  /\ subject = "Egl" => Egl!EglTypeOK
  /\ subject = "Images" => Images!ImagesTypeOK

(* What the host writes for the title stays where it was asked to go: blocks,
   DIBs, names, modules and database objects beside one another, vertex arrays and
   positions in their bounds, a row whole while it is read, a drawing in its clip
   (ModRuntime::Allocate, ISQLDatabase::Exec, GlHle, FileHle, IDisplay,
   ExtensionModule, IShell::DetectType). *)
NothingOverwritten ==
  /\ subject = "Heap" => Heap!BlocksApart
  /\ subject = "Shell" => Shell!NamesApart
  /\ subject = "Files" => Files!PositionsInside
  /\ subject = "Arrays" => Arrays!TouchesInside
  /\ subject = "Screen" => Screen!DrawsInside /\ Screen!BitmapsApart
  /\ subject = "Sql" => Sql!ObjectsBeforeScratch /\ Sql!RowIsWhole
  /\ subject = "Ext" => Ext!ModulesApart

(* What is computed, or fixed by a table, is what a reference definition says:
   instructions, formats, text encodings, searches and dates; the helpers write only
   the buffer they were given; a call lands on the operation its slot names, with its
   arguments, through the table of helpers or either table of OpenGL; and the objects
   main() builds at fixed addresses, with those the title asks for later, leave the
   tables of every other class alone, the pages of the fonts apart
   (ArmInterpreter::Step, ModRuntime's helpers and Install, GlHle's tables,
   game_probe.cpp's addresses). *)
ComputesRight ==
  /\ subject = "Arm" =>
       Arm!ConditionsDecide /\ Arm!ArithmeticRight /\ Arm!FramesRestored
  /\ subject = "Helpers" => Helpers!SearchesAgree /\ Helpers!BuffersRespected
  /\ subject = "Clock" => Clock!CalendarRight
  /\ subject = "Format" => Format!FormatsWell
  /\ subject = "Codec" => Codec!CodecFaithful
  /\ subject = "Runtime" => Runtime!EverySlotAnswers
  /\ subject = "Gl" => Gl!TablesAgree
  /\ subject = "Layout" => Layout!TablesKept

(* A service that works over several calls or steps ends with what it should,
   whatever it is given: a sort with the array in order, a wait at its time, the lines
   read with the text of the file, an animation with the frames its format says; and
   the trace of calls names those in progress (SortPointerArrayImpl, GetUpTimeMsImpl,
   IGetLine, AdvanceGif, CallStackTracer). *)
ServicesRight ==
  /\ subject = "Sorting" => Sorting!SortedWell
  /\ subject = "Clock" => Clock!BusyWaitEnds
  /\ subject = "Util" => Util!LinesRestoreTheFile
  /\ subject = "Images" => Images!FramesAsTheFormatSays
  /\ subject = "Calls" => Calls!TraceIsExact

(* Translated code is the code in memory, and Run counts as the interpreter
   does (DynarmicArmCore::Run, NotifyCodeChanged). *)
CodeIsCurrent ==
  subject = "Jit" => Jit!GuestCodeIsCurrent /\ Jit!CountsLikeInterpreter

(* A write to a file is on the host's disk once the loop has nothing left to
   flush, and the next run reads it (FileHle::WriteToHandle, the userdata file). *)
WritesSurvive == subject = "Files" => Files!WritesSurvive

(* The shell, the display, the extensions and the images answer for the object
   asked: no event refused outside a delivery, no reference the title does not
   hold, no resource, module or image of another's, no two timers for one
   callback, whatever the title writes in its AEECallbacks meanwhile
   (IShell::SendEvent, LoadResDataEx, IDisplay, ExtensionModule::CreateInstance, LoadResObject). *)
AnswersHonest ==
  /\ subject = "Timers" => Timers!TimersUnique
  /\ subject = "Shell" => Shell!FlagMeansDelivery /\ Shell!ResourcesHonest
  /\ subject = "Screen" => Screen!RefsMatchHeld
  /\ subject = "Ext" => Ext!AnswersOwnObject
  /\ subject = "Images" => Images!FallbackIsNoImage

(* What the title builds from the answers stays sound: a widget's handlers form
   a chain that ends and loses none, no two widgets hold one child, and the
   edges of the pad tell the buttons' state (IWidget's handlers, NextButton). *)
TitleNotMisled ==
  /\ subject = "Ui" => Ui!HandlersChained /\ Ui!ChildrenApart
  /\ subject = "Pad" => Pad!EventsTellThePad

(* The textures made since boot come back from a save state, and the quad of
   the 2D screen leaves the guest's buffer and its texture unit as they were
   (GlTextureLog, PushVideoFrame). *)
GlComesBack ==
  /\ subject = "Textures" => Textures!TexturesReturn
  /\ subject = "Presenter" => Presenter!ScreenStaysOut

(* What a title reads back or sees is what it drew: a copy is skipped only when
   it would change nothing, pbuffers share no byte, the nearest fragment shows
   and triangles keep their outline and their turn (SyncSurfaceColorBuffer,
   EglCreatePbufferSurface, the software rasteriser). *)
DrawingShows ==
  /\ subject = "Egl" => Egl!PbuffersApart /\ Egl!ReadbackFollowsDrawing
  /\ subject = "Raster" => Raster!NearestShows /\ Raster!TrianglesTurnAlike

(* No step of the machine does more than it was asked: a write changes the
   bytes it names and a watchpoint sees it, an allocation spares the blocks
   held, a handler goes back where it was called from, and the applet's own
   fields are not written for it (Memory, DebugHooks, ModRuntime::Allocate,
   HleRuntime::Dispatch, SetContextAddress). *)
StepsAsAsked ==
  [][ /\ subject = "Pages" => Pages!AccessLands /\ Pages!AccessIsSeen
      /\ subject = "Heap" => Heap!AllocationSpares
      /\ subject = "Calls" => Calls!GoesBack
      /\ subject = "Runtime" => Runtime!AppletSpared ]_parts

-----------------------------------------------------------------------------
(* Which part runs is chosen at the start. *)
LEMMA SubjectStays ==
    ASSUME [PlatformNext]_parts
    PROVE  subject' = subject
<1>1. CASE UNCHANGED parts
  BY <1>1 DEF parts
<1>2. CASE PlatformNext
  BY <1>2 DEF PlatformNext, TimersSteps, ArmSteps, PagesSteps, JitSteps, CallsSteps,
     RuntimeSteps, HelpersSteps, HeapSteps, ClockSteps, SortingSteps, FormatSteps,
     CodecSteps, ShellSteps, FilesSteps, ArraysSteps, GlSteps, UiSteps, UtilSteps,
     LayoutSteps, ScreenSteps, SqlSteps, ExtSteps, PadSteps, PresenterSteps,
     TexturesSteps, RasterSteps, EglSteps, ImagesSteps,
     Same2, Same3, Same4, Same5, Same6, Same7, Same8, Same9, Same10, Same11, Same12
<1> QED
  BY <1>1, <1>2

(* And only its steps are taken. *)
LEMMA OnlyItsSteps ==
    ASSUME [PlatformNext]_parts
    PROVE  /\ subject = "Timers" => [TimersNext]_<<timers, aee>>
           /\ subject = "Jit" => [Jit!DynarmicNext]_(Jit!dynarmicVars)
           /\ subject = "Shell" => [Shell!ShellNext]_(Shell!shellVars)
           /\ subject = "Files" => [Files!FileNext]_(Files!fileVars)
           /\ subject = "Screen" => [Screen!DisplayNext]_(Screen!displayVars)
           /\ subject = "Ext" => [Ext!ExtensionNext]_(Ext!extensionVars)
           /\ subject = "Raster" => [Raster!SoftNext]_(Raster!softVars)
           /\ subject = "Egl" => [Egl!EglNext]_(Egl!eglVars)
           /\ subject = "Images" => [Images!ImagesNext]_(Images!imageVars)
           /\ subject = "Pages" => [Pages!MemoryNext]_(Pages!memoryVars)
           /\ subject = "Heap" => [Heap!HeapNext]_(Heap!heapVars)
           /\ subject = "Calls" => [Calls!CallsNext]_(Calls!callsVars)
           /\ subject = "Runtime" => [Runtime!RuntimeNext]_(Runtime!runtimeVars)
           /\ subject = "Ui" => [Ui!WidgetsNext]_(Ui!widgetVars)
           /\ subject = "Pad" => [Pad!HidNext]_(Pad!hidVars)
           /\ subject = "Presenter" => [Presenter!PresenterNext]_(Presenter!presenterVars)
           /\ subject = "Textures" => [Textures!LogNext]_(Textures!logVars)
           /\ subject = "Arrays" => [Arrays!ArraysNext]_(Arrays!arraysVars)
           /\ subject = "Sql" => [Sql!SqlNext]_(Sql!sqlVars)
           /\ subject = "Sorting" => [Sorting!InsertStep]_(Sorting!sortVars)
           /\ subject = "Clock" => [Clock!ClockNext]_(Clock!clockVars)
           /\ subject = "Util" => [Util!ServicesNext]_(Util!serviceVars)
<1>1. CASE UNCHANGED parts
  BY <1>1 DEF parts, timers, aee, Jit!dynarmicVars, Shell!shellVars, Files!fileVars,
     Screen!displayVars, Ext!extensionVars, Raster!softVars, Egl!eglVars, Images!imageVars,
     Pages!memoryVars, Heap!heapVars, Calls!callsVars, Runtime!runtimeVars,
     Runtime!tableVars, Runtime!contextVars, Ui!widgetVars, Pad!hidVars, Presenter!presenterVars,
     Textures!logVars, Arrays!arraysVars, Sql!sqlVars, Sorting!sortVars,
     Clock!clockVars, Util!serviceVars
<1>2. CASE PlatformNext
  <2> USE <1>2 DEF PlatformNext, TimersSteps, ArmSteps, PagesSteps, JitSteps, CallsSteps,
         RuntimeSteps, HelpersSteps, HeapSteps, ClockSteps, SortingSteps, FormatSteps,
         CodecSteps, ShellSteps, FilesSteps, ArraysSteps, GlSteps, UiSteps, UtilSteps,
         LayoutSteps, ScreenSteps, SqlSteps, ExtSteps, PadSteps, PresenterSteps,
         TexturesSteps, RasterSteps, EglSteps, ImagesSteps
  <2>1. subject = "Timers" => TimersNext
    OBVIOUS
  <2>2. subject = "Jit" => Jit!DynarmicNext
    OBVIOUS
  <2>3. subject = "Shell" => Shell!ShellNext
    OBVIOUS
  <2>4. subject = "Files" => Files!FileNext
    OBVIOUS
  <2>5. subject = "Screen" => Screen!DisplayNext
    OBVIOUS
  <2>6. subject = "Ext" => Ext!ExtensionNext
    OBVIOUS
  <2>7. subject = "Raster" => Raster!SoftNext
    OBVIOUS
  <2>8. subject = "Egl" => Egl!EglNext
    OBVIOUS
  <2>9. subject = "Images" => Images!ImagesNext
    OBVIOUS
  <2>10. subject = "Pages" => Pages!MemoryNext
    OBVIOUS
  <2>11. subject = "Heap" => Heap!HeapNext
    OBVIOUS
  <2>12. subject = "Calls" => Calls!CallsNext
    OBVIOUS
  <2>13. subject = "Runtime" => Runtime!RuntimeNext
    OBVIOUS
  <2>14. subject = "Ui" => Ui!WidgetsNext
    OBVIOUS
  <2>15. subject = "Pad" => Pad!HidNext
    OBVIOUS
  <2>16. subject = "Presenter" => Presenter!PresenterNext
    OBVIOUS
  <2>17. subject = "Textures" => Textures!LogNext
    OBVIOUS
  <2>18. subject = "Arrays" => Arrays!ArraysNext
    OBVIOUS
  <2>19. subject = "Sql" => Sql!SqlNext
    OBVIOUS
  <2>20. subject = "Sorting" => Sorting!InsertStep
    OBVIOUS
  <2>21. subject = "Clock" => Clock!ClockNext
    OBVIOUS
  <2>22. subject = "Util" => Util!ServicesNext
    OBVIOUS
  <2> QED
    BY <2>1, <2>2, <2>3, <2>4, <2>5, <2>6, <2>7, <2>8, <2>9, <2>10, <2>11, <2>12, <2>13,
       <2>14, <2>15, <2>16, <2>17, <2>18, <2>19, <2>20, <2>21, <2>22
<1> QED
  BY <1>1, <1>2

-----------------------------------------------------------------------------
JitInv == subject = "Jit" => Jit!DynarmicInv

(* The property CodeIsCurrent of the run: DynarmicArmCore's translated code,
   and what Run counts. *)
THEOREM CodeStaysCurrent == PlatformSpec => []CodeIsCurrent
<1>1. PlatformInit => JitInv
  <2> SUFFICES ASSUME PlatformInit, subject = "Jit"
               PROVE  Jit!DynarmicInv
    BY DEF JitInv
  <2>1. Jit!DynarmicInit
    BY DEF PlatformInit
  <2> QED
    BY <2>1, PlatformAssumption, DynarmicInvInitially
<1>2. JitInv /\ [PlatformNext]_parts => JitInv'
  <2> SUFFICES ASSUME JitInv, [PlatformNext]_parts, subject' = "Jit"
               PROVE  Jit!DynarmicInv'
    BY DEF JitInv
  <2>1. subject = "Jit"
    BY SubjectStays
  <2>2. [Jit!DynarmicNext]_(Jit!dynarmicVars)
    BY <2>1, OnlyItsSteps
  <2> QED
    BY <2>1, <2>2, PlatformAssumption, DynarmicInvStays DEF JitInv
<1>3. JitInv => CodeIsCurrent
  BY PlatformAssumption, CodeCurrentByInv DEF JitInv, CodeIsCurrent
<1> QED
  BY <1>1, <1>2, <1>3, PTL DEF PlatformSpec

-----------------------------------------------------------------------------
FilesInv == subject = "Files" => Files!FileInv

(* The property WritesSurvive of the run, and the positions of the handles of
   NothingOverwritten: FileHle and the userdata file of the main loop. *)
THEOREM WritesAlwaysSurvive ==
    PlatformSpec => [](WritesSurvive /\ (subject = "Files" => Files!PositionsInside))
<1>1. PlatformInit => FilesInv
  <2> SUFFICES ASSUME PlatformInit, subject = "Files"
               PROVE  Files!FileInv
    BY DEF FilesInv
  <2>1. Files!FileInit
    BY DEF PlatformInit
  <2> QED
    BY <2>1, PlatformAssumption, Files!FileInvInitially
<1>2. FilesInv /\ [PlatformNext]_parts => FilesInv'
  <2> SUFFICES ASSUME FilesInv, [PlatformNext]_parts, subject' = "Files"
               PROVE  Files!FileInv'
    BY DEF FilesInv
  <2>1. subject = "Files"
    BY SubjectStays
  <2>2. [Files!FileNext]_(Files!fileVars)
    BY <2>1, OnlyItsSteps
  <2> QED
    BY <2>1, <2>2, PlatformAssumption, Files!FileInvStays DEF FilesInv
<1>3. FilesInv => WritesSurvive /\ (subject = "Files" => Files!PositionsInside)
  BY Files!FileInvShows DEF FilesInv, WritesSurvive
<1> QED
  BY <1>1, <1>2, <1>3, PTL DEF PlatformSpec

-----------------------------------------------------------------------------
DrawingInv ==
    /\ subject = "Egl" => Egl!EglInv
    /\ subject = "Raster" => Raster!SoftInv

(* The property DrawingShows of the run: the surfaces and their memory, the
   fragments and the triangles of the software rasteriser. *)
THEOREM DrawingAlwaysShows == PlatformSpec => []DrawingShows
<1>1. PlatformInit => DrawingInv
  <2> SUFFICES ASSUME PlatformInit
               PROVE  DrawingInv
    OBVIOUS
  <2>1. subject = "Egl" => Egl!EglInit
    BY DEF PlatformInit
  <2>2. subject = "Raster" => Raster!SoftInit
    BY DEF PlatformInit
  <2> QED
    BY <2>1, <2>2, PlatformAssumption, EglInvInitially, SoftInvInitially DEF DrawingInv
<1>2. DrawingInv /\ [PlatformNext]_parts => DrawingInv'
  <2> SUFFICES ASSUME DrawingInv, [PlatformNext]_parts
               PROVE  DrawingInv'
    OBVIOUS
  <2>1. subject' = subject
    BY SubjectStays
  <2>2. subject = "Egl" => Egl!EglInv'
    BY OnlyItsSteps, PlatformAssumption, EglInvStays DEF DrawingInv
  <2>3. subject = "Raster" => Raster!SoftInv'
    BY OnlyItsSteps, PlatformAssumption, SoftInvStays DEF DrawingInv
  <2> QED
    BY <2>1, <2>2, <2>3 DEF DrawingInv
<1>3. DrawingInv => DrawingShows
  BY PlatformAssumption, EglInvShows, NearestShown, TrianglesAlike DEF DrawingInv, DrawingShows
<1> QED
  BY <1>1, <1>2, <1>3, PTL DEF PlatformSpec

-----------------------------------------------------------------------------
AnswersInv ==
    /\ subject = "Timers" => TimersInv
    /\ subject = "Shell" => Shell!ShellInv
    /\ subject = "Screen" => Screen!DisplayInv
    /\ subject = "Ext" => Ext!ExtensionInv
    /\ subject = "Images" => Images!ImagesInv

(* The property AnswersHonest of the run: the timers, the events and resources
   of the shell, the references of the display, the objects of the extensions
   and the images, in every order of the title's calls. *)
THEOREM AnswersAlwaysHonest == PlatformSpec => []AnswersHonest
<1>1. PlatformInit => AnswersInv
  <2> SUFFICES ASSUME PlatformInit
               PROVE  AnswersInv
    OBVIOUS
  <2>1. /\ subject = "Timers" => Timers!TimersInit
        /\ subject = "Shell" => Shell!ShellInit
        /\ subject = "Screen" => Screen!DisplayInit
        /\ subject = "Ext" => Ext!ExtensionInit
        /\ subject = "Images" => Images!ImagesInit
    BY DEF PlatformInit
  <2> QED
    BY <2>1, PlatformAssumption, TimersInvInitially, ShellInvInitially,
       DisplayInvInitially, ExtensionInvInitially, ImagesInvInitially DEF AnswersInv
<1>2. AnswersInv /\ [PlatformNext]_parts => AnswersInv'
  <2> SUFFICES ASSUME AnswersInv, [PlatformNext]_parts
               PROVE  AnswersInv'
    OBVIOUS
  <2>1. subject' = subject
    BY SubjectStays
  <2>2. subject = "Timers" => TimersInv'
    BY OnlyItsSteps, PlatformAssumption, TimersInvStays DEF AnswersInv
  <2>3. subject = "Shell" => Shell!ShellInv'
    BY OnlyItsSteps, PlatformAssumption, ShellInvStays DEF AnswersInv
  <2>4. subject = "Screen" => Screen!DisplayInv'
    BY OnlyItsSteps, PlatformAssumption, DisplayInvStays DEF AnswersInv
  <2>5. subject = "Ext" => Ext!ExtensionInv'
    BY OnlyItsSteps, ExtensionInvStays DEF AnswersInv
  <2>6. subject = "Images" => Images!ImagesInv'
    BY OnlyItsSteps, PlatformAssumption, ImagesInvStays DEF AnswersInv
  <2> QED
    BY <2>1, <2>2, <2>3, <2>4, <2>5, <2>6 DEF AnswersInv
<1>3. AnswersInv => AnswersHonest
  <2>1. Shell!ShellInv => Shell!FlagMeansDelivery /\ Shell!ResourcesHonest
    BY DEF Shell!ShellInv
  <2> QED
    BY <2>1, PlatformAssumption, TimersInvShows, DisplayInvShows, ExtensionInvShows,
       ImagesInvShows DEF AnswersInv, AnswersHonest
<1> QED
  BY <1>1, <1>2, <1>3, PTL DEF PlatformSpec

-----------------------------------------------------------------------------
StepsInv ==
    /\ subject = "Pages" => Pages!MemoryInv
    /\ subject = "Heap" => Heap!HeapInv
    /\ subject = "Calls" => Calls!CallsInv
    /\ subject = "Runtime" => Runtime!RuntimeInv

LEMMA StepsInvHolds == PlatformSpec => []StepsInv
<1>1. PlatformInit => StepsInv
  <2> SUFFICES ASSUME PlatformInit
               PROVE  StepsInv
    OBVIOUS
  <2>1. /\ subject = "Pages" => Pages!MemoryInit
        /\ subject = "Heap" => Heap!HeapInit
        /\ subject = "Calls" => Calls!CallsInit
        /\ subject = "Runtime" => Runtime!RuntimeInit
    BY DEF PlatformInit
  <2> QED
    BY <2>1, PlatformAssumption, Pages!MemoryInvInitially, HeapInvInitially,
       CallsInvInitially, RuntimeInvInitially DEF StepsInv
<1>2. StepsInv /\ [PlatformNext]_parts => StepsInv'
  <2> SUFFICES ASSUME StepsInv, [PlatformNext]_parts
               PROVE  StepsInv'
    OBVIOUS
  <2>1. subject' = subject
    BY SubjectStays
  <2>2. subject = "Pages" => Pages!MemoryInv'
    BY OnlyItsSteps, PlatformAssumption, Pages!MemoryInvStep, Pages!MemoryInvStutters
       DEF StepsInv
  <2>3. subject = "Heap" => Heap!HeapInv'
    BY OnlyItsSteps, PlatformAssumption, HeapInvStep, HeapInvStutters DEF StepsInv
  <2>4. subject = "Calls" => Calls!CallsInv'
    BY OnlyItsSteps, PlatformAssumption, CallsInvStep, CallsInvStutters DEF StepsInv
  <2>5. subject = "Runtime" => Runtime!RuntimeInv'
    BY OnlyItsSteps, RuntimeInvStep, RuntimeInvStutters DEF StepsInv
  <2> QED
    BY <2>1, <2>2, <2>3, <2>4, <2>5 DEF StepsInv
<1> QED
  BY <1>1, <1>2, PTL DEF PlatformSpec

(* The property StepsAsAsked of the run: a write changes the bytes it names,
   whatever pages it crosses, and is seen by the watchpoints; an allocation spares
   the blocks held; a handler goes back where it was called from; the applet's own
   fields are not written for it. *)
THEOREM StepsAlwaysAsAsked == PlatformSpec => StepsAsAsked
<1>1. StepsInv /\ StepsInv' /\ [PlatformNext]_parts
      => [ /\ subject = "Pages" => Pages!AccessLands /\ Pages!AccessIsSeen
           /\ subject = "Heap" => Heap!AllocationSpares
           /\ subject = "Calls" => Calls!GoesBack
           /\ subject = "Runtime" => Runtime!AppletSpared ]_parts
  <2> SUFFICES ASSUME StepsInv, StepsInv', PlatformNext
               PROVE  /\ subject = "Pages" => Pages!AccessLands /\ Pages!AccessIsSeen
                      /\ subject = "Heap" => Heap!AllocationSpares
                      /\ subject = "Calls" => Calls!GoesBack
                      /\ subject = "Runtime" => Runtime!AppletSpared
    OBVIOUS
  <2>1. subject' = subject
    BY SubjectStays
  <2>2. subject = "Pages" => Pages!MemoryNext
    BY DEF PlatformNext, TimersSteps, ArmSteps, PagesSteps, JitSteps, CallsSteps,
       RuntimeSteps, HelpersSteps, HeapSteps, ClockSteps, SortingSteps, FormatSteps,
       CodecSteps, ShellSteps, FilesSteps, ArraysSteps, GlSteps, UiSteps, UtilSteps,
       LayoutSteps, ScreenSteps, SqlSteps, ExtSteps, PadSteps, PresenterSteps,
       TexturesSteps, RasterSteps, EglSteps, ImagesSteps
  <2>3. subject = "Pages" => Pages!AccessLands /\ Pages!AccessIsSeen
    BY <2>2, PlatformAssumption, Pages!MemoryInvStep DEF StepsInv
  <2>4. subject = "Heap" => Heap!AllocationSpares
    BY OnlyItsSteps, PlatformAssumption, AllocationsSpare DEF StepsInv
  <2>5. subject = "Calls" => Calls!GoesBack
    BY PlatformAssumption, HandlersGoBack DEF StepsInv
  <2>6. subject = "Runtime" => Runtime!AppletSpared
    BY <2>1, AppletIsSpared DEF StepsInv
  <2> QED
    BY <2>3, <2>4, <2>5, <2>6
<1> QED
  BY <1>1, StepsInvHolds, PTL DEF PlatformSpec, StepsAsAsked

-----------------------------------------------------------------------------
MisledInv ==
    /\ subject = "Ui" => Ui!WidgetsInv
    /\ subject = "Pad" => Pad!PadInv

(* The property TitleNotMisled of the run: the handlers of every widget form a
   chain that ends and loses none, no two items hold one child and positions stay
   on the screen; and the edges queued lead from what the title was told to the
   buttons that are down (IWidget's handlers, InjectHidButtonEvent, UpdateState). *)
THEOREM TitleNeverMisled == PlatformSpec => []TitleNotMisled
<1>1. PlatformInit => MisledInv
  <2> SUFFICES ASSUME PlatformInit
               PROVE  MisledInv
    OBVIOUS
  <2>1. /\ subject = "Ui" => Ui!WidgetsInit
        /\ subject = "Pad" => Pad!HidInit
    BY DEF PlatformInit
  <2> QED
    BY <2>1, PlatformAssumption, WidgetsInvInit, PadInvInit DEF MisledInv
<1>2. MisledInv /\ [PlatformNext]_parts => MisledInv'
  <2> SUFFICES ASSUME MisledInv, [PlatformNext]_parts
               PROVE  MisledInv'
    OBVIOUS
  <2>1. subject' = subject
    BY SubjectStays
  <2>2. subject = "Ui" => Ui!WidgetsInv'
    BY OnlyItsSteps, PlatformAssumption, WidgetsInvStep DEF MisledInv
  <2>3. subject = "Pad" => Pad!PadInv'
    BY OnlyItsSteps, PlatformAssumption, PadInvStep DEF MisledInv
  <2> QED
    BY <2>1, <2>2, <2>3 DEF MisledInv
<1>3. MisledInv => TitleNotMisled
  BY PlatformAssumption, WidgetsInvSays, PadInvSays DEF MisledInv, TitleNotMisled
<1> QED
  BY <1>1, <1>2, <1>3, PTL DEF PlatformSpec

-----------------------------------------------------------------------------
GlInv ==
    /\ subject = "Textures" => Textures!LogInv
    /\ subject = "Presenter" => Presenter!PresenterInv

(* The property GlComesBack of the run: a save state replays under the names it
   recorded and gives every texture made since boot its contents, as long as each
   compaction was followed by a bind before the next write; and the quad of the 2D
   screen never lands in the guest's pbuffer, nor a call leaves another texture unit
   selected than the guest's (CompactGlTextureLog, ReplayGlTextureLog, PushVideoFrame). *)
THEOREM GlAlwaysComesBack == PlatformSpec => []GlComesBack
<1>1. PlatformInit => GlInv
  <2> SUFFICES ASSUME PlatformInit
               PROVE  GlInv
    OBVIOUS
  <2>1. /\ subject = "Textures" => Textures!LogInit
        /\ subject = "Presenter" => Presenter!PresenterInit
    BY DEF PlatformInit
  <2> QED
    BY <2>1, PlatformAssumption, LogInvInit, PresenterInvInit DEF GlInv
<1>2. GlInv /\ [PlatformNext]_parts => GlInv'
  <2> SUFFICES ASSUME GlInv, [PlatformNext]_parts
               PROVE  GlInv'
    OBVIOUS
  <2>1. subject' = subject
    BY SubjectStays
  <2>2. subject = "Textures" => Textures!LogInv'
    BY OnlyItsSteps, PlatformAssumption, LogInvStep DEF GlInv
  <2>3. subject = "Presenter" => Presenter!PresenterInv'
    BY OnlyItsSteps, PlatformAssumption, PresenterInvStep DEF GlInv
  <2> QED
    BY <2>1, <2>2, <2>3 DEF GlInv
<1>3. GlInv => GlComesBack
  BY PlatformAssumption, LogInvSays, PresenterInvSays DEF GlInv, GlComesBack
<1> QED
  BY <1>1, <1>2, <1>3, PTL DEF PlatformSpec

-----------------------------------------------------------------------------
OverwrittenInv ==
    /\ subject = "Heap" => Heap!HeapInv
    /\ subject = "Files" => Files!FileInv
    /\ subject = "Shell" => Shell!MimesInv
    /\ subject = "Arrays" => Arrays!ArraysInv
    /\ subject = "Screen" => Screen!BitmapsInv
    /\ subject = "Sql" => Sql!SqlInv
    /\ subject = "Ext" => Ext!ExtensionInv /\ Ext!ModulesInv

(* The property NothingOverwritten of the run: blocks, DIBs and bitmaps, names,
   modules and database objects lie apart, positions, vertices and pixels stay in their
   bounds, and the row a callback reads is whole unless it queried itself
   (ModRuntime::Allocate, FileHle, DetectType, GlHle, IDisplay, Exec, ExtensionModule). *)
THEOREM NothingEverOverwritten == PlatformSpec => []NothingOverwritten
<1>1. PlatformInit => OverwrittenInv
  <2> SUFFICES ASSUME PlatformInit
               PROVE  OverwrittenInv
    OBVIOUS
  <2>1. /\ subject = "Heap" => Heap!HeapInit
        /\ subject = "Files" => Files!FileInit
        /\ subject = "Shell" => Shell!ShellInit
        /\ subject = "Arrays" => Arrays!ArraysInit
        /\ subject = "Screen" => Screen!DisplayInit
        /\ subject = "Sql" => Sql!SqlInit
        /\ subject = "Ext" => Ext!ExtensionInit
    BY DEF PlatformInit
  <2> QED
    BY <2>1, PlatformAssumption, HeapInvInitially, Files!FileInvInitially, MimesInvInit,
       ArraysInvInit, BitmapsInvInit, SqlInvInit, ExtensionInvInitially, ModulesInvInit
       DEF OverwrittenInv
<1>2. OverwrittenInv /\ [PlatformNext]_parts => OverwrittenInv'
  <2> SUFFICES ASSUME OverwrittenInv, [PlatformNext]_parts
               PROVE  OverwrittenInv'
    OBVIOUS
  <2>1. subject' = subject
    BY SubjectStays
  <2>2. subject = "Heap" => Heap!HeapInv'
    BY OnlyItsSteps, PlatformAssumption, HeapInvStep, HeapInvStutters DEF OverwrittenInv
  <2>3. subject = "Files" => Files!FileInv'
    BY OnlyItsSteps, PlatformAssumption, Files!FileInvStays DEF OverwrittenInv
  <2>4. subject = "Shell" => Shell!MimesInv'
    BY OnlyItsSteps, MimesInvStep DEF OverwrittenInv
  <2>5. subject = "Arrays" => Arrays!ArraysInv'
    BY OnlyItsSteps, PlatformAssumption, ArraysInvStep DEF OverwrittenInv
  <2>6. subject = "Screen" => Screen!BitmapsInv'
    BY OnlyItsSteps, PlatformAssumption, BitmapsInvStep DEF OverwrittenInv
  <2>7. subject = "Sql" => Sql!SqlInv'
    BY OnlyItsSteps, PlatformAssumption, SqlInvStep DEF OverwrittenInv
  <2>8. subject = "Ext" => Ext!ExtensionInv' /\ Ext!ModulesInv'
    BY OnlyItsSteps, ExtensionInvStays, ModulesInvStep DEF OverwrittenInv
  <2> QED
    BY <2>1, <2>2, <2>3, <2>4, <2>5, <2>6, <2>7, <2>8 DEF OverwrittenInv
<1>3. OverwrittenInv => NothingOverwritten
  <2>1. Shell!MimesInv => Shell!NamesApart
    BY DEF Shell!MimesInv
  <2>2. Arrays!ArraysInv => Arrays!TouchesInside
    BY DEF Arrays!ArraysInv
  <2> QED
    BY <2>1, <2>2, PlatformAssumption, BlocksAreApart, Files!FileInvShows, BitmapsInvSays,
       SqlInvSays, ModulesInvSays DEF OverwrittenInv, NothingOverwritten
<1> QED
  BY <1>1, <1>2, <1>3, PTL DEF PlatformSpec

-----------------------------------------------------------------------------
ServicesAsAsked ==
    /\ subject = "Sorting" => Sorting!SortInv
    /\ subject = "Clock" => Clock!ClockInv
    /\ subject = "Util" => Util!ServicesInv
    /\ subject = "Images" => Images!FramesInv

(* The property ServicesRight of the run: a sort, a wait, the lines of a file, the
   frames of an animation and the trace of calls end as they should, whatever the
   array and its comparator, the clock, the file, the GIF and the calls
   (SortPointerArrayImpl, GetUpTimeMsImpl, IGetLine, AdvanceGif, CallStackTracer). *)
THEOREM ServicesAlwaysRight == PlatformSpec => []ServicesRight
<1>1. PlatformInit => ServicesAsAsked
  <2> SUFFICES ASSUME PlatformInit
               PROVE  ServicesAsAsked
    OBVIOUS
  <2>1. /\ subject = "Sorting" => Sorting!SortInit
        /\ subject = "Clock" => Clock!ClockInit
        /\ subject = "Util" => Util!ServicesInit
        /\ subject = "Images" => Images!ImagesInit
    BY DEF PlatformInit
  <2> QED
    BY <2>1, PlatformAssumption, SortInvInitially, ClockInvInitially,
       ServicesInvInitially, FramesInvInitially DEF ServicesAsAsked
<1>2. ServicesAsAsked /\ [PlatformNext]_parts => ServicesAsAsked'
  <2> SUFFICES ASSUME ServicesAsAsked, [PlatformNext]_parts
               PROVE  ServicesAsAsked'
    OBVIOUS
  <2>1. subject' = subject
    BY SubjectStays
  <2>2. subject = "Sorting" => Sorting!SortInv'
    BY OnlyItsSteps, PlatformAssumption, SortInvStays DEF ServicesAsAsked
  <2>3. subject = "Clock" => Clock!ClockInv'
    BY OnlyItsSteps, PlatformAssumption, ClockInvStays DEF ServicesAsAsked
  <2>4. subject = "Util" => Util!ServicesInv'
    BY OnlyItsSteps, PlatformAssumption, ServicesInvStays DEF ServicesAsAsked
  <2>5. subject = "Images" => Images!FramesInv'
    BY OnlyItsSteps, FramesInvStays DEF ServicesAsAsked
  <2> QED
    BY <2>1, <2>2, <2>3, <2>4, <2>5 DEF ServicesAsAsked
<1>3. ServicesAsAsked /\ StepsInv => ServicesRight
  BY PlatformAssumption, SortInvSays, ClockInvSays, ServicesInvSays, FramesInvSays,
     TraceExactThen DEF ServicesAsAsked, StepsInv, ServicesRight
<1> QED
  BY <1>1, <1>2, <1>3, StepsInvHolds, PTL DEF PlatformSpec
=============================================================================
