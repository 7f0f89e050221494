---------------------------- MODULE Host_proofs ----------------------------
(***************************************************************************)
(* What runs beside the guest, proved for any bounds: the control server,  *)
(* and with the invariants of MirrorServer, EmulatorSession and Streams    *)
(* what MCHost says of all of them.                                        *)
(***************************************************************************)
EXTENDS MCHost, Vectors_proofs, TLAPS

-----------------------------------------------------------------------------
(* The streams and their notices (Streams). *)
asStreams == w1
asPending == w2
asBatch == w3
asInside == w4
asNotices == w5
asLast == w6
USE DEF asStreams, asPending, asBatch, asInside, asNotices, asLast

(* What is known of vectors, for those of the notices. *)
LEMMA NoticeVectors ==
    /\ \A s : Notices!Elems(s) = Elems(s)
    /\ \A s : Notices!Distinct(s) <=> Distinct(s)
    /\ \A s, I : Notices!Kept(s, I) = Kept(s, I)
  BY DEF Notices!Elems, Elems, Notices!Distinct, Distinct, Notices!Kept, Kept,
     Notices!Lists, Lists

LEMMA NoticeKeptType ==
    ASSUME NEW S, NEW s \in Seq(S), NEW I \in SUBSET DOMAIN s, NEW r \in Notices!Kept(s, I)
    PROVE  r \in Seq(S)
  BY KeptType, NoticeVectors

LEMMA NoticeKeptElems ==
    ASSUME NEW S, NEW s \in Seq(S), NEW I \in SUBSET DOMAIN s, NEW r \in Notices!Kept(s, I), NEW e
    PROVE  e \in Notices!Elems(r) <=> \E i \in I : s[i] = e
  BY KeptElems, NoticeVectors

LEMMA NoticeKeptInjective ==
    ASSUME NEW S, NEW s \in Seq(S), NEW I \in SUBSET DOMAIN s, NEW r \in Notices!Kept(s, I),
           NEW j \in DOMAIN r, NEW k \in DOMAIN r, j # k
    PROVE  \E p, q \in I : p # q /\ r[j] = s[p] /\ r[k] = s[q]
  BY KeptInjective, NoticeVectors

LEMMA NoticeElemsType ==
    ASSUME NEW S, NEW s \in Seq(S)
    PROVE  Notices!Elems(s) \subseteq S
  BY ElemsType, NoticeVectors

LEMMA NoticePushNew ==
    ASSUME NEW S, NEW s \in Seq(S), Notices!Distinct(s), NEW e \in S, e \notin Notices!Elems(s)
    PROVE  /\ Append(s, e) \in Seq(S)
           /\ Notices!Distinct(Append(s, e))
           /\ Notices!Elems(Append(s, e)) = Notices!Elems(s) \cup {e}
  BY PushNew, NoticeVectors

LEMMA NoticeTailElems ==
    ASSUME NEW S, NEW s \in Seq(S), s # <<>>
    PROVE  /\ Head(s) \in Notices!Elems(s)
           /\ Notices!Elems(Tail(s)) \subseteq Notices!Elems(s)
           /\ Notices!Elems(s) = Notices!Elems(Tail(s)) \cup {Head(s)}
  BY TailElems, NoticeVectors

LEMMA NoticePopElems ==
    ASSUME NEW S, NEW s \in Seq(S), s # <<>>
    PROVE  /\ Head(s) \in S
           /\ Tail(s) \in Seq(S)
           /\ \A e \in Notices!Elems(s) : e = Head(s) \/ e \in Notices!Elems(Tail(s))
  BY PopElems, NoticeVectors

LEMMA StreamInvInitially == Notices!StreamInit => Notices!StreamInv
<1> SUFFICES ASSUME Notices!StreamInit
             PROVE  Notices!StreamInv
  OBVIOUS
<1> USE DEF Notices!StreamInit
<1>1. Notices!Live = Streams
  BY DEF Notices!Live
<1>2. Notices!StreamsInside
  BY <1>1 DEF Notices!StreamsInside, Notices!StreamObject, Notices!Fresh
<1>3. DOMAIN asNotices = {} /\ Notices!Elems(asPending) = {} /\ Notices!Elems(asBatch) = {}
  BY DEF Notices!Elems
<1>4. Notices!NoticesApart
  <2>1. <<>> \in Seq(DOMAIN asNotices) /\ \A i : i \notin DOMAIN <<>>
    OBVIOUS
  <2>2. Notices!Distinct(asPending) /\ Notices!Distinct(asBatch)
    BY <2>1 DEF Notices!Distinct
  <2> QED
    BY <1>3, <2>1, <2>2 DEF Notices!NoticesApart
<1>5. Notices!ReadsWithin
  BY DEF Notices!ReadsWithin, Notices!NoRead
<1>6. asNotices \in Seq(Notices!Notice)
  OBVIOUS
<1> QED
  BY <1>2, <1>3, <1>4, <1>5, <1>6 DEF Notices!StreamInv

(* Giving some notices a fate moves none and touches no other.             *)
LEMMA Fated ==
    ASSUME asNotices \in Seq(Notices!Notice), NEW ns,
           NEW fate \in {"asked", "called", "cancelled", "released"}
    PROVE  /\ Notices!Fate(ns, fate) \in Seq(Notices!Notice)
           /\ DOMAIN Notices!Fate(ns, fate) = DOMAIN asNotices
           /\ \A n \in DOMAIN asNotices :
                /\ Notices!Fate(ns, fate)[n].stream = asNotices[n].stream
                /\ n \notin ns => Notices!Fate(ns, fate)[n] = asNotices[n]
<1> DEFINE r == Notices!Fate(ns, fate)
<1>1. DOMAIN asNotices = 1..Len(asNotices) /\ Len(asNotices) \in Nat /\ \A n \in DOMAIN asNotices : asNotices[n] \in Notices!Notice
  OBVIOUS
<1>2. \A n \in DOMAIN asNotices :
                                /\ [asNotices[n] EXCEPT !.fate = fate] \in Notices!Notice
                                /\ [asNotices[n] EXCEPT !.fate = fate].stream = asNotices[n].stream
  BY <1>1 DEF Notices!Notice
<1>3. r = [n \in DOMAIN asNotices |-> IF n \in ns THEN [asNotices[n] EXCEPT !.fate = fate] ELSE asNotices[n]]
  BY DEF Notices!Fate
<1>4. r \in [1..Len(asNotices) -> Notices!Notice]
  BY <1>1, <1>2, <1>3
<1>5. r \in Seq(Notices!Notice)
  BY <1>1, <1>4
<1> QED
  BY <1>2, <1>3, <1>5

(* The calls that change a stream and no notice.                           *)
LEMMA NoticesUntouched ==
    ASSUME Notices!StreamInv, Notices!Live' = Notices!Live, UNCHANGED <<asPending, asBatch, asInside, asNotices>>,
           Notices!StreamsInside', Notices!ReadsWithin'
    PROVE  Notices!StreamInv'
<1>1. Notices!NoticesApart'
  BY DEF Notices!StreamInv, Notices!NoticesApart
<1>2. \A n : Notices!StillAsked(n)' <=> Notices!StillAsked(n)
  BY DEF Notices!StillAsked
<1> QED
  BY <1>1, <1>2 DEF Notices!StreamInv

LEMMA RefAdded ==
    ASSUME NEW o \in Notices!StreamObject
    PROVE  /\ [o EXCEPT !.refs = @ + 1] \in Notices!StreamObject
           /\ [o EXCEPT !.refs = @ + 1].position = o.position
           /\ [o EXCEPT !.refs = @ + 1].size = o.size
           /\ [o EXCEPT !.refs = @ + 1].expanded = o.expanded
  BY DEF Notices!StreamObject

LEMMA AddRefKeeps == \A s : Notices!StreamInv /\ Notices!AddRef(s) => Notices!StreamInv'
<1> SUFFICES ASSUME Notices!StreamInv, NEW s, Notices!AddRef(s)
             PROVE  Notices!StreamInv'
  OBVIOUS
<1> USE DEF Notices!StreamInv, Notices!StreamsInside
<1>1. s \in Notices!Live /\ asStreams[s] \in Notices!StreamObject /\ UNCHANGED asLast
  BY DEF Notices!AddRef
<1>2. /\ [asStreams[s] EXCEPT !.refs = @ + 1] \in Notices!StreamObject
      /\ [asStreams[s] EXCEPT !.refs = @ + 1].position = asStreams[s].position
      /\ [asStreams[s] EXCEPT !.refs = @ + 1].size = asStreams[s].size
      /\ [asStreams[s] EXCEPT !.refs = @ + 1].expanded = asStreams[s].expanded
  BY <1>1, RefAdded
<1>3. asStreams' = [asStreams EXCEPT ![s] = [asStreams[s] EXCEPT !.refs = @ + 1]]
  BY DEF Notices!AddRef
<1>4. Notices!Live' = Notices!Live
  BY <1>3 DEF Notices!Live
<1>5. Notices!StreamsInside'
  BY <1>1, <1>2, <1>3, <1>4 DEF Notices!Live
<1> QED
  BY <1>1, <1>4, <1>5, NoticesUntouched DEF Notices!AddRef, Notices!ReadsWithin

LEMMA SetKeeps ==
    ASSUME NEW s, NEW size \in Nat, NEW offset \in Nat, Notices!StreamInv, Notices!Set(s, size, offset)
    PROVE  Notices!StreamInv'
<1> DEFINE to == IF offset < size THEN offset ELSE size
           new == [asStreams[s] EXCEPT !.size = size, !.position = to]
<1> USE DEF Notices!StreamInv, Notices!StreamsInside
<1>1. s \in Notices!Live /\ ~Notices!IsUnzip(s) /\ asStreams[s] \in Notices!StreamObject /\ UNCHANGED asLast
  BY DEF Notices!Set
<1>2. to \in Nat /\ to <= size
  OBVIOUS
<1>3. new \in Notices!StreamObject /\ new.position <= new.size
  BY <1>1, <1>2 DEF Notices!StreamObject
<1>4. asStreams' = [asStreams EXCEPT ![s] = new]
  BY DEF Notices!Set
<1>5. Notices!Live' = Notices!Live
  BY <1>4 DEF Notices!Live
<1> HIDE DEF new
<1>6. Notices!StreamsInside'
  BY <1>1, <1>3, <1>4, <1>5 DEF Notices!Live
<1> QED
  BY <1>1, <1>5, <1>6, NoticesUntouched DEF Notices!Set, Notices!ReadsWithin

LEMMA SetStreamKeeps ==
    ASSUME NEW s, NEW source \in Streams, Notices!StreamInv, Notices!SetStream(s, source)
    PROVE  Notices!StreamInv'
<1> DEFINE new == [Notices!Fresh EXCEPT !.refs = asStreams[s].refs, !.source = source]
<1> USE DEF Notices!StreamInv, Notices!StreamsInside
<1>1. s \in Notices!Live /\ asStreams[s] \in Notices!StreamObject /\ UNCHANGED asLast
  BY DEF Notices!SetStream
<1>2. new \in Notices!StreamObject /\ new.position = 0 /\ new.size = 0
  BY <1>1 DEF Notices!StreamObject, Notices!Fresh
<1>3. asStreams' = [asStreams EXCEPT ![s] = new]
  BY DEF Notices!SetStream
<1>4. Notices!Live' = Notices!Live
  BY <1>3 DEF Notices!Live
<1> HIDE DEF new
<1>5. Notices!StreamsInside'
  BY <1>1, <1>2, <1>3, <1>4 DEF Notices!Live
<1> QED
  BY <1>1, <1>4, <1>5, NoticesUntouched DEF Notices!SetStream, Notices!ReadsWithin

LEMMA ReadingKeeps ==
    ASSUME Notices!Live \subseteq Streams, NEW from \in [Notices!Live -> Notices!StreamObject],
           \A t \in Notices!Live :
                           /\ from[t].position <= from[t].size
                           /\ Notices!IsUnzip(t) /\ ~from[t].expanded => from[t].size = 0,
           NEW s \in Notices!Live, NEW want \in Nat, Notices!Reading(from, s, want)
    PROVE  Notices!Live' = Notices!Live /\ Notices!StreamsInside' /\ Notices!ReadsWithin'
<1> DEFINE left == from[s].size - from[s].position
           got == Notices!Got(want, left)
           new == [from[s] EXCEPT !.position = @ + got]
<1>1. from[s] \in Notices!StreamObject /\ from[s].size \in Nat /\ from[s].position \in Nat
  BY DEF Notices!StreamObject
<1>2. left \in Nat
  BY <1>1
<1>3. got \in Nat /\ got <= left /\ got <= want
  BY <1>2 DEF Notices!Got
<1>4. asLast' = [want |-> want, left |-> left, got |-> got]
  BY DEF Notices!Reading
<1>5. Notices!ReadsWithin'
  BY <1>2, <1>3, <1>4 DEF Notices!ReadsWithin
<1> HIDE DEF got
<1>6. /\ new \in Notices!StreamObject
      /\ new.size = from[s].size /\ new.expanded = from[s].expanded
      /\ new.position = from[s].position + got
  BY <1>1, <1>3 DEF Notices!StreamObject
<1>7. new.position <= new.size
  BY <1>1, <1>3, <1>6
<1>8. asStreams' = [from EXCEPT ![s] = new]
  BY DEF Notices!Reading, got
<1> HIDE DEF new
<1>9. Notices!Live' = Notices!Live /\ asStreams' \in [Notices!Live -> Notices!StreamObject]
  BY <1>6, <1>8 DEF Notices!Live
<1>10. \A t \in Notices!Live : asStreams'[t] = IF t = s THEN new ELSE from[t]
  BY <1>8
<1>11. Notices!StreamsInside'
  BY <1>6, <1>7, <1>9, <1>10 DEF Notices!StreamsInside
<1> QED
  BY <1>5, <1>9, <1>11

(* Draining the source leaves it at its end.                               *)
LEMMA DrainedInside ==
    ASSUME Notices!StreamInv, NEW s \in Notices!Live
    PROVE  /\ Notices!Drained(s) \in [Notices!Live -> Notices!StreamObject]
           /\ \A t \in Notices!Live :
                              /\ Notices!Drained(s)[t].position <= Notices!Drained(s)[t].size
                              /\ Notices!Drained(s)[t].size = asStreams[t].size
                              /\ Notices!Drained(s)[t].expanded = asStreams[t].expanded
<1> DEFINE source == asStreams[s].source
           new == [asStreams[source] EXCEPT !.position = asStreams[source].size]
<1> USE DEF Notices!StreamInv, Notices!StreamsInside
<1>1. CASE source \in Notices!Live
  <2>1. asStreams[source] \in Notices!StreamObject
    BY <1>1
  <2>2. /\ new \in Notices!StreamObject
        /\ new.position = asStreams[source].size /\ new.size = asStreams[source].size
        /\ new.expanded = asStreams[source].expanded
    BY <2>1 DEF Notices!StreamObject
  <2>3. Notices!Drained(s) = [asStreams EXCEPT ![source] = new]
    BY <1>1 DEF Notices!Drained
  <2>4. asStreams[source].size <= asStreams[source].size
    BY <2>1 DEF Notices!StreamObject
  <2> HIDE DEF new, source
  <2> QED
    BY <1>1, <2>2, <2>3, <2>4
<1>2. CASE source \notin Notices!Live
  BY <1>2 DEF Notices!Drained
<1> QED
  BY <1>1, <1>2

LEMMA ReadKeeps ==
    ASSUME Sizes \subseteq Nat, Notices!StreamInv, NEW s, NEW want \in Nat, Notices!Read(s, want)
    PROVE  Notices!StreamInv'
<1>1. s \in Notices!Live /\ UNCHANGED <<asPending, asBatch, asInside, asNotices>>
  BY DEF Notices!Read
<1>2. Notices!Live \subseteq Streams /\ asStreams \in [Notices!Live -> Notices!StreamObject]
  BY DEF Notices!StreamInv, Notices!StreamsInside
<1>d. /\ Notices!Drained(s) \in [Notices!Live -> Notices!StreamObject] /\ Notices!Drained(s)[s] \in Notices!StreamObject
      /\ \A t \in Notices!Live :
                         /\ Notices!Drained(s)[t].position <= Notices!Drained(s)[t].size
                         /\ Notices!Drained(s)[t].size = asStreams[t].size
                         /\ Notices!Drained(s)[t].expanded = asStreams[t].expanded
  BY <1>1, DrainedInside
<1>3. CASE Notices!Reading(asStreams, s, want)
  <2>1. Notices!Live' = Notices!Live /\ Notices!StreamsInside' /\ Notices!ReadsWithin'
    BY <1>1, <1>2, <1>3, ReadingKeeps DEF Notices!StreamInv, Notices!StreamsInside
  <2> QED
    BY <1>1, <2>1, NoticesUntouched
<1>4. ASSUME asLast' = [Notices!NoRead EXCEPT !.got = 0 - 1]
      PROVE  Notices!ReadsWithin'
  BY <1>4 DEF Notices!NoRead, Notices!ReadsWithin
<1>5. CASE asLast' = [Notices!NoRead EXCEPT !.got = 0 - 1] /\ UNCHANGED asStreams
  <2>1. Notices!Live' = Notices!Live /\ Notices!StreamsInside'
    BY <1>5 DEF Notices!Live, Notices!StreamInv, Notices!StreamsInside
  <2> QED
    BY <1>1, <1>4, <1>5, <2>1, NoticesUntouched
<1>6. CASE
           /\ ~(~Notices!IsUnzip(s) \/ asStreams[s].expanded)
           /\ asStreams' = [Notices!Drained(s) EXCEPT ![s].attempted = TRUE]
           /\ asLast' = [Notices!NoRead EXCEPT !.got = 0 - 1]
  <2> DEFINE new == [Notices!Drained(s)[s] EXCEPT !.attempted = TRUE]
  <2>1. /\ new \in Notices!StreamObject
        /\ new.position = Notices!Drained(s)[s].position /\ new.size = Notices!Drained(s)[s].size
        /\ new.expanded = Notices!Drained(s)[s].expanded
    BY <1>d DEF Notices!StreamObject
  <2>2. asStreams' = [Notices!Drained(s) EXCEPT ![s] = new]
    BY <1>6
  <2> HIDE DEF new
  <2>3. Notices!Live' = Notices!Live /\ asStreams' \in [Notices!Live -> Notices!StreamObject]
    BY <1>1, <2>1, <2>2, <1>d DEF Notices!Live
  <2>4. \A t \in Notices!Live : asStreams'[t] = IF t = s THEN new ELSE Notices!Drained(s)[t]
    BY <1>1, <2>2, <1>d
  <2>5. Notices!StreamsInside'
    BY <1>1, <2>1, <2>3, <2>4, <1>d DEF Notices!StreamsInside, Notices!StreamInv
  <2> QED
    BY <1>1, <1>4, <1>6, <2>3, <2>5, NoticesUntouched
<1>7. ASSUME NEW size \in Sizes, ~(~Notices!IsUnzip(s) \/ asStreams[s].expanded),
             Notices!Reading([Notices!Drained(s) EXCEPT ![s].attempted = TRUE, ![s].expanded = TRUE,
                                        ![s].size = size], s, want)
      PROVE  Notices!StreamInv'
  <2> DEFINE new == [Notices!Drained(s)[s] EXCEPT !.attempted = TRUE, !.expanded = TRUE, !.size = size]
             from == [Notices!Drained(s) EXCEPT ![s] = new]
  <2>1. /\ new \in Notices!StreamObject
        /\ new.position = Notices!Drained(s)[s].position /\ new.size = size /\ new.expanded = TRUE
    BY <1>d DEF Notices!StreamObject
  <2>2. Notices!Drained(s)[s].position = 0
    <3>1. asStreams[s].size = 0
      BY <1>1, <1>7 DEF Notices!StreamInv, Notices!StreamsInside
    <3>2. Notices!Drained(s)[s].position <= 0 /\ Notices!Drained(s)[s].position \in Nat
      BY <1>1, <3>1, <1>d DEF Notices!StreamObject
    <3> QED
      BY <3>2
  <2>3. new.position <= new.size
    BY <2>1, <2>2
  <2>4. from = [Notices!Drained(s) EXCEPT ![s].attempted = TRUE, ![s].expanded = TRUE, ![s].size = size]
    BY <1>1, <1>d
  <2> HIDE DEF new
  <2>5. from \in [Notices!Live -> Notices!StreamObject] /\ \A t \in Notices!Live : from[t] = IF t = s THEN new ELSE Notices!Drained(s)[t]
    BY <1>1, <2>1, <1>d
  <2>6. \A t \in Notices!Live :
                        /\ from[t].position <= from[t].size
                        /\ Notices!IsUnzip(t) /\ ~from[t].expanded => from[t].size = 0
    BY <1>1, <2>1, <2>3, <2>5, <1>d DEF Notices!StreamInv, Notices!StreamsInside
  <2>7. Notices!Reading(from, s, want)
    BY <1>7, <2>4
  <2> HIDE DEF from
  <2>8. Notices!Live' = Notices!Live /\ Notices!StreamsInside' /\ Notices!ReadsWithin'
    BY <1>1, <1>2, <2>5, <2>6, <2>7, ReadingKeeps
  <2> QED
    BY <1>1, <2>8, NoticesUntouched
<1> QED
  BY <1>3, <1>5, <1>6, <1>7 DEF Notices!Read

(* Notices leave the queue, those that stay as they were.                  *)
LEMMA QueueKept ==
    ASSUME NEW S, NEW q \in Seq(S), Notices!Distinct(q), NEW I \in SUBSET DOMAIN q,
           NEW r \in Notices!Kept(q, I)
    PROVE  /\ r \in Seq(S) /\ Notices!Distinct(r)
           /\ Notices!Elems(r) \subseteq Notices!Elems(q)
           /\ \A e \in Notices!Elems(r) : \E i \in I : q[i] = e
<1>1. r \in Seq(S)
  BY NoticeKeptType
<1>2. \A e \in Notices!Elems(r) : \E i \in I : q[i] = e
  BY NoticeKeptElems
<1>3. Notices!Elems(r) \subseteq Notices!Elems(q)
  BY <1>2 DEF Notices!Elems
<1>4. Notices!Distinct(r)
  <2> SUFFICES ASSUME NEW j \in DOMAIN r, NEW k \in DOMAIN r, j # k
               PROVE  r[j] # r[k]
    BY DEF Notices!Distinct
  <2>1. PICK m, n \in I : m # n /\ r[j] = q[m] /\ r[k] = q[n]
    BY NoticeKeptInjective
  <2> QED
    BY <2>1 DEF Notices!Distinct
<1> QED
  BY <1>1, <1>2, <1>3, <1>4

LEMMA ReleaseKeeps == \A s : Notices!StreamInv /\ Notices!Release(s) => Notices!StreamInv'
<1> SUFFICES ASSUME Notices!StreamInv, NEW s, Notices!Release(s)
             PROVE  Notices!StreamInv'
  OBVIOUS
<1>1. s \in Notices!Live /\ UNCHANGED <<asBatch, asInside, asLast>>
  BY DEF Notices!Release
<1>2. Notices!Live \subseteq Streams /\ asStreams \in [Notices!Live -> Notices!StreamObject] /\ asStreams[s] \in Notices!StreamObject
  BY <1>1 DEF Notices!StreamInv, Notices!StreamsInside
<1>3. Notices!ReadsWithin'
  BY <1>1 DEF Notices!StreamInv, Notices!ReadsWithin
<1>4. CASE asStreams[s].refs > 1
  <2> DEFINE new == [asStreams[s] EXCEPT !.refs = @ - 1]
  <2>1. asStreams[s].refs - 1 \in Nat
    BY <1>2, <1>4 DEF Notices!StreamObject
  <2>2. /\ new \in Notices!StreamObject
        /\ new.position = asStreams[s].position /\ new.size = asStreams[s].size
        /\ new.expanded = asStreams[s].expanded
    BY <1>2, <2>1 DEF Notices!StreamObject
  <2>3. asStreams' = [asStreams EXCEPT ![s] = new] /\ UNCHANGED <<asPending, asNotices>>
    BY <1>4 DEF Notices!Release
  <2> HIDE DEF new
  <2>4. Notices!Live' = Notices!Live /\ Notices!StreamsInside'
    BY <1>1, <1>2, <2>2, <2>3 DEF Notices!Live, Notices!StreamInv, Notices!StreamsInside
  <2> QED
    BY <1>1, <1>3, <2>3, <2>4, NoticesUntouched
<1>5. CASE ~(asStreams[s].refs > 1)
  <2> DEFINE I == {i \in DOMAIN asPending : asNotices[asPending[i]].stream # s}
             ns == {n \in DOMAIN asNotices : asNotices[n].stream = s /\ asNotices[n].fate = "asked"}
  <2>1. asStreams' = Notices!Without(s) /\ asPending' \in Notices!Kept(asPending, I) /\ asNotices' = Notices!Fate(ns, "released")
    BY <1>5 DEF Notices!Release
  <2>2. Notices!Live' = Notices!Live \ {s} /\ \A t \in Notices!Live' : asStreams'[t] = asStreams[t]
    BY <2>1 DEF Notices!Without, Notices!Live
  <2>3. Notices!StreamsInside'
    <3>1. asStreams' \in [Notices!Live' -> Notices!StreamObject]
      BY <1>2, <2>1, <2>2 DEF Notices!Without
    <3> QED
      BY <1>2, <2>2, <3>1 DEF Notices!StreamInv, Notices!StreamsInside
  <2>4. /\ asNotices' \in Seq(Notices!Notice) /\ DOMAIN asNotices' = DOMAIN asNotices
        /\ \A n \in DOMAIN asNotices :
                                     /\ asNotices'[n].stream = asNotices[n].stream
                                     /\ n \notin ns => asNotices'[n] = asNotices[n]
    BY <2>1, Fated DEF Notices!StreamInv
  <2>5. I \in SUBSET DOMAIN asPending /\ asPending \in Seq(DOMAIN asNotices) /\ Notices!Distinct(asPending)
    BY DEF Notices!StreamInv, Notices!NoticesApart
  <2>6. /\ asPending' \in Seq(DOMAIN asNotices) /\ Notices!Distinct(asPending')
        /\ Notices!Elems(asPending') \subseteq Notices!Elems(asPending)
        /\ \A e \in Notices!Elems(asPending') : \E i \in I : asPending[i] = e
    BY <2>1, <2>5, QueueKept
  <2>7. Notices!NoticesApart'
    <3>1. Notices!Elems(asBatch') = Notices!Elems(asBatch)
      BY <1>1
    <3> QED
      BY <1>1, <2>4, <2>6, <3>1 DEF Notices!StreamInv, Notices!NoticesApart
  <2>8. Notices!Elems(asPending) \cup Notices!Elems(asBatch) \subseteq DOMAIN asNotices
    BY NoticeElemsType DEF Notices!StreamInv, Notices!NoticesApart
  <2>9. \A n \in Notices!Elems(asPending') \cup Notices!Elems(asBatch') : Notices!StillAsked(n)'
    <3> SUFFICES ASSUME NEW n \in Notices!Elems(asPending') \cup Notices!Elems(asBatch')
                 PROVE  Notices!StillAsked(n)'
      OBVIOUS
    <3>1. n \in DOMAIN asNotices /\ Notices!StillAsked(n)
      BY <1>1, <2>6, <2>8 DEF Notices!StreamInv
    <3>2. CASE n \in ns
      BY <2>2, <2>4, <3>1, <3>2 DEF Notices!StillAsked
    <3>3. CASE n \notin ns
      BY <2>2, <2>4, <3>1, <3>3 DEF Notices!StillAsked
    <3> QED
      BY <3>2, <3>3
  <2> QED
    BY <1>3, <2>3, <2>4, <2>7, <2>9 DEF Notices!StreamInv
<1> QED
  BY <1>4, <1>5

LEMMA CancelKeeps == \A s, user : Notices!StreamInv /\ Notices!Cancel(s, user) => Notices!StreamInv'
<1> SUFFICES ASSUME Notices!StreamInv, NEW s, NEW user, Notices!Cancel(s, user)
             PROVE  Notices!StreamInv'
  OBVIOUS
<1> DEFINE I == {i \in DOMAIN asPending : ~Notices!Named(asPending[i], s, user)}
           ns == {n \in Notices!Elems(asPending) : Notices!Named(n, s, user)}
<1>1. /\ UNCHANGED <<asStreams, asBatch, asInside, asLast>>
      /\ asPending' \in Notices!Kept(asPending, I) /\ asNotices' = Notices!Fate(ns, "cancelled")
  BY DEF Notices!Cancel
<1>2. Notices!Live' = Notices!Live /\ Notices!StreamsInside' /\ Notices!ReadsWithin'
  BY <1>1 DEF Notices!Live, Notices!StreamInv, Notices!StreamsInside, Notices!ReadsWithin
<1>3. /\ asNotices' \in Seq(Notices!Notice) /\ DOMAIN asNotices' = DOMAIN asNotices
      /\ \A n \in DOMAIN asNotices :
                                   /\ asNotices'[n].stream = asNotices[n].stream
                                   /\ n \notin ns => asNotices'[n] = asNotices[n]
  BY <1>1, Fated DEF Notices!StreamInv
<1>4. I \in SUBSET DOMAIN asPending /\ asPending \in Seq(DOMAIN asNotices) /\ Notices!Distinct(asPending)
  BY DEF Notices!StreamInv, Notices!NoticesApart
<1>5. /\ asPending' \in Seq(DOMAIN asNotices) /\ Notices!Distinct(asPending')
      /\ Notices!Elems(asPending') \subseteq Notices!Elems(asPending)
      /\ \A e \in Notices!Elems(asPending') : \E i \in I : asPending[i] = e
  BY <1>1, <1>4, QueueKept
<1>6. Notices!Elems(asBatch') = Notices!Elems(asBatch)
  BY <1>1
<1>7. Notices!NoticesApart'
  BY <1>1, <1>3, <1>5, <1>6 DEF Notices!StreamInv, Notices!NoticesApart
<1>8. Notices!Elems(asPending) \cup Notices!Elems(asBatch) \subseteq DOMAIN asNotices
  BY NoticeElemsType DEF Notices!StreamInv, Notices!NoticesApart
<1>9. \A n \in Notices!Elems(asPending') \cup Notices!Elems(asBatch') : n \notin ns
  BY <1>5, <1>6 DEF Notices!StreamInv, Notices!NoticesApart
<1>10. \A n \in Notices!Elems(asPending') \cup Notices!Elems(asBatch') : Notices!StillAsked(n)'
  <2> SUFFICES ASSUME NEW n \in Notices!Elems(asPending') \cup Notices!Elems(asBatch')
               PROVE  Notices!StillAsked(n)'
    OBVIOUS
  <2>1. n \in DOMAIN asNotices /\ Notices!StillAsked(n)
    BY <1>5, <1>6, <1>8 DEF Notices!StreamInv
  <2> QED
    BY <1>2, <1>3, <1>9, <2>1 DEF Notices!StillAsked
<1> QED
  BY <1>2, <1>3, <1>7, <1>10 DEF Notices!StreamInv

LEMMA ReadableKeeps ==
    ASSUME NEW s \in Streams, NEW user \in {"x", "y"}, Notices!StreamInv, Notices!Readable(s, user)
    PROVE  Notices!StreamInv'
<1> DEFINE n == Len(asNotices) + 1
           new == [stream |-> s, user |-> user,
                   fate |-> IF s \in Notices!Live THEN "asked" ELSE "released"]
<1>1. /\ UNCHANGED <<asStreams, asBatch, asInside, asLast>>
      /\ asNotices' = Append(asNotices, new) /\ asPending' = Append(asPending, n)
  BY DEF Notices!Readable
<1>2. Notices!Live' = Notices!Live /\ Notices!StreamsInside' /\ Notices!ReadsWithin'
  BY <1>1 DEF Notices!Live, Notices!StreamInv, Notices!StreamsInside, Notices!ReadsWithin
<1>3. new \in Notices!Notice /\ (new.fate = "asked" \/ new.stream \notin Notices!Live)
  BY DEF Notices!Notice
<1> HIDE DEF new
<1>4. /\ asNotices' \in Seq(Notices!Notice) /\ n \notin DOMAIN asNotices
      /\ DOMAIN asNotices' = DOMAIN asNotices \cup {n}
      /\ asNotices'[n] = new /\ \A m \in DOMAIN asNotices : asNotices'[m] = asNotices[m]
  BY <1>1, <1>3 DEF Notices!StreamInv
<1> HIDE DEF n
<1>5. /\ asPending \in Seq(DOMAIN asNotices) /\ asBatch \in Seq(DOMAIN asNotices)
      /\ Notices!Elems(asPending) \cup Notices!Elems(asBatch) \subseteq DOMAIN asNotices
  BY NoticeElemsType DEF Notices!StreamInv, Notices!NoticesApart
<1>6. asPending \in Seq(DOMAIN asNotices') /\ asBatch \in Seq(DOMAIN asNotices')
  BY <1>4, <1>5
<1>7. /\ asPending' \in Seq(DOMAIN asNotices') /\ Notices!Distinct(asPending')
      /\ Notices!Elems(asPending') = Notices!Elems(asPending) \cup {n}
  BY <1>1, <1>4, <1>5, <1>6, NoticePushNew DEF Notices!StreamInv, Notices!NoticesApart
<1>8. Notices!Elems(asBatch') = Notices!Elems(asBatch)
  BY <1>1
<1>9. Notices!NoticesApart'
  BY <1>1, <1>4, <1>5, <1>6, <1>7, <1>8 DEF Notices!StreamInv, Notices!NoticesApart
<1>10. \A m \in Notices!Elems(asPending') \cup Notices!Elems(asBatch') : Notices!StillAsked(m)'
  BY <1>2, <1>3, <1>4, <1>5, <1>7, <1>8 DEF Notices!StreamInv, Notices!StillAsked
<1> QED
  BY <1>2, <1>4, <1>9, <1>10 DEF Notices!StreamInv

LEMMA BeginTickKeeps == Notices!StreamInv /\ Notices!BeginTick => Notices!StreamInv'
<1> SUFFICES ASSUME Notices!StreamInv, Notices!BeginTick
             PROVE  Notices!StreamInv'
  OBVIOUS
<1>1. /\ UNCHANGED <<asStreams, asInside, asNotices, asLast>>
      /\ asBatch' = asPending /\ asPending' = <<>>
  BY DEF Notices!BeginTick
<1>2. Notices!Live' = Notices!Live /\ Notices!StreamsInside' /\ Notices!ReadsWithin'
  BY <1>1 DEF Notices!Live, Notices!StreamInv, Notices!StreamsInside, Notices!ReadsWithin
<1>3. asPending' \in Seq(DOMAIN asNotices) /\ Notices!Distinct(asPending') /\ Notices!Elems(asPending') = {}
  <2>1. <<>> \in Seq(DOMAIN asNotices) /\ \A i : i \notin DOMAIN <<>>
    OBVIOUS
  <2> QED
    BY <1>1, <2>1 DEF Notices!Distinct, Notices!Elems
<1>4. Notices!Elems(asBatch') = Notices!Elems(asPending) /\ (Notices!Distinct(asBatch') <=> Notices!Distinct(asPending))
  BY <1>1
<1>5. Notices!NoticesApart'
  BY <1>1, <1>3, <1>4 DEF Notices!StreamInv, Notices!NoticesApart
<1>6. \A n \in Notices!Elems(asPending') \cup Notices!Elems(asBatch') : Notices!StillAsked(n)'
  BY <1>1, <1>2, <1>3, <1>4 DEF Notices!StreamInv, Notices!StillAsked
<1> QED
  BY <1>1, <1>2, <1>5, <1>6 DEF Notices!StreamInv

LEMMA NextNoticeKeeps == Notices!StreamInv /\ Notices!NextNotice => Notices!StreamInv'
<1> SUFFICES ASSUME Notices!StreamInv, Notices!NextNotice
             PROVE  Notices!StreamInv'
  OBVIOUS
<1> DEFINE n == Head(asBatch)
           calls == asNotices[n].stream \in Notices!Live
<1>1. /\ UNCHANGED <<asStreams, asPending, asLast>> /\ asBatch # <<>>
      /\ asBatch' = Tail(asBatch) /\ asInside' = IF calls THEN n ELSE 0
      /\ asNotices' = IF calls /\ asNotices[n].fate = "asked" THEN Notices!Fate({n}, "called")
                    ELSE IF calls THEN Notices!Fate({n}, "again") ELSE asNotices
  BY DEF Notices!NextNotice
<1>2. Notices!Live' = Notices!Live /\ Notices!StreamsInside' /\ Notices!ReadsWithin'
  BY <1>1 DEF Notices!Live, Notices!StreamInv, Notices!StreamsInside, Notices!ReadsWithin
<1>3. asBatch \in Seq(DOMAIN asNotices) /\ Notices!Distinct(asBatch)
  BY DEF Notices!StreamInv, Notices!NoticesApart
<1>4. /\ n \in Notices!Elems(asBatch) /\ Notices!Elems(asBatch) = Notices!Elems(Tail(asBatch)) \cup {n}
      /\ n \in DOMAIN asNotices /\ Tail(asBatch) \in Seq(DOMAIN asNotices)
  BY <1>1, <1>3, NoticeTailElems, NoticePopElems
<1>5. Notices!Distinct(Tail(asBatch)) /\ n \notin Notices!Elems(Tail(asBatch))
  <2>1. DOMAIN Tail(asBatch) = 1..Len(asBatch) - 1 /\ Len(asBatch) \in Nat /\ Len(asBatch) >= 1
    BY <1>1, <1>3
  <2>2. /\ \A i \in 1..Len(asBatch) - 1 : Tail(asBatch)[i] = asBatch[i + 1]
        /\ n = asBatch[1] /\ DOMAIN asBatch = 1..Len(asBatch)
    BY <1>1, <1>3
  <2> QED
    BY <1>3, <2>1, <2>2 DEF Notices!Distinct, Notices!Elems
<1> HIDE DEF n
<1>6. Notices!StillAsked(n)
  BY <1>4 DEF Notices!StreamInv
<1>7. /\ asNotices' \in Seq(Notices!Notice) /\ DOMAIN asNotices' = DOMAIN asNotices
      /\ \A m \in DOMAIN asNotices :
                                   /\ asNotices'[m].stream = asNotices[m].stream
                                   /\ m # n => asNotices'[m] = asNotices[m]
  <2>1. CASE calls
    <3>1. asNotices' = Notices!Fate({n}, "called")
      BY <1>1, <1>6, <2>1 DEF Notices!StillAsked
    <3> QED
      BY <3>1, Fated DEF Notices!StreamInv
  <2>2. CASE ~calls
    BY <1>1, <2>2 DEF Notices!StreamInv
  <2> QED
    BY <2>1, <2>2
<1>8. n \notin Notices!Elems(asPending) /\ Notices!Elems(asPending) \subseteq DOMAIN asNotices
  BY <1>4, NoticeElemsType DEF Notices!StreamInv, Notices!NoticesApart
<1>9. Notices!Elems(asPending') = Notices!Elems(asPending) /\ Notices!Elems(asBatch') \subseteq Notices!Elems(asBatch) \ {n}
  BY <1>1, <1>4, <1>5
<1>10. Notices!NoticesApart'
  BY <1>1, <1>3, <1>4, <1>5, <1>7, <1>9 DEF Notices!StreamInv, Notices!NoticesApart
<1>11. Notices!Elems(asBatch) \subseteq DOMAIN asNotices
  BY <1>3, NoticeElemsType
<1>12. \A m \in Notices!Elems(asPending') \cup Notices!Elems(asBatch') : Notices!StillAsked(m)'
  BY <1>2, <1>7, <1>8, <1>9, <1>11 DEF Notices!StreamInv, Notices!StillAsked
<1> QED
  BY <1>2, <1>7, <1>10, <1>12 DEF Notices!StreamInv

LEMMA CallbackReturnsKeeps == Notices!StreamInv /\ Notices!CallbackReturns => Notices!StreamInv'
<1> SUFFICES ASSUME Notices!StreamInv, Notices!CallbackReturns
             PROVE  Notices!StreamInv'
  OBVIOUS
<1>1. asInside' = 0 /\ UNCHANGED <<asStreams, asPending, asBatch, asNotices, asLast>>
  BY DEF Notices!CallbackReturns
<1>2. Notices!Live' = Notices!Live /\ Notices!StreamsInside' /\ Notices!ReadsWithin' /\ Notices!NoticesApart'
  BY <1>1 DEF Notices!Live, Notices!StreamInv, Notices!StreamsInside, Notices!ReadsWithin, Notices!NoticesApart
<1> QED
  BY <1>1, <1>2 DEF Notices!StreamInv, Notices!StillAsked

LEMMA StreamInvStays ==
    ASSUME Sizes \subseteq Nat, Notices!StreamInv, [Notices!StreamNext]_Notices!streamVars
    PROVE  Notices!StreamInv'
<1>1. ASSUME NEW s \in Streams, NEW user \in {"x", "y"}, Notices!Readable(s, user)
      PROVE  Notices!StreamInv'
  BY <1>1, ReadableKeeps
<1>2. ASSUME NEW s, \/ Notices!AddRef(s) \/ Notices!Release(s) \/ Notices!Cancel(s, "x") \/ Notices!Cancel(s, "any")
      PROVE  Notices!StreamInv'
  BY <1>2, AddRefKeeps, ReleaseKeeps, CancelKeeps
<1>3. ASSUME NEW s, NEW size \in Sizes, NEW offset \in Sizes, Notices!Set(s, size, offset)
      PROVE  Notices!StreamInv'
  <2>1. size \in Nat /\ offset \in Nat
    OBVIOUS
  <2> QED
    BY <1>3, <2>1, SetKeeps
<1>4. ASSUME NEW s, NEW source \in Streams, Notices!SetStream(s, source)
      PROVE  Notices!StreamInv'
  BY <1>4, SetStreamKeeps
<1>5. ASSUME NEW s, NEW want \in Sizes, Notices!Read(s, want)
      PROVE  Notices!StreamInv'
  <2>1. want \in Nat
    OBVIOUS
  <2> QED
    BY <1>5, <2>1, ReadKeeps
<1>6. CASE Notices!Guest
  BY <1>1, <1>2, <1>3, <1>4, <1>5, <1>6 DEF Notices!Guest
<1>7. CASE Notices!StreamTick
  BY <1>7, BeginTickKeeps, NextNoticeKeeps, CallbackReturnsKeeps DEF Notices!StreamTick
<1>8. CASE UNCHANGED Notices!streamVars
  <2>1. /\ UNCHANGED <<asStreams, asPending, asBatch, asInside, asNotices, asLast>> /\ Notices!Live' = Notices!Live
    BY <1>8 DEF Notices!streamVars, Notices!Live
  <2>2. Notices!StreamsInside' /\ Notices!ReadsWithin'
    BY <2>1 DEF Notices!StreamInv, Notices!StreamsInside, Notices!ReadsWithin
  <2> QED
    BY <2>1, <2>2, NoticesUntouched
<1> QED
  BY <1>6, <1>7, <1>8 DEF Notices!StreamNext

LEMMA StreamTypesHold == Notices!StreamInv => Notices!StreamTypeOK
<1> SUFFICES ASSUME Notices!StreamInv
             PROVE  Notices!StreamTypeOK
  OBVIOUS
<1>1. Notices!Elems(asPending) \cup Notices!Elems(asBatch) \subseteq DOMAIN asNotices
  BY NoticeElemsType DEF Notices!StreamInv, Notices!NoticesApart
<1>2. \A s \in Notices!Live : asStreams[s].position \in 0 .. asStreams[s].size
  BY DEF Notices!StreamInv, Notices!StreamsInside, Notices!StreamObject
<1> QED
  BY <1>1, <1>2 DEF Notices!StreamInv, Notices!StreamsInside, Notices!NoticesApart, Notices!StreamTypeOK

LEMMA AnsweredByInv == Notices!StreamInv => Notices!AnsweredOnce
<1> SUFFICES ASSUME Notices!StreamInv
             PROVE  Notices!AnsweredOnce
  OBVIOUS
<1>1. \A n \in DOMAIN asNotices : asNotices[n] \in Notices!Notice
  BY DEF Notices!StreamInv
<1>2. \A n \in DOMAIN asNotices : asNotices[n].fate # "again"
  BY <1>1 DEF Notices!Notice
<1> QED
  BY <1>2 DEF Notices!StreamInv, Notices!ReadsWithin, Notices!AnsweredOnce

(* However the title asks, cancels and releases inside a callback or       *)
(* between two ticks, a notice is called at most once and never after its  *)
(* stream or its request is gone (MemAStreamHle::Tick, Cancel, Release).   *)
THEOREM NoticesAnsweredOnce ==
    ASSUME Sizes \subseteq Nat
    PROVE  Notices!StreamSpec => []Notices!AnsweredOnce
  BY AnsweredByInv, StreamInvInitially, StreamInvStays, PTL DEF Notices!StreamSpec

-----------------------------------------------------------------------------
(* The control server. *)

LEMMA Bounds == MaxRequests \in Nat \ {0} /\ MaxTicks \in Nat \ {0} /\ MaxLines \in Nat \ {0}
  BY ControlAssumption

LEMMA ControlInitially == ControlInit => ControlInv
<1> SUFFICES ASSUME ControlInit
             PROVE  ControlInv
  OBVIOUS
<1>1. Len(batch) = 0 /\ Len(queue) = 0 /\ Len(wire) = 0 /\ Len(buf) = 0
  BY DEF ControlInit
<1>2. ControlTypeOK
  <2>1. wire \in Seq(Commands) /\ buf \in Seq(Commands)
    BY DEF ControlInit
  <2>2. queue \in Seq(Request) /\ batch \in Seq(Request)
    BY DEF ControlInit
  <2>3. executed \in [Requests -> Nat] /\ fulfilled \in [Requests -> Nat]
    BY DEF ControlInit
  <2>4. sent \in 0..MaxRequests /\ ticksLeft \in 0..MaxTicks /\ Len(wire) + Len(buf) <= MaxLines
    BY <1>1, Bounds DEF ControlInit
  <2> QED
    BY <2>1, <2>2, <2>3, <2>4 DEF ControlInit, ControlTypeOK, None
<1>3. InLine /\ Answered
  BY <1>1 DEF ControlInit, InLine, Answered, Taken, Requests, None, At
<1> QED
  BY <1>2, <1>3 DEF ControlInv

(* Bytes move from the front of the wire to the end of the buffer. *)
LEMMA Moved ==
    ASSUME NEW S, NEW w \in Seq(S), NEW b \in Seq(S), NEW n \in 1..Len(w)
    PROVE  /\ SubSeq(w, n + 1, Len(w)) \in Seq(S)
           /\ Len(SubSeq(w, n + 1, Len(w))) = Len(w) - n
           /\ b \o SubSeq(w, 1, n) \in Seq(S)
           /\ Len(b \o SubSeq(w, 1, n)) = Len(b) + n
<1>1. SubSeq(w, 1, n) \in Seq(S) /\ Len(SubSeq(w, 1, n)) = n
  OBVIOUS
<1>2. SubSeq(w, n + 1, Len(w)) \in Seq(S) /\ Len(SubSeq(w, n + 1, Len(w))) = Len(w) - n
  OBVIOUS
<1> QED
  BY <1>1, <1>2

(* The actions of the controller, and those of the server's thread that neither
   queue a request nor begin to wait for one. *)
LEMMA TalkKeeps ==
    ASSUME ControlInv,
           \/ Controller \/ Accept \/ AcceptLoopEnds \/ Top \/ NoMoreRequests \/ LinesDone
           \/ Receive \/ WaitEnds \/ Write
    PROVE  ControlInv'
<1> USE DEF ControlInv
<1>1. /\ UNCHANGED <<sent, queue, batch, step, executed, fulfilled, main, up, running, quit>>
      /\ UNCHANGED ticksLeft
  BY DEF Controller, Connect, SendLine, Close, Accept, AcceptLoopEnds, Top, NoMoreRequests,
         LinesDone, Receive, WaitEnds, Write, Hangup, loopVars, threadVars, peerVars
<1>2. At("wait")' => At("wait") /\ req' = req
  BY DEF Controller, Connect, SendLine, Close, Accept, AcceptLoopEnds, Top, NoMoreRequests,
         LinesDone, Receive, WaitEnds, Write, Hangup, loopVars, threadVars, peerVars,
         At, ThreadGoes
<1>3. InLine' /\ Answered'
  BY <1>1, <1>2 DEF InLine, Answered, Taken
<1>4. ControlTypeOK'
  <2> USE ControlAssumption DEF ControlTypeOK, threadVars, peerVars, loopVars, ThreadGoes,
                                Hangup, At, Request
  <2>1. CASE Connect \/ Close \/ Accept \/ AcceptLoopEnds \/ LinesDone \/ WaitEnds
    BY <2>1, <1>1 DEF Connect, Close, Accept, AcceptLoopEnds, LinesDone, WaitEnds
  <2>2. CASE SendLine
    BY <2>2, <1>1 DEF SendLine
  <2>3. <<>> \in Seq(Commands) /\ Len(<<>>) = 0
    OBVIOUS
  <2>4. CASE Hangup /\ UNCHANGED <<up, req, sent, queue, loopVars, fulfilled>>
    BY <2>3, <2>4, <1>1
  <2>5. CASE NoMoreRequests
    BY <2>3, <2>5, <1>1 DEF NoMoreRequests
  <2>6. CASE (Top \/ Write) /\ ~Hangup
    BY <2>6, <1>1 DEF Top, Write
  <2>7. CASE Receive /\ ~Hangup
    <3>1. PICK n \in 1..Len(wire) :
              buf' = buf \o SubSeq(wire, 1, n) /\ wire' = SubSeq(wire, n + 1, Len(wire))
      BY <2>7 DEF Receive
    <3>2. wire \in Seq(Commands) /\ buf \in Seq(Commands)
      OBVIOUS
    <3>m. /\ SubSeq(wire, n + 1, Len(wire)) \in Seq(Commands)
          /\ Len(SubSeq(wire, n + 1, Len(wire))) = Len(wire) - n
          /\ buf \o SubSeq(wire, 1, n) \in Seq(Commands)
          /\ Len(buf \o SubSeq(wire, 1, n)) = Len(buf) + n
      BY <3>2, Moved
    <3>3. wire' \in Seq(Commands) /\ Len(wire') = Len(wire) - n
      BY <3>1, <3>m
    <3>4. buf' \in Seq(Commands) /\ Len(buf') = Len(buf) + n
      BY <3>1, <3>m
    <3>5. server' = "top" /\ UNCHANGED <<up, req, client>>
      BY <2>7 DEF Receive
    <3>6. Len(wire') + Len(buf') <= MaxLines
      <4>1. PICK w \in Nat : w = Len(wire)
        BY <3>2
      <4>2. PICK b \in Nat : b = Len(buf)
        BY <3>2
      <4>3. Len(wire') = w - n /\ Len(buf') = b + n /\ w + b <= MaxLines /\ n \in 1..w
        BY <3>3, <3>4, <4>1, <4>2
      <4>4. (w - n) + (b + n) = w + b
        BY <4>1, <4>2, <4>3
      <4> QED
        BY <4>3, <4>4
    <3> QED
      BY <3>3, <3>4, <3>5, <3>6, <1>1
  <2> QED
    BY <2>1, <2>2, <2>4, <2>5, <2>6, <2>7 DEF Controller, Top, Write, Receive
<1> QED
  BY <1>3, <1>4

LEMMA DispatchKeeps ==
    ASSUME ControlInv, Dispatch
    PROVE  ControlInv'
<1> USE DEF ControlInv
<1>0. /\ sent \in Nat /\ sent <= MaxRequests
      /\ queue \in Seq(Request) /\ Len(queue) \in Nat /\ Len(batch) \in Nat
      /\ Len(buf) \in Nat /\ Len(wire) \in Nat /\ Len(wire) + Len(buf) <= MaxLines
  BY Bounds DEF ControlTypeOK
<1>1. Head(buf) \in Commands /\ buf' \in Seq(Commands) /\ Len(buf') = Len(buf) - 1
  BY DEF Dispatch, ControlTypeOK
<1>2. UNCHANGED <<batch, step, executed, fulfilled, main, up, running, quit, ticksLeft,
                  client, wire>>
  BY DEF Dispatch, loopVars, peerVars
<1>3. CASE Head(buf) = "bad" /\ server' = "write" /\ UNCHANGED <<req, sent, queue>>
  <2>1. ControlTypeOK'
    BY <1>0, <1>1, <1>2, <1>3, Bounds DEF ControlTypeOK
  <2>2. InLine' /\ Answered'
    BY <1>2, <1>3 DEF InLine, Answered, Taken, At
  <2> QED
    BY <2>1, <2>2
<1>4. CASE Head(buf) # "bad" /\ sent < MaxRequests
  <2> DEFINE q == <<sent + 1, Head(buf)>>
  <2>1. /\ sent' = sent + 1 /\ req' = sent + 1 /\ queue' = Append(queue, q)
        /\ server' = "wait"
    BY <1>4 DEF Dispatch, Enqueue, ThreadGoes
  <2>2. sent + 1 \in Requests /\ q \in Request
    BY <1>0, <1>1, <1>4, Bounds DEF Requests, Request
  <2>3. /\ queue \in Seq(Request) /\ queue' \in Seq(Request) /\ Len(queue') = Len(queue) + 1
        /\ \A i \in 1..Len(queue) : queue'[i] = queue[i]
        /\ queue'[Len(queue) + 1] = q
    BY <1>0, <2>1, <2>2
  <2>4. q[1] = sent + 1
    OBVIOUS
  <2> HIDE DEF q
  <2>5. ControlTypeOK'
    <3>1. req' \in Requests \cup {None} /\ sent' \in 0..MaxRequests
      <4>1. sent + 1 \in 0..MaxRequests
        BY <1>0, <1>4, Bounds
      <4> QED
        BY <2>1, <2>2, <4>1
    <3>2. buf' \in Seq(Commands) /\ Len(wire') + Len(buf') <= MaxLines
      <4>1. wire' = wire
        BY <1>2
      <4> QED
        BY <1>0, <1>1, <4>1, Bounds
    <3> QED
      BY <1>2, <2>1, <2>3, <3>1, <3>2 DEF ControlTypeOK
  <2>6. /\ Taken' = Taken /\ Taken < sent' /\ sent \in Nat /\ Len(batch) \in Nat
        /\ Len(queue) \in Nat /\ batch' = batch
    <3>1. PICK a \in Nat : a = Len(batch)
      BY <1>0
    <3>2. PICK b \in Nat : b = Len(queue)
      BY <1>0
    <3>3. sent \in Nat /\ sent' = sent + 1 /\ Len(queue') = b + 1 /\ batch' = batch
      BY <1>0, <1>2, <2>1, <2>3, <3>2
    <3>4. (sent + 1) - a - (b + 1) = sent - a - b /\ sent - a - b < sent + 1
      BY <3>1, <3>2, <3>3
    <3> QED
      BY <3>1, <3>2, <3>3, <3>4 DEF Taken
  <2>7. InLine'
    <3>1. \A i \in 1..Len(queue') : queue'[i][1] = Taken + Len(batch) + i
      <4>1. sent + 1 = Taken + Len(batch) + (Len(queue) + 1) /\ Taken \in Int
        BY <1>0 DEF Taken
      <4>2. \A i \in 1..Len(queue) : queue'[i][1] = Taken + Len(batch) + i
        BY <2>3 DEF InLine
      <4>3. \A i \in 1..Len(queue') : i \in 1..Len(queue) \/ i = Len(queue) + 1
        BY <1>0, <2>3
      <4> QED
        BY <2>3, <2>4, <4>1, <4>2, <4>3
    <3> QED
      BY <1>2, <2>6, <3>1 DEF InLine
  <2>8. Answered'
    BY <1>2, <2>1, <2>6 DEF Answered, At
  <2> QED
    BY <2>5, <2>7, <2>8
<1> QED
  BY <1>3, <1>4 DEF Dispatch, ThreadGoes

LEMMA DrainKeeps ==
    ASSUME ControlInv, DrainRequests
    PROVE  ControlInv'
<1> USE DEF ControlInv
<1>1. /\ batch = <<>> /\ batch' = queue /\ queue' = <<>> /\ main' = "exec"
      /\ UNCHANGED <<sent, step, executed, fulfilled, up, running, quit, ticksLeft,
                     server, req, buf, client, wire>>
  BY DEF DrainRequests, Drain, Answered, threadVars, peerVars
<1>2. Len(batch) = 0 /\ Len(queue') = 0 /\ queue' \in Seq(Request)
  BY <1>1
<1>3. ControlTypeOK'
  BY <1>1, <1>2 DEF ControlTypeOK
<1>4. sent \in Nat /\ Len(queue) \in Nat
  BY Bounds DEF ControlTypeOK
<1>5. Taken' = Taken /\ Taken \in Int
  BY <1>1, <1>2, <1>4 DEF Taken
<1>6. \A i \in 1..Len(batch') : batch'[i][1] = Taken + i
  BY <1>1, <1>2, <1>4, <1>5 DEF InLine
<1>7. InLine' /\ Answered'
  BY <1>1, <1>2, <1>5, <1>6 DEF InLine, Answered, At
<1> QED
  BY <1>3, <1>7

LEMMA ExecKeeps ==
    ASSUME ControlInv, Exec
    PROVE  ControlInv'
<1> USE DEF ControlInv
<1> DEFINE r == Head(batch)[1]
           c == Head(batch)[2]
<1>0. /\ sent \in Nat /\ sent <= MaxRequests /\ step \in Nat
      /\ batch \in Seq(Request) /\ batch # <<>>
      /\ Len(queue) \in Nat /\ Len(batch) \in Nat /\ Taken \in Nat
  <2>1. /\ sent \in Nat /\ sent <= MaxRequests /\ step \in Nat
        /\ batch \in Seq(Request) /\ queue \in Seq(Request) /\ batch # <<>>
    BY Bounds DEF ControlTypeOK, Exec, Requests, None
  <2>2. Len(queue) \in Nat /\ Len(batch) \in Nat
    BY <2>1
  <2> QED
    BY <2>1, <2>2 DEF Taken, InLine
<1>1. /\ batch' = Tail(batch) /\ executed' = [executed EXCEPT ![r] = @ + 1]
      /\ UNCHANGED <<sent, queue, main, up, running, server, req, buf, client, wire>>
  BY DEF Exec, threadVars, peerVars
<1>2. Head(batch) = batch[1] /\ Head(batch) \in Request
  BY <1>0
<1>3. /\ batch' \in Seq(Request) /\ Len(batch) >= 1 /\ Len(batch') = Len(batch) - 1
      /\ \A i \in 1..Len(batch') : batch'[i] = batch[i + 1]
  BY <1>0, <1>1
<1>4. r = Taken + 1 /\ r \in Requests
  BY <1>0, <1>2, <1>3 DEF InLine, Request
<1>5. Taken' = Taken + 1
  BY <1>0, <1>1, <1>3 DEF Taken
<1>6. \A i \in 1..Len(batch') : batch'[i][1] = Taken' + i
  <2> SUFFICES ASSUME NEW i \in 1..Len(batch')
               PROVE  batch'[i][1] = Taken' + i
    OBVIOUS
  <2>1. i + 1 \in 1..Len(batch) /\ batch'[i] = batch[i + 1]
    BY <1>0, <1>3
  <2>2. batch[i + 1][1] = Taken + (i + 1)
    BY <2>1 DEF InLine
  <2> QED
    BY <1>0, <1>5, <2>1, <2>2
<1>7. executed' \in [Requests -> Nat]
      /\ \A q \in Requests : executed'[q] = IF q <= Taken' THEN 1 ELSE 0
  <2>1. executed \in [Requests -> Nat] /\ \A q \in Requests : q \in Nat
    BY DEF ControlTypeOK, Requests
  <2>2. executed' \in [Requests -> Nat] /\ executed'[r] = executed[r] + 1
        /\ \A q \in Requests : q # r => executed'[q] = executed[q]
    BY <1>1, <1>4, <2>1
  <2> QED
    BY <1>0, <1>4, <1>5, <2>1, <2>2 DEF InLine
<1>8. InLine'
  <2>1. \A i \in 1..Len(queue) : queue[i][1] = Taken' + Len(batch') + i
    BY <1>0, <1>3, <1>5 DEF InLine
  <2> QED
    <3>1. queue' = queue /\ Taken' >= 0
      BY <1>0, <1>1, <1>5
    <3> QED
      BY <1>6, <1>7, <2>1, <3>1 DEF InLine
<1>9. fulfilled[r] = 0 /\ main = "exec"
  BY <1>0, <1>4 DEF Answered, Exec
<1> HIDE DEF r, c
<1>10. CASE c = "step" /\ step' = r /\ ticksLeft' \in 1..MaxTicks /\ UNCHANGED <<quit, fulfilled>>
  <2>0. step' \in Requests /\ ticksLeft' \in 0..MaxTicks
    BY <1>4, <1>10, Bounds
  <2>1. ControlTypeOK'
    <3>1. up' \in BOOLEAN /\ running' \in BOOLEAN /\ quit' \in BOOLEAN
      BY <1>1, <1>10, Zenon DEF ControlTypeOK
    <3>3. /\ server' = server /\ client' = client
          /\ wire' = wire /\ buf' = buf /\ req' = req /\ sent' = sent /\ queue' = queue
          /\ main' = main /\ fulfilled' = fulfilled
      BY <1>1, <1>10
    <3>2. batch' \in Seq(Request) /\ executed' \in [Requests -> Nat]
      BY <1>3, <1>7
    <3> QED
      BY <3>1, <3>2, <3>3, <2>0 DEF ControlTypeOK
  <2>2. Answered'
    BY <1>0, <1>1, <1>4, <1>5, <1>9, <1>10 DEF Answered, At
  <2> QED
    BY <1>8, <2>1, <2>2
<1>11. CASE Fulfil(r) /\ quit' = (quit \/ c = "quit") /\ UNCHANGED <<step, ticksLeft>>
  <2>1. fulfilled' \in [Requests -> Nat] /\ fulfilled'[r] = 1
        /\ \A q \in Requests : q # r => fulfilled'[q] = fulfilled[q]
    BY <1>4, <1>9, <1>11 DEF Fulfil, ControlTypeOK
  <2>2. ControlTypeOK'
    <3>1. up' \in BOOLEAN /\ running' \in BOOLEAN /\ quit' \in BOOLEAN
      BY <1>1, <1>11, Zenon DEF ControlTypeOK
    <3>2. batch' \in Seq(Request) /\ executed' \in [Requests -> Nat]
      BY <1>3, <1>7
    <3>3. /\ server' = server /\ client' = client
          /\ wire' = wire /\ buf' = buf /\ req' = req /\ sent' = sent /\ queue' = queue
          /\ main' = main /\ step' = step /\ ticksLeft' = ticksLeft
      BY <1>1, <1>11
    <3> QED
      BY <3>1, <3>2, <3>3, <2>1 DEF ControlTypeOK
  <2>3. Answered'
    <3>1. \A q \in Requests : fulfilled'[q] = 1 => q <= Taken + 1 /\ q # step
      BY <1>0, <1>4, <2>1 DEF Answered, Requests
    <3>2. \A q \in Requests : fulfilled'[q] \in 0..1
      BY <2>1 DEF Answered
    <3>3. step <= Taken + 1 /\ (sent > 0 /\ Taken + 1 = sent => fulfilled'[sent] = 1)
      BY <1>0, <1>4, <2>1 DEF Answered
    <3>4. At("wait")' => sent' > 0 /\ req' = sent'
      BY <1>1 DEF Answered, At
    <3> QED
      BY <1>1, <1>5, <1>9, <1>11, <3>1, <3>2, <3>3, <3>4 DEF Answered
  <2> QED
    BY <1>8, <2>2, <2>3
<1> QED
  BY <1>10, <1>11 DEF Exec, r, c

(* The actions of the main loop that take no request up. *)
LEMMA TurnKeeps ==
    ASSUME ControlInv, ExecDone \/ GuestAdvances \/ Stop \/ Join
    PROVE  ControlInv'
<1> USE DEF ControlInv
<1>1. /\ UNCHANGED <<sent, queue, batch, step, executed, fulfilled, server, req, buf, client, wire>>
      /\ main' # "exec" /\ (batch = <<>> \/ main # "exec")
  BY DEF ExecDone, GuestAdvances, Stop, Join, threadVars, peerVars
<1>2. InLine' /\ Answered'
  BY <1>1 DEF InLine, Answered, Taken, At
<1>3. ticksLeft' \in 0..MaxTicks
  <2>1. ticksLeft \in 0..MaxTicks
    BY DEF ControlTypeOK
  <2>2. CASE GuestAdvances
    BY <2>1, <2>2, Bounds DEF GuestAdvances
  <2> QED
    BY <2>1, <2>2 DEF ExecDone, Stop, Join
<1>4. /\ up' \in BOOLEAN /\ quit' \in BOOLEAN /\ running' \in BOOLEAN
      /\ main' \in {"guest", "finish", "joining", "done"}
  BY DEF ExecDone, GuestAdvances, Stop, Join, ControlTypeOK
<1> QED
  BY <1>1, <1>2, <1>3, <1>4 DEF ControlTypeOK

LEMMA IterationKeeps ==
    ASSUME ControlInv, IterationEnds
    PROVE  ControlInv'
<1> USE DEF ControlInv
<1>1. /\ UNCHANGED <<up, server, buf, req, client, wire, sent, queue, batch, ticksLeft, quit,
                     running, executed>>
      /\ main = "finish" /\ main' \in {"drain", "stop"}
  BY DEF IterationEnds, threadVars, peerVars
<1>2. InLine' /\ Taken' = Taken /\ Taken \in Int /\ sent \in Nat
  <2>1. sent \in Nat /\ Len(queue) \in Nat /\ Len(batch) \in Nat
    BY Bounds DEF ControlTypeOK
  <2>2. Taken' = Taken /\ Taken \in Int
    BY <1>1, <2>1 DEF Taken
  <2> QED
    BY <1>1, <2>1, <2>2 DEF InLine
<1>3. CASE UNCHANGED <<step, fulfilled>>
  BY <1>1, <1>2, <1>3 DEF ControlTypeOK, Answered, At
<1>4. CASE step # None /\ Fulfil(step) /\ step' = None
  <2>1. step \in Requests /\ fulfilled[step] = 0
    BY <1>4 DEF ControlTypeOK, Answered
  <2>2. /\ fulfilled' \in [Requests -> Nat] /\ fulfilled'[step] = 1
        /\ \A q \in Requests : q # step => fulfilled'[q] = fulfilled[q]
    BY <1>4, <2>1 DEF Fulfil, ControlTypeOK
  <2>3. ControlTypeOK'
    BY <1>1, <1>4, <2>2 DEF ControlTypeOK
  <2>4. 0 <= Taken /\ \A q \in Requests : q # 0
    BY DEF InLine, Requests
  <2>5. Answered'
    <3>1. \A q \in Requests : fulfilled'[q] = 1 => q <= Taken /\ q # 0
      BY <2>1, <2>2, <2>4 DEF Answered
    <3>2. \A q \in Requests : fulfilled'[q] \in 0..1
      BY <2>2 DEF Answered
    <3>3. sent > 0 /\ Taken = sent => fulfilled'[sent] = 1
      BY <2>1, <2>2 DEF Answered, ControlTypeOK, Requests
    <3> QED
      BY <1>1, <1>2, <1>4, <2>4, <3>1, <3>2, <3>3 DEF Answered, At, None
  <2> QED
    BY <1>2, <2>3, <2>5
<1> QED
  BY <1>3, <1>4 DEF IterationEnds, FinishStep

LEMMA ControlStep == ControlInv /\ [ControlNext]_controlVars => ControlInv'
<1> SUFFICES ASSUME ControlInv, [ControlNext]_controlVars
             PROVE  ControlInv'
  OBVIOUS
<1>1. CASE UNCHANGED controlVars
  BY <1>1 DEF controlVars, threadVars, peerVars, loopVars, ControlInv, ControlTypeOK, InLine,
              Answered, Taken, At
<1> QED
  BY <1>1, TalkKeeps, DispatchKeeps, DrainKeeps, ExecKeeps, TurnKeeps, IterationKeeps
  DEF ControlNext, ServerThread, MainLoop, Done

(* The requests stay in line and no answer is lost, in every reachable state
   (Enqueue, Drain, ControlExec). *)
THEOREM ControlInvariant == ControlSpec => []ControlInv
  BY ControlInitially, ControlStep, PTL DEF ControlSpec

(* Every variable keeps its type and bound. *)
THEOREM ControlTypesCorrect == ControlSpec => []ControlTypeOK
<1>1. ControlInv => ControlTypeOK
  BY DEF ControlInv
<1> QED
  BY <1>1, ControlInvariant, PTL

(* No promise is set twice, whatever steps and timeouts come between
   (ControlExec, the answer to a step). *)
THEOREM PromisesSetOnce == ControlSpec => []FulfilledOnce
<1>1. ControlInv => FulfilledOnce
  <2> SUFFICES ASSUME ControlInv, NEW r \in Requests
               PROVE  fulfilled[r] <= 1
    BY DEF FulfilledOnce
  <2>1. fulfilled[r] \in 0..1
    BY DEF ControlInv, Answered
  <2> QED
    BY <2>1
<1> QED
  BY <1>1, ControlInvariant, PTL

(* The request a connection waits for is in the queue, drained, the pending
   step or answered (Enqueue, Drain, ctl_step_req). *)
THEOREM NoWaiterForgotten == ControlSpec => []WaiterRemembered
<1>1. ControlInv => WaiterRemembered
  <2> SUFFICES ASSUME ControlInv, At("wait")
               PROVE  fulfilled[req] > 0 \/ In(req, queue) \/ In(req, batch) \/ step = req
    BY DEF WaiterRemembered
  <2>1. /\ sent \in Nat /\ sent > 0 /\ req = sent /\ queue \in Seq(Request)
        /\ batch \in Seq(Request)
    BY Bounds DEF ControlInv, ControlTypeOK, Answered
  <2>2. Len(queue) \in Nat /\ Len(batch) \in Nat /\ DOMAIN queue = 1..Len(queue)
        /\ DOMAIN batch = 1..Len(batch)
    BY <2>1
  <2>3. CASE Len(queue) > 0
    <3>1. Len(queue) \in DOMAIN queue /\ queue[Len(queue)][1] = sent
      BY <2>1, <2>2, <2>3 DEF ControlInv, InLine, Taken
    <3> QED
      BY <2>1, <3>1 DEF In
  <2>4. CASE Len(queue) = 0 /\ Len(batch) > 0
    <3>1. Len(batch) \in DOMAIN batch /\ batch[Len(batch)][1] = sent
      BY <2>1, <2>2, <2>4 DEF ControlInv, InLine, Taken
    <3> QED
      BY <2>1, <3>1 DEF In
  <2>5. CASE Len(queue) = 0 /\ Len(batch) = 0
    BY <2>1, <2>5 DEF ControlInv, Answered, Taken
  <2> QED
    BY <2>2, <2>3, <2>4, <2>5
<1> QED
  BY <1>1, ControlInvariant, PTL

(* Requests are executed in the order they were sent, also those whose sender
   no longer waits (Enqueue, Drain and the batch loop). *)
THEOREM RequestsInOrder == ControlSpec => []ExecutedInOrder
<1>1. ControlInv => ExecutedInOrder
  <2> SUFFICES ASSUME ControlInv, NEW r \in Requests, NEW q \in Requests, executed[r] > 0, q < r
               PROVE  executed[q] > 0
    BY DEF ExecutedInOrder
  <2>1. \A s \in Requests : executed[s] = IF s <= Taken THEN 1 ELSE 0
    BY DEF ControlInv, InLine
  <2>2. Taken \in Int
    BY DEF ControlInv, ControlTypeOK, Taken
  <2>3. r <= Taken
    BY <2>1
  <2>4. q <= Taken
    BY <2>2, <2>3 DEF Requests
  <2> QED
    BY <2>1, <2>4
<1> QED
  BY <1>1, ControlInvariant, PTL

-----------------------------------------------------------------------------
(* The mirror: the box holds the newest frame, or it is on its way. *)

LEMMA InitiallyOnItsWay == Mirror!MirrorInit => Mirror!NewestOnItsWay
  BY DEF Mirror!MirrorInit, Mirror!NewestOnItsWay

LEMMA StaysOnItsWay ==
    Mirror!NewestOnItsWay /\ [Mirror!MirrorNext]_(Mirror!mirrorVars) => Mirror!NewestOnItsWay'
<1> SUFFICES ASSUME Mirror!NewestOnItsWay, [Mirror!MirrorNext]_(Mirror!mirrorVars)
             PROVE  Mirror!NewestOnItsWay'
  OBVIOUS
<1> USE DEF Mirror!NewestOnItsWay
<1>1. CASE Mirror!PublishFrame
  BY <1>1 DEF Mirror!PublishFrame
<1>2. CASE Mirror!EncoderTests
  BY <1>2 DEF Mirror!EncoderTests
<1>3. CASE Mirror!EncoderLocked
  BY <1>3 DEF Mirror!EncoderLocked
<1>4. CASE Mirror!EncoderSleeps
  BY <1>4 DEF Mirror!EncoderSleeps
<1>5. CASE Mirror!EncoderShows
  BY <1>5 DEF Mirror!EncoderShows, Mirror!ReadyAfterEncoding
<1>6. CASE Mirror!StopNotifies
  BY <1>6 DEF Mirror!StopNotifies, Mirror!Wakes
<1>7. CASE \/ Mirror!StopAsked \/ Mirror!StopJoins \/ Mirror!Server
           \/ Mirror!ClientConnects
           \/ Mirror!ClientMoves("sent") \/ Mirror!ClientMoves("gone")
  BY <1>7 DEF Mirror!StopAsked, Mirror!StopJoins, Mirror!Server, Mirror!Accept,
       Mirror!HandleClient, Mirror!ClientConnects, Mirror!ClientMoves
<1>8. CASE UNCHANGED Mirror!mirrorVars
  BY <1>8 DEF Mirror!mirrorVars
<1> QED
  BY <1>1, <1>2, <1>3, <1>4, <1>5, <1>6, <1>7, <1>8 DEF Mirror!MirrorNext,
       Mirror!Encoder, Mirror!Stop

LEMMA MirrorInvInitially == Mirror!MirrorInit => Mirror!MirrorInv
  BY HostAssumption DEF Mirror!MirrorInit, Mirror!MirrorInv, Mirror!MirrorTypeOK,
       Mirror!NewestOnItsWay

LEMMA MirrorTypesStay ==
    ASSUME Mirror!MirrorTypeOK, Mirror!NewestOnItsWay,
           [Mirror!MirrorNext]_(Mirror!mirrorVars)
    PROVE  Mirror!MirrorTypeOK'
<1> USE HostAssumption DEF Mirror!MirrorTypeOK, Mirror!NewestOnItsWay
<1>1. CASE Mirror!PublishFrame
  BY <1>1 DEF Mirror!PublishFrame, Mirror!Wakes, Mirror!KeepServer
<1>2. CASE Mirror!EncoderTests
  BY <1>2 DEF Mirror!EncoderTests, Mirror!KeepServer
<1>3. CASE Mirror!EncoderLocked
  BY <1>3 DEF Mirror!EncoderLocked, Mirror!KeepServer
<1>4. CASE Mirror!EncoderSleeps
  BY <1>4 DEF Mirror!EncoderSleeps, Mirror!KeepServer
<1>5. CASE Mirror!EncoderShows
  BY <1>5 DEF Mirror!EncoderShows, Mirror!ReadyAfterEncoding, Mirror!KeepServer
<1>6. CASE Mirror!StopAsked \/ Mirror!StopNotifies \/ Mirror!StopJoins
  BY <1>6 DEF Mirror!StopAsked, Mirror!StopNotifies, Mirror!StopJoins, Mirror!Wakes,
       Mirror!KeepServer
<1>7. CASE \/ Mirror!Server \/ Mirror!ClientConnects
           \/ Mirror!ClientMoves("sent") \/ Mirror!ClientMoves("gone")
  BY <1>7 DEF Mirror!Server, Mirror!Accept, Mirror!HandleClient,
       Mirror!ClientConnects, Mirror!ClientMoves
<1>8. CASE UNCHANGED Mirror!mirrorVars
  BY <1>8 DEF Mirror!mirrorVars
<1> QED
  BY <1>1, <1>2, <1>3, <1>4, <1>5, <1>6, <1>7, <1>8 DEF Mirror!MirrorNext,
       Mirror!Encoder, Mirror!Stop

LEMMA MirrorInvStays ==
    Mirror!MirrorInv /\ [Mirror!MirrorNext]_(Mirror!mirrorVars) => Mirror!MirrorInv'
  BY MirrorTypesStay, StaysOnItsWay DEF Mirror!MirrorInv

(* Whatever frames are drawn, clients come and Stop interrupts, an encoder *)
(* with nothing to do has shown the newest frame (PublishFrame,            *)
(* EncodeLoop).                                                            *)
THEOREM NewestAlwaysShown == Mirror!MirrorSpec => []Mirror!NewestShown
<1>1. Mirror!NewestOnItsWay => Mirror!NewestShown
  BY DEF Mirror!NewestOnItsWay, Mirror!NewestShown
<1> QED
  BY <1>1, InitiallyOnItsWay, StaysOnItsWay, PTL DEF Mirror!MirrorSpec

-----------------------------------------------------------------------------
(* The emulator session. *)

LEMMA SessionInvInitially == Session!SessionInit => Session!SessionInv
  BY DEF Session!SessionInit, Session!SessionInv, Session!NoOrphans, Session!Alive,
       Session!Children

LEMMA SessionInvStays ==
    Session!SessionInv /\ [Session!SessionNext]_(Session!sessionVars) => Session!SessionInv'
<1> SUFFICES ASSUME Session!SessionInv, [Session!SessionNext]_(Session!sessionVars)
             PROVE  Session!SessionInv'
  OBVIOUS
<1>0. 0 \notin Session!Children
  BY DEF Session!Children
<1> USE <1>0 DEF Session!SessionInv, Session!NoOrphans, Session!Alive
<1>1. CASE Session!StartCommand
  BY <1>1 DEF Session!StartCommand, Session!MayStart
<1>2. CASE Session!Poll
  BY <1>2 DEF Session!Poll, Session!Reap, Session!Forget
<1>3. CASE Session!TogglePause
  BY <1>3 DEF Session!TogglePause
<1>4. CASE Session!StopAsks
  BY <1>4 DEF Session!StopAsks, Session!Continued
<1>5. CASE Session!StopReaps
  BY <1>5 DEF Session!StopReaps, Session!Reap, Session!Forget
<1>6. CASE Session!StopKills
  BY <1>6 DEF Session!StopKills
<1>7. CASE Session!StopGivesUp
  BY <1>7 DEF Session!StopGivesUp, Session!Forget
<1>8. ASSUME NEW c \in Session!Children, Session!ChildEnds(c)
      PROVE  Session!SessionInv'
  BY <1>8 DEF Session!ChildEnds
<1>9. CASE UNCHANGED Session!sessionVars
  BY <1>9 DEF Session!sessionVars
<1> QED
  BY <1>1, <1>2, <1>3, <1>4, <1>5, <1>6, <1>7, <1>8, <1>9 DEF Session!SessionNext

(* However often the user starts, pauses and stops, and whenever children  *)
(* end, none is left running that was not killed, and a session said to    *)
(* run is not left stopped (EmulatorSession::Stop, TogglePause).           *)
THEOREM NoEmulatorOrphaned == Session!SessionSpec => []Session!NoOrphans
<1>1. Session!SessionInv => Session!NoOrphans
  BY DEF Session!SessionInv
<1> QED
  BY <1>1, SessionInvInitially, SessionInvStays, PTL DEF Session!SessionSpec

LEMMA SessionTypesHold == Session!SessionInv => Session!SessionTypeOK
  BY HostAssumption DEF Session!SessionInv, Session!SessionTypeOK, Session!Children

-----------------------------------------------------------------------------
(* All of them together.  The control server's invariant holds whatever runs;  *)
(* of the others, the invariant of the machine that runs.                  *)
HostInv ==
  /\ ControlInv
  /\ subject = "Mirror" => Mirror!MirrorInv
  /\ subject = "Session" => Session!SessionInv
  /\ subject = "Notices" => Notices!StreamInv

LEMMA HostInvInitially == HostInit => HostInv
<1>1. ControlInit => ControlInv
  BY ControlInitially
<1>2. Mirror!MirrorInit => Mirror!MirrorInv
  BY MirrorInvInitially
<1>3. Session!SessionInit => Session!SessionInv
  BY SessionInvInitially
<1>4. Notices!StreamInit => Notices!StreamInv
  BY StreamInvInitially
<1> QED
  BY <1>1, <1>2, <1>3, <1>4 DEF HostInit, HostInv

LEMMA HostInvStays == HostInv /\ [HostNext]_hostVars => HostInv'
<1> SUFFICES ASSUME HostInv, [HostNext]_hostVars
             PROVE  HostInv'
  OBVIOUS
<1>1. ASSUME UNCHANGED controlVars
      PROVE  ControlInv'
  BY <1>1, ControlStep DEF HostInv
<1>2. CASE ControlSteps
  <2>1. ControlInv'
    BY <1>2, ControlStep DEF ControlSteps, ControlDoes, HostInv
  <2> QED
    BY <1>2, <2>1 DEF ControlSteps, ControlDoes, HostInv
<1>3. CASE MirrorSteps
  <2>1. subject = "Mirror" /\ UNCHANGED <<subject, controlVars>> /\ Mirror!MirrorNext
    BY <1>3 DEF MirrorSteps, MirrorDoes, Same11
  <2>2. Mirror!MirrorInv'
    BY <2>1, MirrorInvStays DEF HostInv
  <2> QED
    BY <1>1, <2>1, <2>2 DEF HostInv
<1>4. CASE SessionSteps
  <2>1. subject = "Session" /\ UNCHANGED <<subject, controlVars>> /\ Session!SessionNext
    BY <1>4 DEF SessionSteps, SessionDoes, Same6, Same7, Same8, Same9, Same10
  <2>2. Session!SessionInv'
    BY <2>1, SessionInvStays DEF HostInv
  <2> QED
    BY <1>1, <2>1, <2>2 DEF HostInv
<1>5. CASE NoticesSteps
  <2>1. subject = "Notices" /\ UNCHANGED <<subject, controlVars>> /\ Notices!StreamNext
    BY <1>5 DEF NoticesSteps, NoticesDo, Same7, Same8, Same9, Same10
  <2>2. Notices!StreamInv'
    BY <2>1, StreamInvStays, HostAssumption DEF HostInv
  <2> QED
    BY <1>1, <2>1, <2>2 DEF HostInv
<1>6. CASE AtItsBound \/ UNCHANGED hostVars
  <2>1. UNCHANGED hostVars
    BY <1>6 DEF AtItsBound
  <2>2. UNCHANGED <<controlVars, subject>> /\ UNCHANGED partVars
    BY <2>1 DEF hostVars
  <2>3. subject = "Mirror" => Mirror!MirrorInv'
    BY <2>2, MirrorInvStays DEF HostInv, partVars, Mirror!mirrorVars
  <2>4. subject = "Session" => Session!SessionInv'
    BY <2>2, SessionInvStays DEF HostInv, partVars, Session!sessionVars
  <2>5. subject = "Notices" => Notices!StreamInv'
    BY <2>2, StreamInvStays, HostAssumption DEF HostInv, partVars, Notices!streamVars
  <2> QED
    BY <1>1, <2>2, <2>3, <2>4, <2>5 DEF HostInv
<1> QED
  BY <1>2, <1>3, <1>4, <1>5, <1>6 DEF HostNext

(* The invariant of every part, in every reachable state of what runs beside *)
(* the guest.                                                              *)
THEOREM HostInvariant == HostSpec => []HostInv
  BY HostInvInitially, HostInvStays, PTL DEF HostSpec

(* Every variable keeps its type and bound, for any bounds.                *)
THEOREM HostTypesCorrect == HostSpec => []HostTypeOK
<1>1. HostInv => HostTypeOK
  BY SessionTypesHold, StreamTypesHold, HostAssumption
     DEF HostInv, HostTypeOK, ControlInv, Mirror!MirrorInv
<1> QED
  BY <1>1, HostInvariant, PTL

(* However many frames are drawn and clients come, an encoder with nothing *)
(* to do has shown the newest frame (MirrorServer::PublishFrame, EncodeLoop). *)
THEOREM NewestFrameShown == HostSpec => []NewestShown
<1>1. HostInv => NewestShown
  BY DEF HostInv, NewestShown, Mirror!MirrorInv, Mirror!NewestOnItsWay, Mirror!NewestShown
<1> QED
  BY <1>1, HostInvariant, PTL

(* No emulator outlives its window unkilled, however often the user starts, *)
(* pauses and stops; and a stream's notice is called at most once, none     *)
(* after its end (EmulatorSession::Stop, MemAStreamHle::Tick).              *)
THEOREM NobodyIsForgotten == HostSpec => []NobodyForgotten
<1>1. Notices!StreamInv => Notices!AnsweredOnce
  BY AnsweredByInv
<1>2. HostInv => NobodyForgotten
  BY <1>1 DEF HostInv, NobodyForgotten, Session!SessionInv
<1> QED
  BY <1>2, HostInvariant, PTL
=============================================================================
