-------------------------- MODULE Vectors_proofs ---------------------------
(* What the vector idioms of Vectors return, for the proofs of the modules *)
(* that use them.                                                          *)
EXTENDS Vectors, WellFoundedInduction, TLAPS

(* What is kept of s is listed by an increasing enumeration of I. *)
LEMMA KeptListed ==
    ASSUME NEW s, NEW I, NEW r \in Kept(s, I)
    PROVE  \E n \in 0..Len(s) : \E f \in [1..n -> I] :
              Lists(f, I) /\ r = [j \in 1..n |-> s[f[j]]]
BY DEF Kept

(* Erasing elements of a vector yields a vector over the same elements. *)
LEMMA KeptType ==
    ASSUME NEW S, NEW s \in Seq(S), NEW I \in SUBSET DOMAIN s, NEW r \in Kept(s, I)
    PROVE  r \in Seq(S)
<1>n. PICK n \in 0..Len(s) : \E g \in [1..n -> I] :
         Lists(g, I) /\ r = [j \in 1..n |-> s[g[j]]]
  BY KeptListed
<1>1. PICK f \in [1..n -> I] : Lists(f, I) /\ r = [j \in 1..n |-> s[f[j]]]
  BY <1>n
<1>2. \A j \in 1..n : s[f[j]] \in S
  BY <1>1
<1>3. n \in Nat
  OBVIOUS
<1> QED
  BY <1>1, <1>2, <1>3

(* An element is left exactly when one of its positions is kept. *)
LEMMA KeptElems ==
    ASSUME NEW S, NEW s \in Seq(S), NEW I \in SUBSET DOMAIN s, NEW r \in Kept(s, I), NEW e
    PROVE  e \in Elems(r) <=> \E i \in I : s[i] = e
<1>n. PICK n \in 0..Len(s) : \E g \in [1..n -> I] :
         Lists(g, I) /\ r = [j \in 1..n |-> s[g[j]]]
  BY KeptListed
<1>1. PICK f \in [1..n -> I] : Lists(f, I) /\ r = [j \in 1..n |-> s[f[j]]]
  BY <1>n
<1>2. DOMAIN r = 1..n /\ \A j \in 1..n : r[j] = s[f[j]] /\ f[j] \in I
  BY <1>1
<1>3. \A i \in I : \E j \in 1..n : f[j] = i
  BY <1>1 DEF Lists
<1>4. Elems(r) = {r[j] : j \in 1..n}
  BY <1>2 DEF Elems
<1>5. ASSUME NEW j \in 1..n, r[j] = e PROVE \E i \in I : s[i] = e
  BY <1>2, <1>5
<1>6. ASSUME NEW i \in I, s[i] = e PROVE \E j \in 1..n : r[j] = e
  BY <1>2, <1>3, <1>6
<1> QED
  BY <1>4, <1>5, <1>6

(* Two positions of what is left come from two positions of s. *)
LEMMA KeptInjective ==
    ASSUME NEW S, NEW s \in Seq(S), NEW I \in SUBSET DOMAIN s, NEW r \in Kept(s, I),
           NEW j \in DOMAIN r, NEW k \in DOMAIN r, j # k
    PROVE  \E p, q \in I : p # q /\ r[j] = s[p] /\ r[k] = s[q]
<1>n. PICK n \in 0..Len(s) : \E g \in [1..n -> I] :
         Lists(g, I) /\ r = [i \in 1..n |-> s[g[i]]]
  BY KeptListed
<1>1. PICK f \in [1..n -> I] : Lists(f, I) /\ r = [i \in 1..n |-> s[f[i]]]
  BY <1>n
<1>2. j \in 1..n /\ k \in 1..n /\ (j < k \/ k < j)
  BY <1>1
<1>3. f[j] # f[k]
  <2>1. f[j] \in I /\ f[k] \in I
    BY <1>2
  <2>2. f[j] \in Nat /\ f[k] \in Nat
    BY <2>1
  <2>3. f[j] < f[k] \/ f[k] < f[j]
    BY <1>1, <1>2 DEF Lists
  <2> QED
    BY <2>2, <2>3
<1>4. r[j] = s[f[j]] /\ r[k] = s[f[k]] /\ f[j] \in I /\ f[k] \in I
  BY <1>1, <1>2
<1> QED
  BY <1>3, <1>4

(* A push keeps what was there and adds its element. *)
LEMMA PushElems ==
    ASSUME NEW S, NEW s \in Seq(S), NEW e \in S
    PROVE  /\ Append(s, e) \in Seq(S)
           /\ Elems(Append(s, e)) = Elems(s) \cup {e}
<1>1. Append(s, e) \in Seq(S)
  OBVIOUS
<1>2. \A x : x \in Elems(Append(s, e)) <=> x \in Elems(s) \cup {e}
  <2>1. DOMAIN Append(s, e) = 1..(Len(s) + 1) /\ DOMAIN s = 1..Len(s) /\ Len(s) \in Nat
    OBVIOUS
  <2>2. \A i \in 1..Len(s) : Append(s, e)[i] = s[i]
    OBVIOUS
  <2>3. Append(s, e)[Len(s) + 1] = e
    OBVIOUS
  <2>4. ASSUME NEW x \in Elems(Append(s, e)) PROVE x \in Elems(s) \cup {e}
    <3>1. PICK i \in 1..(Len(s) + 1) : Append(s, e)[i] = x
      BY <2>1 DEF Elems
    <3>2. i \in 1..Len(s) \/ i = Len(s) + 1
      BY <2>1
    <3> QED
      BY <2>1, <2>2, <2>3, <3>1, <3>2 DEF Elems
  <2>5. ASSUME NEW x \in Elems(s) PROVE x \in Elems(Append(s, e))
    <3>1. PICK i \in 1..Len(s) : s[i] = x
      BY <2>1 DEF Elems
    <3>2. i \in 1..(Len(s) + 1)
      BY <2>1
    <3> QED
      BY <2>1, <2>2, <3>1, <3>2 DEF Elems
  <2>6. e \in Elems(Append(s, e))
    <3>1. Len(s) + 1 \in 1..(Len(s) + 1)
      BY <2>1
    <3> QED
      BY <2>1, <2>3, <3>1 DEF Elems
  <2> QED
    BY <2>4, <2>5, <2>6
<1> QED
  BY <1>1, <1>2

(* PushOnce leaves the same elements as a push. *)
LEMMA PushOnceElems ==
    ASSUME NEW S, NEW s \in Seq(S), NEW e \in S
    PROVE  /\ PushOnce(s, e) \in Seq(S)
           /\ Elems(PushOnce(s, e)) = Elems(s) \cup {e}
BY PushElems DEF PushOnce

(* Taking the first element off a vector loses no other element. *)
LEMMA PopElems ==
    ASSUME NEW S, NEW s \in Seq(S), s # <<>>
    PROVE  /\ Head(s) \in S
           /\ Tail(s) \in Seq(S)
           /\ \A e \in Elems(s) : e = Head(s) \/ e \in Elems(Tail(s))
<1>1. Head(s) \in S /\ Tail(s) \in Seq(S) /\ Len(s) \in Nat /\ Len(s) > 0
  OBVIOUS
<1>2. DOMAIN s = 1..Len(s) /\ DOMAIN Tail(s) = 1..(Len(s) - 1) /\ Head(s) = s[1]
  OBVIOUS
<1>3. \A i \in 1..(Len(s) - 1) : Tail(s)[i] = s[i + 1]
  OBVIOUS
<1>4. ASSUME NEW e \in Elems(s), e # Head(s) PROVE e \in Elems(Tail(s))
  <2>1. PICK i \in 1..Len(s) : s[i] = e
    BY <1>2 DEF Elems
  <2>2. i - 1 \in 1..(Len(s) - 1) /\ (i - 1) + 1 = i
    BY <1>1, <1>2, <1>4, <2>1
  <2> QED
    BY <1>2, <1>3, <2>1, <2>2 DEF Elems
<1> QED
  BY <1>1, <1>4

(* Taking the last element off a vector without repetitions removes just that
   element. *)
LEMMA PopBack ==
    ASSUME NEW S, NEW s \in Seq(S), s # <<>>, Distinct(s),
           NEW r, r = SubSeq(s, 1, Len(s) - 1)
    PROVE  /\ r \in Seq(S) /\ Distinct(r)
           /\ s[Len(s)] \in Elems(s)
           /\ Elems(r) = Elems(s) \ {s[Len(s)]}
<1> DEFINE n == Len(s)
<1>1. n \in Nat /\ n > 0 /\ DOMAIN s = 1..n
  OBVIOUS
<1>2. /\ r \in Seq(S) /\ DOMAIN r = 1..n - 1
      /\ \A i \in 1..n - 1 : r[i] = s[i]
  BY <1>1
<1> HIDE DEF n
<1>3. 1..n - 1 \subseteq 1..n /\ n \in 1..n /\ n \notin 1..n - 1
      /\ \A i \in 1..n : i = n \/ i \in 1..n - 1
  BY <1>1
<1>4. Distinct(r)
  BY <1>1, <1>2, <1>3 DEF Distinct
<1>5. s[n] \in Elems(s)
  BY <1>1, <1>3 DEF Elems
<1>6. ASSUME NEW x \in Elems(r)
      PROVE  x \in Elems(s) /\ x # s[n]
  <2>1. PICK i \in 1..n - 1 : x = r[i]
    BY <1>2, <1>6 DEF Elems
  <2>2. x = s[i] /\ i \in 1..n /\ i # n
    BY <1>2, <1>3, <2>1
  <2>3. x \in Elems(s)
    BY <1>1, <2>2 DEF Elems
  <2>4. s[i] # s[n]
    BY <1>1, <1>3, <2>2 DEF Distinct
  <2> QED
    BY <2>2, <2>3, <2>4
<1>7. ASSUME NEW x \in Elems(s), x # s[n]
      PROVE  x \in Elems(r)
  <2>1. PICK i \in 1..n : x = s[i]
    BY <1>1, <1>7 DEF Elems
  <2>2. i \in 1..n - 1
    BY <1>3, <1>7, <2>1
  <2> QED
    BY <1>2, <2>1, <2>2 DEF Elems
<1> QED
  BY <1>2, <1>4, <1>5, <1>6, <1>7 DEF n

(* Pushing an element that is not there keeps a vector without repetitions. *)
LEMMA PushNew ==
    ASSUME NEW S, NEW s \in Seq(S), Distinct(s), NEW e \in S, e \notin Elems(s)
    PROVE  /\ Append(s, e) \in Seq(S)
           /\ Distinct(Append(s, e))
           /\ Elems(Append(s, e)) = Elems(s) \cup {e}
<1> DEFINE n == Len(s)
           r == Append(s, e)
<1>1. r \in Seq(S) /\ Elems(r) = Elems(s) \cup {e}
  BY PushElems
<1>2. /\ n \in Nat /\ DOMAIN s = 1..n /\ DOMAIN r = 1..n + 1
      /\ r[n + 1] = e /\ \A i \in 1..n : r[i] = s[i]
  OBVIOUS
<1> HIDE DEF n, r
<1>3. \A i \in 1..n : r[i] # e
  BY <1>2 DEF Elems
<1>4. \A i \in DOMAIN r : i \in 1..n \/ i = n + 1
  BY <1>2
<1>5. Distinct(r)
  BY <1>2, <1>3, <1>4 DEF Distinct
<1> QED
  BY <1>1, <1>5 DEF r

(* The first element and the rest make up a vector. *)
LEMMA TailElems ==
    ASSUME NEW S, NEW s \in Seq(S), s # <<>>
    PROVE  /\ Head(s) \in Elems(s)
           /\ Elems(Tail(s)) \subseteq Elems(s)
           /\ Elems(s) = Elems(Tail(s)) \cup {Head(s)}
<1> DEFINE n == Len(s)
<1>1. /\ n \in Nat /\ n > 0 /\ DOMAIN s = 1..n /\ DOMAIN Tail(s) = 1..n - 1
      /\ Head(s) = s[1] /\ \A i \in 1..n - 1 : Tail(s)[i] = s[i + 1]
  OBVIOUS
<1> HIDE DEF n
<1>2. 1 \in 1..n /\ \A i \in 1..n - 1 : i + 1 \in 1..n
  BY <1>1
<1>3. Head(s) \in Elems(s)
  BY <1>1, <1>2 DEF Elems
<1>4. ASSUME NEW e \in Elems(Tail(s))
      PROVE  e \in Elems(s)
  <2>1. PICK i \in 1..n - 1 : e = Tail(s)[i]
    BY <1>1, <1>4 DEF Elems
  <2>2. e = s[i + 1] /\ i + 1 \in 1..n
    BY <1>1, <1>2, <2>1
  <2> QED
    BY <1>1, <2>2 DEF Elems
<1>5. \A e \in Elems(s) : e = Head(s) \/ e \in Elems(Tail(s))
  BY PopElems
<1> QED
  BY <1>3, <1>4, <1>5

LEMMA ElemsType ==
    ASSUME NEW S, NEW s \in Seq(S)
    PROVE  Elems(s) \subseteq S
<1>1. \A i \in DOMAIN s : s[i] \in S
  OBVIOUS
<1> QED
  BY <1>1 DEF Elems

(* What is left of a vector is left in the old order. *)
LEMMA KeptOrder ==
    ASSUME NEW S, NEW s \in Seq(S), NEW I \in SUBSET DOMAIN s, NEW r \in Kept(s, I),
           NEW j \in DOMAIN r, NEW k \in DOMAIN r, j < k
    PROVE  \E p, q \in DOMAIN s : p < q /\ r[j] = s[p] /\ r[k] = s[q]
<1>n. PICK n \in 0..Len(s) : \E g \in [1..n -> I] :
         Lists(g, I) /\ r = [i \in 1..n |-> s[g[i]]]
  BY KeptListed
<1>1. PICK f \in [1..n -> I] : Lists(f, I) /\ r = [i \in 1..n |-> s[f[i]]]
  BY <1>n
<1>2. j \in 1..n /\ k \in 1..n
  BY <1>1
<1>3. f[j] < f[k]
  BY <1>1, <1>2 DEF Lists
<1>4. r[j] = s[f[j]] /\ r[k] = s[f[k]] /\ f[j] \in DOMAIN s /\ f[k] \in DOMAIN s
  BY <1>1, <1>2
<1> QED
  BY <1>3, <1>4

LEMMA TailOrder ==
    ASSUME NEW S, NEW s \in Seq(S), s # <<>>,
           NEW j \in DOMAIN Tail(s), NEW k \in DOMAIN Tail(s), j < k
    PROVE  \E p, q \in DOMAIN s : p < q /\ Tail(s)[j] = s[p] /\ Tail(s)[k] = s[q]
<1> DEFINE n == Len(s)
<1>1. /\ n \in Nat /\ DOMAIN s = 1..n /\ DOMAIN Tail(s) = 1..n - 1
      /\ \A i \in 1..n - 1 : Tail(s)[i] = s[i + 1]
  OBVIOUS
<1> HIDE DEF n
<1>2. /\ j + 1 \in 1..n /\ k + 1 \in 1..n /\ j + 1 < k + 1
      /\ Tail(s)[j] = s[j + 1] /\ Tail(s)[k] = s[k + 1]
  BY <1>1
<1> QED
  BY <1>1, <1>2

(* A push comes after all that was there. *)
LEMMA PushOrder ==
    ASSUME NEW S, NEW s \in Seq(S), NEW e \in S,
           NEW j \in DOMAIN Append(s, e), NEW k \in DOMAIN Append(s, e), j < k
    PROVE  /\ j \in DOMAIN s /\ Append(s, e)[j] = s[j] /\ s[j] \in Elems(s)
           /\ \/ k \in DOMAIN s /\ Append(s, e)[k] = s[k]
              \/ Append(s, e)[k] = e
<1> DEFINE n == Len(s)
           r == Append(s, e)
<1>1. /\ n \in Nat /\ DOMAIN s = 1..n /\ DOMAIN r = 1..n + 1
      /\ r[n + 1] = e /\ \A i \in 1..n : r[i] = s[i]
  OBVIOUS
<1>j. j \in DOMAIN r /\ k \in DOMAIN r
  OBVIOUS
<1> HIDE DEF n, r
<1>2. j \in 1..n /\ (k \in 1..n \/ k = n + 1)
  BY <1>1, <1>j
<1>3. /\ j \in DOMAIN s /\ r[j] = s[j]
      /\ (k \in DOMAIN s /\ r[k] = s[k]) \/ r[k] = e
  BY <1>1, <1>2
<1>4. s[j] \in Elems(s)
  BY <1>3 DEF Elems
<1> QED
  BY <1>3, <1>4 DEF r

LEMMA HeadBefore ==
    ASSUME NEW S, NEW s \in Seq(S), s # <<>>, NEW e \in Elems(Tail(s))
    PROVE  \E p, q \in DOMAIN s : p < q /\ Head(s) = s[p] /\ e = s[q]
<1> DEFINE n == Len(s)
<1>1. /\ n \in Nat /\ n > 0 /\ DOMAIN s = 1..n /\ DOMAIN Tail(s) = 1..n - 1
      /\ Head(s) = s[1] /\ \A i \in 1..n - 1 : Tail(s)[i] = s[i + 1]
  OBVIOUS
<1> HIDE DEF n
<1>2. PICK i \in 1..n - 1 : e = Tail(s)[i]
  BY <1>1 DEF Elems
<1>3. e = s[i + 1] /\ i + 1 \in 1..n /\ 1 \in 1..n /\ 1 < i + 1
  BY <1>1, <1>2
<1> QED
  BY <1>1, <1>3

(* Some numbers have a least one: the first position a search finds. *)
LEMMA SmallestOf ==
    ASSUME NEW T \in SUBSET Nat, T # {}
    PROVE  \E m \in T : \A n \in T : m <= n
<1>1. PICK m \in T : \A n \in T : ~(<<n, m>> \in OpToRel(<, Nat))
  BY WFMin, NatLessThanWellFounded, Zenon
<1>2. \A n \in T : ~(n < m)
  BY <1>1 DEF OpToRel
<1> QED
  BY <1>2

(* No two records of the vector have one identity. *)
UniqueIds(s) == \A i, j \in DOMAIN s : s[i].id = s[j].id => i = j

(* Replacing the record of an identity, or appending one of a new identity. *)
LEMMA ReplaceById ==
    ASSUME NEW S, NEW s \in Seq(S), UniqueIds(s), NEW e \in S,
           NEW i \in DOMAIN s, s[i].id = e.id, NEW r, r = [s EXCEPT ![i] = e]
    PROVE  r \in Seq(S) /\ UniqueIds(r)
<1>1. r \in Seq(S)
  OBVIOUS
<1>2. DOMAIN r = DOMAIN s /\ \A k \in DOMAIN s : r[k] = IF k = i THEN e ELSE s[k]
  OBVIOUS
<1>3. \A k \in DOMAIN s : r[k].id = s[k].id
  BY <1>2
<1> QED
  BY <1>1, <1>2, <1>3 DEF UniqueIds

LEMMA AppendById ==
    ASSUME NEW S, NEW s \in Seq(S), UniqueIds(s), NEW e \in S,
           \A i \in DOMAIN s : s[i].id # e.id
    PROVE  Append(s, e) \in Seq(S) /\ UniqueIds(Append(s, e))
<1> DEFINE r == Append(s, e)
<1>1. r \in Seq(S) /\ Len(s) \in Nat /\ DOMAIN s = 1..Len(s) /\ DOMAIN r = 1..Len(s) + 1
  OBVIOUS
<1>2. r[Len(s) + 1] = e /\ \A k \in 1..Len(s) : r[k] = s[k]
  OBVIOUS
<1> HIDE DEF r
<1>3. \A k \in DOMAIN r : k \in DOMAIN s \/ k = Len(s) + 1
  BY <1>1
<1>4. ASSUME NEW j \in DOMAIN r, NEW k \in DOMAIN r, r[j].id = r[k].id
      PROVE  j = k
  <2>1. CASE j \in DOMAIN s /\ k \in DOMAIN s
    BY <1>1, <1>2, <1>4, <2>1 DEF UniqueIds
  <2>2. CASE j \in DOMAIN s /\ k = Len(s) + 1
    BY <1>1, <1>2, <1>4, <2>2
  <2>3. CASE j = Len(s) + 1 /\ k \in DOMAIN s
    BY <1>1, <1>2, <1>4, <2>3
  <2> QED
    BY <1>3, <2>1, <2>2, <2>3
<1>5. UniqueIds(r)
  BY <1>4 DEF UniqueIds
<1> QED
  BY <1>1, <1>5 DEF r

(* Erasing records makes no two alike. *)
LEMMA KeptUniqueIds ==
    ASSUME NEW S, NEW s \in Seq(S), UniqueIds(s), NEW I \in SUBSET DOMAIN s,
           NEW r \in Kept(s, I)
    PROVE  UniqueIds(r)
<1> SUFFICES ASSUME NEW j \in DOMAIN r, NEW k \in DOMAIN r, r[j].id = r[k].id, j # k
             PROVE  FALSE
  BY DEF UniqueIds
<1>1. PICK p \in I, q \in I : p # q /\ r[j] = s[p] /\ r[k] = s[q]
  BY KeptInjective
<1> QED
  BY <1>1 DEF UniqueIds

(* The first m elements of a sequence. *)
LEMMA FirstElems ==
    ASSUME NEW S, NEW s \in Seq(S), NEW m \in 0..Len(s), NEW r, r = SubSeq(s, 1, m)
    PROVE  r \in Seq(S) /\ Len(r) = m /\ DOMAIN r = 1..m /\ \A j \in 1..m : r[j] = s[j]
<1>1. Len(s) \in Nat /\ m \in Nat /\ \A j \in 1..m : j \in DOMAIN s
  OBVIOUS
<1>2. r = [j \in 1..m |-> s[j]]
  BY <1>1
<1>3. \A j \in 1..m : s[j] \in S
  BY <1>1
<1>4. \A n \in Nat : \A t \in [1..n -> S] : t \in Seq(S) /\ Len(t) = n
  OBVIOUS
<1> QED
  BY <1>1, <1>2, <1>3, <1>4

(* Induction up to n, for a set. *)
LEMMA AllUpTo ==
    ASSUME NEW n \in Nat, NEW T, 0 \in T, \A k \in 1..n : k - 1 \in T => k \in T
    PROVE  \A k \in 0..n : k \in T
<1> DEFINE B == {k \in 0..n : k \notin T}
<1> SUFFICES ASSUME B # {}
             PROVE  FALSE
  OBVIOUS
<1>1. PICK k \in B : \A j \in B : k <= j
  <2>1. B \in SUBSET Nat
    OBVIOUS
  <2> HIDE DEF B
  <2> QED
    BY <2>1, SmallestOf
<1>2. k \in 1..n /\ k - 1 \in 0..n /\ k - 1 \notin B
  BY <1>1
<1> QED
  BY <1>1, <1>2

(* What an operation makes of each of the elements of a sequence in turn. *)
Stepping(f, S, E) == f \in [S -> [E -> S]]

LEMMA FoldExists ==
    ASSUME NEW f, NEW S, NEW E, Stepping(f, S, E), NEW b \in S, NEW s \in Seq(E)
    PROVE  \E r \in [0..Len(s) -> S] :
              r[0] = b /\ \A k \in 1..Len(s) : r[k] = f[r[k - 1]][s[k]]
<1> DEFINE R(m) == \E r \in [0..m -> S] : r[0] = b /\ \A k \in 1..m : r[k] = f[r[k - 1]][s[k]]
<1>0. PICK n \in Nat : n = Len(s) /\ \A k \in 1..n : s[k] \in E
  OBVIOUS
<1> DEFINE B == {m \in 0..n : ~R(m)}
<1> SUFFICES ASSUME B # {}
             PROVE  FALSE
  <2>1. n \in 0..n
    OBVIOUS
  <2>2. R(n) => \E r \in [0..Len(s) -> S] :
                   r[0] = b /\ \A k \in 1..Len(s) : r[k] = f[r[k - 1]][s[k]]
    BY <1>0
  <2> HIDE DEF R
  <2> QED
    BY <2>1, <2>2
<1>1. PICK m \in B : \A j \in B : m <= j
  <2>1. B \in SUBSET Nat
    BY <1>0
  <2> HIDE DEF B
  <2> QED
    BY <2>1, SmallestOf
<1>2. m \in 0..n /\ ~R(m)
  <2> HIDE DEF R
  <2> QED
    BY <1>1
<1>3. R(0)
  <2>1. [k \in 0..0 |-> b] \in [0..0 -> S]
    OBVIOUS
  <2>2. [k \in 0..0 |-> b][0] = b /\ 1..0 = {}
    OBVIOUS
  <2> QED
    BY <2>1, <2>2
<1>4. m \in 1..n
  <2> HIDE DEF R
  <2> QED
    BY <1>2, <1>3
<1>5. R(m - 1)
  <2>1. m - 1 \in 0..n /\ ~(m <= m - 1)
    BY <1>4
  <2> HIDE DEF R
  <2> QED
    BY <2>1, <1>1
<1>6. PICK r \in [0..m - 1 -> S] : r[0] = b /\ \A k \in 1..m - 1 : r[k] = f[r[k - 1]][s[k]]
  BY <1>5
<1> DEFINE q == [k \in 0..m |-> IF k = m THEN f[r[m - 1]][s[m]] ELSE r[k]]
<1>7. q \in [0..m -> S]
  <2>1. f[r[m - 1]][s[m]] \in S
    <3>1. r[m - 1] \in S /\ s[m] \in E
      BY <1>4, <1>6, <1>0
    <3> QED
      BY <3>1 DEF Stepping
  <2>2. \A k \in 0..m : k # m => k \in 0..m - 1
    BY <1>4
  <2> QED
    BY <2>1, <2>2, <1>6
<1>8. q[0] = b
  BY <1>4, <1>6
<1>9. ASSUME NEW k \in 1..m
      PROVE  q[k] = f[q[k - 1]][s[k]]
  <2>1. k - 1 \in 0..m /\ k - 1 # m /\ q[k - 1] = r[k - 1]
    BY <1>4, <1>9
  <2>2. CASE k = m
    BY <2>1, <2>2, <1>4
  <2>3. CASE k # m
    <3>1. k \in 1..m - 1 /\ q[k] = r[k]
      BY <1>4, <1>9, <2>3
    <3> QED
      BY <3>1, <2>1, <1>6
  <2> QED
    BY <2>2, <2>3
<1>10. R(m)
  <2> HIDE DEF q
  <2> QED
    BY <1>7, <1>8, <1>9
<1> QED
  BY <1>2, <1>10
=============================================================================
