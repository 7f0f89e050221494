------------------------------- MODULE SqlHle -------------------------------
(***************************************************************************)
(* ISQLMgr and ISQLDatabase over SQLite (src/core/brew/sql_hle.cpp).  A    *)
(* query runs inside Exec: every row is copied to one scratch area of the  *)
(* guest and handed to the guest's callback, which may itself open,        *)
(* release or query any database before it returns.                        *)
(*                                                                         *)
(* A text is its length; a row is the lengths of its columns' texts, and   *)
(* a column's name is one byte long.                                       *)
(***************************************************************************)
EXTENDS Integers, Sequences

CONSTANTS
  Objects,           \* how many database objects end before the scratch area
  ScratchSize,       \* scratch_size_, in bytes
  WordSize,          \* the bytes of a pointer
  Tables,            \* what a query may answer: sequences of rows
  MaxDepth,          \* how deep callbacks query
  MaxCalls

VARIABLES
  managerRefs,
  dbs,               \* databases_: the references of every live object
  nextObject,        \* next_db_object_
  handles,           \* the handles SQLite holds open, by their object
  scratch,           \* whose text every byte holds
  running,           \* the queries under way, the innermost last
  calls              \* the calls and rows so far

sqlVars == <<managerRefs, dbs, nextObject, handles, scratch, running, calls>>

Free == <<0, 0>>
SqlInit ==
  /\ managerRefs = 1
  /\ dbs = <<>>
  /\ nextObject = 0
  /\ handles = {}
  /\ scratch = [b \in 0 .. ScratchSize - 1 |-> Free]
  /\ running = <<>>
  /\ calls = 0

Live == DOMAIN dbs
Inner == running[Len(running)]
Outer == SubSeq(running, 1, Len(running) - 1)
WithInner(q) == [running EXCEPT ![Len(running)] = q]
\* guest code runs: outside every query, or in the innermost one's callback
GuestRuns == calls < MaxCalls /\ (running # <<>> => Inner.inCallback)
Count == calls' = calls + 1
KeepScratch == UNCHANGED scratch

MgrAddRef ==
  /\ GuestRuns /\ Count
  /\ managerRefs' = managerRefs + 1
  /\ UNCHANGED <<dbs, nextObject, handles, running>> /\ KeepScratch
MgrRelease ==
  /\ GuestRuns /\ Count
  /\ managerRefs' = IF managerRefs > 0 THEN managerRefs - 1 ELSE 0
  /\ UNCHANGED <<dbs, nextObject, handles, running>> /\ KeepScratch

(* No path, a file SQLite cannot open and a set-up statement that fails    *)
(* all refuse; the object comes last, once the handle is sound.            *)
NoObjectLeft_OneMore == nextObject > Objects
NoObjectLeft == nextObject > Objects - 1
OpenDatabase(sound) ==
  /\ GuestRuns /\ Count
  /\ IF ~sound \/ NoObjectLeft
     THEN UNCHANGED <<dbs, nextObject, handles>>
     ELSE /\ dbs' = [o \in Live \cup {nextObject} |->
                      IF o = nextObject THEN 1 ELSE dbs[o]]
          /\ handles' = handles \cup {nextObject}
          /\ nextObject' = nextObject + 1
  /\ UNCHANGED <<managerRefs, running>> /\ KeepScratch

DbAddRef(o) ==
  /\ GuestRuns /\ Count
  /\ o \in Live
  /\ dbs' = [dbs EXCEPT ![o] = @ + 1]
  /\ UNCHANGED <<managerRefs, nextObject, handles, running>> /\ KeepScratch

(* SQLite refuses to close a handle with a statement under way; the object *)
(* goes all the same.                                                      *)
Busy(o) == \E q \in DOMAIN running : running[q].object = o
Closed(o) == IF Busy(o) THEN handles ELSE handles \ {o}
DbRelease(o) ==
  /\ GuestRuns /\ Count
  /\ o \in Live
  /\ IF dbs[o] > 1
     THEN dbs' = [dbs EXCEPT ![o] = @ - 1] /\ UNCHANGED handles
     ELSE /\ dbs' = [d \in Live \ {o} |-> dbs[d]]
          /\ handles' = Closed(o)
  /\ UNCHANGED <<managerRefs, nextObject, running>> /\ KeepScratch

(* Exec of a live object with a callback; without one the rows are counted *)
(* and dropped, and an unknown object or a statement SQLite refuses to     *)
(* prepare fails before anything changes.                                  *)
Exec(o, table) ==
  /\ GuestRuns /\ Count
  /\ Len(running) < MaxDepth
  /\ o \in Live
  /\ running' = Append(IF running = <<>> THEN running
                       ELSE WithInner([Inner EXCEPT !.queried = TRUE]),
                       [object |-> o, rows |-> table, inCallback |-> FALSE,
                        queried |-> FALSE, parts |-> <<>>, serial |-> 0])
  /\ UNCHANGED <<managerRefs, dbs, nextObject, handles>> /\ KeepScratch

(* PushScratchString and PushScratchWords: a part of the row laid after    *)
(* the others, words on a boundary; nothing when it does not fit.          *)
Aligned(n) == ((n + WordSize - 1) \div WordSize) * WordSize
Bytes(part) == part.at .. part.at + part.size - 1
Pushed_Overlapping(parts, at, size) == Append(parts, [at |-> at, size |-> size, next |-> at + 1])
Pushed(parts, at, size) == Append(parts, [at |-> at, size |-> size, next |-> at + size])
NextFree(parts) == IF parts = <<>> THEN 0 ELSE parts[Len(parts)].next
Texts(row) ==                              \* a column's text, then its name
  LET texts[k \in 0 .. Len(row)] ==
        IF k = 0 THEN <<>>
        ELSE LET value == Pushed(texts[k - 1], NextFree(texts[k - 1]), row[k] + 1)
             IN  Pushed(value, NextFree(value), 2)
  IN  texts[Len(row)]
Laid(row) ==
  LET texts  == Texts(row)
      values == Pushed(texts, Aligned(NextFree(texts)), WordSize * Len(row))
  IN  Pushed(values, Aligned(NextFree(values)), WordSize * Len(row))
Fits(part) == part.at + part.size <= ScratchSize

(* One sqlite3_step: a row is copied and its callback entered, or there is *)
(* no room for all of it, and the query fails with the parts before the    *)
(* first that does not fit written.                                        *)
PassRow ==
  /\ running # <<>> /\ ~Inner.inCallback
  /\ Inner.rows # <<>>
  /\ calls < MaxCalls /\ Count
  /\ LET parts == Laid(Head(Inner.rows))
         holder(b) == {p \in DOMAIN parts : Fits(parts[p]) /\ b \in Bytes(parts[p])}
     IN  /\ scratch' = [b \in DOMAIN scratch |->
              IF holder(b) = {} THEN scratch[b]
              ELSE <<calls + 1, CHOOSE p \in holder(b) : \A r \in holder(b) : r <= p>>]
         /\ running' = IF \A p \in DOMAIN parts : Fits(parts[p])
                       THEN WithInner([Inner EXCEPT !.rows = Tail(@), !.inCallback = TRUE,
                                                    !.queried = FALSE, !.parts = parts,
                                                    !.serial = calls + 1])
                       ELSE Outer
  /\ UNCHANGED <<managerRefs, dbs, nextObject, handles>>

\* the callback returns: anything but 0 aborts the query
CallbackReturns(abort) ==
  /\ running # <<>> /\ Inner.inCallback
  /\ running' = IF abort THEN Outer
                ELSE WithInner([Inner EXCEPT !.inCallback = FALSE, !.queried = FALSE,
                                             !.parts = <<>>, !.serial = 0])
  /\ UNCHANGED <<managerRefs, dbs, nextObject, handles, calls>> /\ KeepScratch

\* sqlite3_step answers that it is done, or an error: both finalize
QueryEnds ==
  /\ running # <<>> /\ ~Inner.inCallback
  /\ running' = Outer
  /\ UNCHANGED <<managerRefs, dbs, nextObject, handles, calls>> /\ KeepScratch

SqlNext ==
  \/ MgrAddRef \/ MgrRelease
  \/ \E sound \in BOOLEAN : OpenDatabase(sound)
  \/ \E o \in Live : \/ DbAddRef(o) \/ DbRelease(o)
                     \/ \E t \in Tables : Exec(o, t)
  \/ PassRow \/ QueryEnds
  \/ \E abort \in BOOLEAN : CallbackReturns(abort)
SqlSpec == SqlInit /\ [][SqlNext]_sqlVars

SqlTypeOK ==
  /\ managerRefs \in Nat
  /\ Live \subseteq 0 .. Objects /\ \A o \in Live : dbs[o] > 0
  /\ Live \subseteq handles

(* The row a callback was given is whole for as long as the callback       *)
(* queries nothing: every text and every array keeps its own bytes of the  *)
(* scratch area.  A query inside the callback starts the area afresh and   *)
(* overwrites the row its caller is still reading (src/core/brew/          *)
(* sql_hle.cpp:322); that is why the property stops there.                 *)
RowIsWhole ==
  running # <<>> /\ Inner.inCallback /\ ~Inner.queried =>
    \A p \in DOMAIN Inner.parts : \A b \in Bytes(Inner.parts[p]) :
      scratch[b] = <<Inner.serial, p>>

(* No database object reaches the scratch area the rows are copied to      *)
(* (src/core/brew/sql_hle.cpp:206).                                        *)
ObjectsBeforeScratch == \A o \in Live : o < Objects

SqlBounds ==
  /\ Objects \in Nat /\ ScratchSize \in Nat /\ WordSize \in Nat \ {0}
  /\ Tables \subseteq Seq(Seq(Nat))

Part == [at : Nat, size : Nat, next : Nat]
Query == [object : Nat, rows : Seq(Seq(Nat)), inCallback : BOOLEAN, queried : BOOLEAN,
          parts : Seq(Part), serial : Nat]

(* Of the queries under way, all but the innermost were queried from.      *)
SqlInv ==
  /\ nextObject \in 0 .. Objects /\ \A o \in Live : o \in Nat /\ o < nextObject
  /\ calls \in Nat
  /\ DOMAIN scratch = 0 .. ScratchSize - 1
  /\ running \in Seq(Query)
  /\ \A k \in DOMAIN running : k < Len(running) => running[k].queried
  /\ RowIsWhole
=============================================================================
