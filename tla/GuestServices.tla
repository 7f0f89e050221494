--------------------------- MODULE GuestServices ---------------------------
(***************************************************************************)
(* Two small services of the console that src/tools/game_probe.cpp answers *)
(* itself: the vector (AEECLSID_VETOR, :3345) and the reader of lines over *)
(* an open file (ISourceUtil, ISource and IGetLine, :3442), of which there *)
(* is one object and one text for the whole player.                        *)
(***************************************************************************)
EXTENDS Integers, Sequences, FiniteSets, SequencesExt

CONSTANTS
  Vectors,           \* the vectors the title makes
  MaxItems,
  Texts,             \* the files read by lines: sequences of "a", "cr" and "nl"
  MaxSources         \* how many sources the title opens

VARIABLES
  vectors,           \* the items of each vector
  source,            \* active_source: the text and the cursor
  opened,            \* the texts of the sources opened, in order
  lines              \* the lines read so far of the last source

serviceVars == <<vectors, source, opened, lines>>

All == 0 - 1         \* ~0u: insert at the end

ServicesInit ==
  /\ vectors = [v \in Vectors |-> <<>>]
  /\ source = [text |-> <<>>, cursor |-> 1]
  /\ opened = <<>>
  /\ lines = <<>>

KeepLines == UNCHANGED <<source, opened, lines>>

(* Slot 8: past the last item, or with ~0, the item goes to the end.       *)
Inserted(items, index, item) ==
  IF index = All \/ index >= Len(items) THEN Append(items, item)
  ELSE InsertAt(items, index + 1, item)

InsertItem(v, index, item) ==
  /\ Len(vectors[v]) < MaxItems
  /\ vectors' = [vectors EXCEPT ![v] = Inserted(@, index, item)]
  /\ KeepLines

\* slot 9
RemoveItem(v, index) ==
  /\ IF index < Len(vectors[v])
     THEN vectors' = [vectors EXCEPT ![v] = RemoveAt(@, index + 1)]
     ELSE UNCHANGED vectors
  /\ KeepLines

\* slots 1 and 10: releasing a vector empties it as clearing it does
ClearVector(v) ==
  /\ vectors' = [vectors EXCEPT ![v] = <<>>]
  /\ KeepLines

(* SourceFromFile: the text of the open file replaces the one before.      *)
OpenSource(text) ==
  /\ Len(opened) < MaxSources
  /\ source' = [text |-> text, cursor |-> 1]
  /\ opened' = Append(opened, text)
  /\ lines' = <<>>
  /\ UNCHANGED vectors

(* IGetLine: up to the next new line, without a carriage return before it. *)
NextLine_KeepsCr(s) ==
  LET ends == {n \in s.cursor .. Len(s.text) : s.text[n] = "nl"}
      end  == IF ends = {} THEN Len(s.text) + 1
              ELSE CHOOSE n \in ends : \A m \in ends : n <= m
  IN  [line |-> SubSeq(s.text, s.cursor, end - 1),
       cursor |-> IF ends = {} THEN end ELSE end + 1]
NextLine(s) ==
  LET ends == {n \in s.cursor .. Len(s.text) : s.text[n] = "nl"}
      end  == IF ends = {} THEN Len(s.text) + 1
              ELSE CHOOSE n \in ends : \A m \in ends : n <= m
      line == SubSeq(s.text, s.cursor, end - 1)
  IN  [line |-> IF line # <<>> /\ line[Len(line)] = "cr"
                THEN SubSeq(line, 1, Len(line) - 1) ELSE line,
       cursor |-> IF ends = {} THEN end ELSE end + 1]

GetLine ==
  /\ opened # <<>>
  /\ source.cursor <= Len(source.text)
  /\ source' = [source EXCEPT !.cursor = NextLine(source).cursor]
  /\ lines' = Append(lines, NextLine(source).line)
  /\ UNCHANGED <<vectors, opened>>

ServicesNext ==
  \/ \E v \in Vectors :
       \/ \E index \in {All} \cup 0 .. MaxItems, item \in {"x", "y"} : InsertItem(v, index, item)
       \/ \E index \in 0 .. MaxItems : RemoveItem(v, index)
       \/ ClearVector(v)
  \/ \E text \in Texts : OpenSource(text)
  \/ GetLine
ServicesSpec == ServicesInit /\ [][ServicesNext]_serviceVars

(* A source read to its end gives back its file: joining the lines read    *)
(* with new lines restores the text but for the carriage returns before    *)
(* them and the new line at its end.                                       *)
Dropped(text, n) == text[n] = "cr" /\ (n = Len(text) \/ text[n + 1] = "nl")
PlainTo(text) ==
  LET from[n \in 0 .. Len(text)] ==
        IF n = 0 THEN <<>>
        ELSE IF Dropped(text, n) THEN from[n - 1] ELSE Append(from[n - 1], text[n])
  IN  from
JoinedTo(parts) ==
  LET join[n \in 0 .. Len(parts)] ==
        IF n = 0 THEN <<>> ELSE join[n - 1] \o parts[n] \o <<"nl">>
  IN  join
Plain(text) == PlainTo(text)[Len(text)]
Joined(parts) == JoinedTo(parts)[Len(parts)]
LinesRestoreTheFile ==
  opened # <<>> /\ source.cursor > Len(source.text)
    => Joined(lines) \in {Plain(opened[Len(opened)]), Plain(opened[Len(opened)]) \o <<"nl">>}

(* Why they do, whatever the files (MCPlatform): the lines read are the text before the
   cursor, which stands behind a new line until the text has ended without one. *)
Letters == {"a", "cr", "nl"}
ServicesBounds == Texts \subseteq Seq(Letters)

ServicesInv ==
  /\ opened \in Seq(Seq(Letters)) /\ lines \in Seq(Seq(Letters))
  /\ opened # <<>> =>
       LET text == opened[Len(opened)] IN
       /\ source = [text |-> text, cursor |-> source.cursor]
       /\ source.cursor \in 1 .. Len(text) + 1
       /\ IF source.cursor = 1 \/ text[source.cursor - 1] = "nl"
          THEN Joined(lines) = PlainTo(text)[source.cursor - 1]
          ELSE source.cursor = Len(text) + 1 /\ Joined(lines) = Plain(text) \o <<"nl">>
=============================================================================
