---------------------------- MODULE TextFormat ----------------------------
(***************************************************************************)
(* The three printf of ModRuntime (core/brew/mod_runtime.cpp), which share *)
(* their parser and differ in where the arguments come from, in how they   *)
(* pad, and in the bound on the result; and atoi.  A text is a sequence of *)
(* characters; a format is a sequence of its pieces.                       *)
(***************************************************************************)
EXTENDS Integers, Sequences, SequencesExt

CONSTANTS
    Wide,           \* values of an argument; 2^32 in the code
    MaxPieces,      \* bound: pieces of a format
    Widths          \* bound: the field widths used

VARIABLES
    kind,       \* which printf
    format,     \* its format
    size,       \* the bound given to snprintf
    at,         \* the next piece
    out,        \* what was formatted so far
    used        \* the arguments consumed

formatVars == <<kind, format, size, at, out, used>>

Kinds == {"cursor", "sprintf", "snprintf"}

NoWidth == -1

Literal == [is : {"literal"}]

Directive == [is : {"directive"}, zero : BOOLEAN, width : Widths \cup {NoWidth},
              spec : {"d", "u", "s", "%", "?"}]

Cut == [is : {"cut"}]       \* a `%...' the format ends in

Pieces == Literal \cup Directive \cup Cut

(* The arguments in their order: any two values, of which "s" takes the text. *)
Argument(k) == IF k % 2 = 1 THEN Wide - 2 ELSE 1

Least(a, b) == IF a < b THEN a ELSE b

Signed(v) == IF v >= Wide \div 2 THEN v - Wide ELSE v

Digit(d) == <<"0", "1", "2", "3", "4", "5", "6", "7", "8", "9">>[d + 1]

Natural(v) == IF v < 10 THEN <<Digit(v)>> ELSE <<Digit((v \div 10) % 10), Digit(v % 10)>>

Decimal(v) == IF v < 0 THEN <<"-">> \o Natural(-v) ELSE Natural(v)

StringAt(v) == IF v = 1 THEN <<"t">> ELSE <<>>

Fill(p, n) == [k \in 1..n |-> IF p.zero THEN "0" ELSE " "]

Short(p, text) == p.width # NoWidth /\ Len(text) < p.width

(* SprintfImpl: whatever the directive, before the sign. *)
PaddedLeft(p, text) == IF Short(p, text) THEN Fill(p, p.width - Len(text)) \o text ELSE text

(* FormatSingleIntImpl, SnprintfImpl: numbers alone, after the sign. *)
Padded(p, text) ==
    IF p.spec \notin {"d", "u"} \/ ~Short(p, text) THEN text
    ELSE IF text[1] = "-" THEN <<"-">> \o Fill(p, p.width - Len(text)) \o Tail(text)
    ELSE Fill(p, p.width - Len(text)) \o text

Consumes(p) == p.is = "directive" /\ p.spec \in {"d", "u", "s"}

(* A directive nobody knows is copied with its flag and width. *)
Converted(p, v) ==
    CASE p.spec = "d" -> Decimal(Signed(v))
      [] p.spec = "u" -> Decimal(v)
      [] p.spec = "s" -> StringAt(v)
      [] OTHER -> <<"%">> \o (IF p.zero THEN <<"0">> ELSE <<>>)
                  \o (IF p.width = NoWidth THEN <<>> ELSE Natural(p.width)) \o <<p.spec>>

Shown(p, v) ==
    IF p.is = "literal" THEN <<"a">>
    ELSE IF p.spec = "%" /\ ~p.zero /\ p.width = NoWidth THEN <<"%">>
    ELSE IF kind = "cursor" THEN PaddedLeft(p, Converted(p, v))
    ELSE Padded(p, Converted(p, v))

FormatInit ==
    /\ kind \in Kinds /\ format \in UNION {[1..n -> Pieces] : n \in 0..MaxPieces}
    /\ size \in IF kind = "snprintf" THEN 0..3 ELSE {0}
    /\ at = 1 /\ out = <<>> /\ used = 0

FormatPiece ==
    /\ at <= Len(format)
    /\ LET p == format[at] IN
       IF p.is = "cut" THEN at' = Len(format) + 1 /\ UNCHANGED <<out, used>>
       ELSE /\ out' = out \o Shown(p, Argument(used + 1))
            /\ used' = IF Consumes(p) THEN used + 1 ELSE used
            /\ at' = at + 1
    /\ UNCHANGED <<kind, format, size>>

Done == at > Len(format)

FormatSpec == FormatInit /\ [][FormatPiece]_formatVars

(* What lies in the caller's buffer then; <<>> when nothing was written. *)
Written ==
    IF kind # "snprintf" THEN out \o <<"end">>
    ELSE IF size = 0 THEN <<>>
    ELSE SubSeq(out, 1, Least(Len(out), size - 1)) \o <<"end">>

Returned == Len(out)

-----------------------------------------------------------------------------
(* AtoiImpl: spaces, a sign, and the digits up to the first other character,
   held at the largest value. *)

IsDigit(c) == \E d \in 0..9 : Digit(d) = c

DigitValue(c) == CHOOSE d \in 0..9 : Digit(d) = c

(* The text from its first character that is none of the kind. *)
After(text, Kind(_)) ==
    LET n == CHOOSE k \in 0..Len(text) : /\ \A l \in 1..k : Kind(text[l])
                                         /\ k = Len(text) \/ ~Kind(text[k + 1])
    IN  SubSeq(text, n + 1, Len(text))

Atoi(text) ==
    LET body == After(text, LAMBDA c : c = " ")
        negative == body # <<>> /\ body[1] = "-"
        number == IF negative THEN Tail(body) ELSE body
        digits == SubSeq(number, 1, Len(number) - Len(After(number, IsDigit)))
        value == FoldLeft(LAMBDA acc, c : Least(acc * 10 + DigitValue(c), Wide \div 2 - 1), 0, digits)
    IN  IF negative THEN -value ELSE value

-----------------------------------------------------------------------------
(* Properties. *)

FormatTypeOK ==
    /\ kind \in Kinds /\ at \in 1..MaxPieces + 1 /\ used \in 0..MaxPieces
    /\ \A k \in DOMAIN out : out[k] \in STRING

OneNumber == Len(format) = 1 /\ format[1].is = "directive" /\ format[1].spec = "d"

(* A zero the flag asks for stands inside the number, a space before it. *)
Reads == \/ kind # "cursor" /\ (format[1].zero \/ ~Short(format[1], Decimal(Signed(Argument(1)))))
         \/ kind = "cursor" /\ ~format[1].zero

(* A printf takes one argument for each directive that wants one, whatever its
   width and flag, so that the arguments after it stay in step; snprintf never
   writes past the size, always ends the text there and returns its whole length;
   and a padded number is still that number to atoi (except a negative one that
   SprintfImpl pads with zeros, or the other two with spaces). *)
FormatsWell ==
    Done =>
      /\ used = Cardinality({k \in DOMAIN format : Consumes(format[k])
                             /\ \A l \in 1..k : format[l].is # "cut"})
      /\ kind = "snprintf" /\ size > 0 =>
             Len(Written) <= size /\ Last(Written) = "end"
             /\ (Returned < size => Front(Written) = out)
      /\ OneNumber /\ Reads => Atoi(out) = Signed(Argument(1))
=============================================================================
