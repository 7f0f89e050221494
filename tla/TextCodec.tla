---------------------------- MODULE TextCodec ----------------------------
(***************************************************************************)
(* UTF8TOWSTR and WSTRTOUTF8 of ModRuntime (core/brew/mod_runtime.cpp):    *)
(* a text is decoded character by character into UTF-16 and, here, encoded *)
(* again into a second buffer.                                             *)
(***************************************************************************)
EXTENDS Integers, Sequences, FiniteSets

CONSTANTS
    TextBytes,      \* bytes the texts are made of
    Longest,        \* bound: bytes of a text
    Caps            \* sizes of the buffers, in units without the terminator

VARIABLES
    text,       \* the source bytes
    cap,        \* what fits the destination of the running function
    in,         \* units consumed
    wide,       \* UTF-16 units written
    narrow,     \* bytes written back
    phase,      \* "decode", "encode" or "done"
    ok          \* the running function has met nothing wrong

codecVars == <<text, cap, in, wide, narrow, phase, ok>>

Texts == UNION {[1..n -> TextBytes] : n \in 0..Longest}

CodecInit ==
    /\ text \in Texts /\ cap \in Caps /\ in = 0 /\ wide = <<>> /\ narrow = <<>>
    /\ phase = "decode" /\ ok = TRUE

CodecTypeOK ==
    /\ in \in 0..Longest /\ wide \in Seq(1..65535) /\ narrow \in Seq(1..255)
    /\ phase \in {"decode", "encode", "done"} /\ ok \in BOOLEAN

(* Length of the sequence a first byte opens; 0 for none. *)
Need(b) ==
    IF b < 128 THEN 1 ELSE IF b \in 194..223 THEN 2
    ELSE IF b \in 224..239 THEN 3 ELSE IF b \in 240..244 THEN 4 ELSE 0

Continues(b) == b \in 128..191

(* The sequence of n bytes that begins after the first k. *)
Code(k, n) ==
    LET b(m) == text[k + m] - 128 IN
    CASE n = 1 -> text[k + 1]
      [] n = 2 -> (text[k + 1] - 192) * 64 + b(2)
      [] n = 3 -> (text[k + 1] - 224) * 4096 + b(2) * 64 + b(3)
      [] n = 4 -> (text[k + 1] - 240) * 262144 + b(2) * 4096 + b(3) * 64 + b(4)

Rejected_AllowsOverlong(n, code) == code > 1114111 \/ code \in 55296..57343

Rejected(n, code) ==
    \/ n = 3 /\ code < 2048
    \/ n = 4 /\ code < 65536
    \/ code > 1114111 \/ code \in 55296..57343

Utf16(code) ==
    IF code < 65536 THEN <<code>>
    ELSE <<55296 + (code - 65536) \div 1024, 56320 + ((code - 65536) % 1024)>>

Returns(result) ==
    /\ phase' = IF phase = "decode" /\ result THEN "encode" ELSE "done"
    /\ ok' = result /\ in' = 0 /\ UNCHANGED <<wide, narrow>>

Utf8towstr ==
    /\ phase = "decode" /\ UNCHANGED <<text, cap>>
    /\ IF in = Len(text) \/ Len(wide) >= cap THEN Returns(TRUE)
       ELSE LET n == Need(text[in + 1]) IN
            IF \/ n = 0 \/ in + n > Len(text)
               \/ \E m \in 2..n : ~Continues(text[in + m])
               \/ Rejected(n, Code(in, n))
            THEN Returns(FALSE)
            ELSE IF Len(wide) + Len(Utf16(Code(in, n))) > cap THEN Returns(TRUE)
            ELSE /\ wide' = wide \o Utf16(Code(in, n)) /\ in' = in + n
                 /\ UNCHANGED <<narrow, phase, ok>>

Six(code, n) == 128 + ((code \div n) % 64)

Utf8(code) ==
    IF code < 128 THEN <<code>>
    ELSE IF code < 2048 THEN <<192 + code \div 64, Six(code, 1)>>
    ELSE IF code < 65536 THEN <<224 + code \div 4096, Six(code, 64), Six(code, 1)>>
    ELSE <<240 + code \div 262144, Six(code, 4096), Six(code, 64), Six(code, 1)>>

High(u) == u \in 55296..56319

Low(u) == u \in 56320..57343

Paired(k) == 65536 + (wide[k] - 55296) * 1024 + (wide[k + 1] - 56320)

(* A character that does not fit is cut where the buffer ends. *)
Wstrtoutf8 ==
    /\ phase = "encode" /\ UNCHANGED <<text, cap>>
    /\ LET k == in + 1
           pair == k < Len(wide) /\ High(wide[k]) /\ Low(wide[k + 1])
           code == IF pair THEN Paired(k) ELSE wide[k]
       IN  IF in = Len(wide) THEN Returns(TRUE)
           ELSE IF ~pair /\ (High(wide[k]) \/ Low(wide[k])) THEN Returns(FALSE)
           ELSE IF Len(narrow) + Len(Utf8(code)) > cap
                THEN /\ narrow' = SubSeq(narrow \o Utf8(code), 1, cap)
                     /\ phase' = "done" /\ ok' = FALSE /\ in' = 0 /\ UNCHANGED wide
           ELSE /\ narrow' = narrow \o Utf8(code) /\ in' = in + (IF pair THEN 2 ELSE 1)
                /\ UNCHANGED <<wide, phase, ok>>

CodecNext == Utf8towstr \/ Wstrtoutf8

CodecSpec == CodecInit /\ [][CodecNext]_codecVars

-----------------------------------------------------------------------------
(* Properties. *)

(* The well-formed sequences, as the Unicode standard tabulates them by bytes. *)
Tail128(s, from) == \A m \in from..Len(s) : s[m] \in 128..191

WellFormedChar(s) ==
    \/ Len(s) = 1 /\ s[1] < 128
    \/ Len(s) = 2 /\ s[1] \in 194..223 /\ Tail128(s, 2)
    \/ Len(s) = 3 /\ Tail128(s, 3)
       /\ \/ s[1] = 224 /\ s[2] \in 160..191
          \/ s[1] = 237 /\ s[2] \in 128..159
          \/ s[1] \in 225..239 \ {237} /\ s[2] \in 128..191
    \/ Len(s) = 4 /\ Tail128(s, 3)
       /\ \/ s[1] = 240 /\ s[2] \in 144..191
          \/ s[1] = 244 /\ s[2] \in 128..143
          \/ s[1] \in 241..243 /\ s[2] \in 128..191

(* Places where a text that is cut into well-formed characters may be cut. *)
Boundary[n \in 0..Longest] ==
    n = 0 \/ \E k \in 0..n - 1 : /\ k >= n - 4 /\ Boundary[k]
                                 /\ n <= Len(text) /\ WellFormedChar(SubSeq(text, k + 1, n))

(* Decoding stops, unharmed, exactly at the end of a well-formed character, and
   answers FALSE only for a text that is not well formed there; neither function
   writes more units than fit; and a text that was decoded whole encodes to
   itself (Utf8towstrImpl, Wstrtoutf8Impl). *)
CodecFaithful ==
    /\ Len(wide) <= cap /\ Len(narrow) <= cap
    /\ phase = "decode" => Boundary[in]
    /\ phase = "done" /\ wide = <<>> /\ ~ok => ~Boundary[Len(text)] \/ Len(text) = 0
    /\ phase = "done" /\ ok /\ Boundary[Len(text)] /\ Len(text) <= cap => narrow = text
    /\ phase = "encode" /\ Len(text) <= cap => Boundary[Len(text)]
=============================================================================
