-------------------------------- MODULE Utf --------------------------------
(***************************************************************************)
(* SystemLocale's conversions between UTF-8 and UTF-16, which the Linux    *)
(* and macOS builds use for every string that goes to or comes from the    *)
(* server.  Strings are sequences of bytes or of 16-bit units; a result is *)
(* the text written and the error told.  room is the destination's size.   *)
(***************************************************************************)
EXTENDS Naturals, Sequences, FiniteSets, FiniteSetsExt, SequencesExt

CONSTANTS Bytes,      \* the bytes that texts are made of
          Units,      \* the units that texts are made of
          MaxBytes,   \* bound on the length of a text of bytes
          MaxUnits    \* bound on the length of a text of units

Replacement  == 65533                    \* U+FFFD
Utf8Default  == <<239, 191, 189>>        \* the same in UTF-8
High         == 55296 .. 56319           \* surrogates
Low         == 56320 .. 57343
Surrogates   == High \cup Low
LastScalar   == 1114111

Converted(text, error) == [text |-> text, error |-> error]
Whole(text)            == Converted(text, "success")
Insufficient(text)     == Converted(text, "insufficient buffer")
NoTranslation          == Converted(<<>>, "no translation")

-----------------------------------------------------------------------------
(* UTF-8 to UTF-16.  The first byte of a sequence gives its width and its  *)
(* first bits, each of the others six bits.                                *)
Width(b) == CASE b <= 127             -> 1
              [] b \in 192 .. 223     -> 2
              [] b \in 224 .. 239     -> 3
              [] b \in 240 .. 247     -> 4
              [] b \in 128 .. 191     -> 0
              [] b > 247              -> 0
FirstBits(b, w) == IF w = 1 THEN b ELSE b % 2 ^ (7 - w)
Least(w)        == <<0, 128, 2048, 65536>>[w]
IsTrail(b)      == b \in 128 .. 191

(* How many bytes after p are trail bytes, up to those the width asks for. *)
Trails(s, p, w) ==
  Max({ n \in 0 .. w - 1 : p + n <= Len(s) /\ \A i \in 1 .. n : IsTrail(s[p + i]) })

Code(s, p, w) ==
  LET Bits[n \in 0 .. w - 1] ==
        IF n = 0 THEN FirstBits(s[p], w) ELSE Bits[n - 1] * 64 + (s[p + n] % 64)
  IN  Bits[w - 1]

ScalarNoLeast(c, w) == c <= LastScalar /\ c \notin Surrogates   \* mutant: longer forms accepted
Scalar(c, w)        == c >= Least(w) /\ c <= LastScalar /\ c \notin Surrogates

(* What is read at p: a code point or the mark of an invalid sequence, and *)
(* the place to read on.                                                   *)
Decode(s, p) ==
  LET w == Width(s[p]) IN
  IF w = 0 THEN [valid |-> FALSE, code |-> Replacement, next |-> p + 1]
  ELSE IF Trails(s, p, w) < w - 1
       THEN [valid |-> FALSE, code |-> Replacement, next |-> p + 1 + Trails(s, p, w)]
  ELSE LET c == Code(s, p, w) IN
       [valid |-> Scalar(c, w), code |-> IF Scalar(c, w) THEN c ELSE Replacement, next |-> p + w]

UnitsOf(c) == IF c < 65536 THEN <<c>>
              ELSE << 55296 + (c - 65536) \div 1024, 56320 + ((c - 65536) % 1024) >>

RECURSIVE To16(_, _, _, _, _)
To16(s, p, out, room, strict) ==
  IF p > Len(s) THEN Whole(out)
  ELSE IF Len(out) = room THEN Insufficient(out)
  ELSE LET d == Decode(s, p) IN
       IF ~d.valid /\ strict THEN NoTranslation
       ELSE IF Len(UnitsOf(d.code)) > room - Len(out) THEN Insufficient(out)
       ELSE To16(s, d.next, out \o UnitsOf(d.code), room, strict)

Utf8To16(s, room)       == To16(s, 1, <<>>, room, FALSE)
Utf8To16Strict(s, room) == To16(s, 1, <<>>, room, TRUE)

(* Windows-1252: the bytes 128 to 159 are mapped by a table.               *)
s_1252Map ==
  <<8364, 63, 8218, 402, 8222, 8230, 8224, 8225, 710, 8240, 352, 8249, 338, 63, 381, 63,
    63, 8216, 8217, 8220, 8221, 8226, 8211, 8212, 732, 8482, 353, 8250, 339, 63, 382, 376>>
CP1252ToUtf16(s, room) ==
  LET n == Min({Len(s), room})
      t == [ i \in 1 .. n |-> IF s[i] \in 128 .. 159 THEN s_1252Map[s[i] - 127] ELSE s[i] ]
  IN  IF n < Len(s) THEN Insufficient(t) ELSE Whole(t)

(* Other code pages, and a NULL destination, go to iconv (EXTERNAL).       *)
ToUtf16(page, s, negative, room, strict) ==
  IF negative THEN Converted(<<>>, "invalid parameter")
  ELSE IF page = "1252" THEN CP1252ToUtf16(s, room)
  ELSE IF strict THEN Utf8To16Strict(s, room) ELSE Utf8To16(s, room)

-----------------------------------------------------------------------------
(* UTF-16 to UTF-8.  Two surrogates in the right order are one character.  *)
PairAt(u, p) == u[p] \in High /\ p < Len(u) /\ u[p + 1] \in Low
Alone(u, p)  == u[p] \in Surrogates /\ ~PairAt(u, p)

(* An unpaired high surrogate with something after it is replaced and not told.      *)
ToldAlone(u, p) == Alone(u, p) /\ (u[p] \in Low \/ p = Len(u))

CodeAt(u, p) == IF PairAt(u, p) THEN 65536 + (u[p] - 55296) * 1024 + (u[p + 1] - 56320) ELSE u[p]
Taken(u, p)  == IF PairAt(u, p) THEN 2 ELSE 1

CodeBytes(c) ==
  CASE c < 128                  -> << c >>
    [] c \in 128 .. 2047        -> << 192 + c \div 64, 128 + (c % 64) >>
    [] c \in 2048 .. 65535      -> << 224 + c \div 4096, 128 + ((c \div 64) % 64), 128 + (c % 64) >>
    [] c >= 65536               -> << 240 + c \div 262144, 128 + ((c \div 4096) % 64),
                                      128 + ((c \div 64) % 64), 128 + (c % 64) >>
BytesAt(u, p) == IF Alone(u, p) THEN Utf8Default ELSE CodeBytes(CodeAt(u, p))

(* told is the error met so far; it hides that the room did not suffice    *)
(* when the last character written fills the destination exactly.          *)
RECURSIVE From16(_, _, _, _, _, _)
From16(u, p, out, room, strict, told) ==
  LET b == BytesAt(u, p) IN
  IF p > Len(u) THEN Converted(out, told)
  ELSE IF Len(out) = room
       THEN IF told = "success" THEN Insufficient(<<>>) ELSE Converted(out, told)
  ELSE IF Len(b) > room - Len(out) THEN Insufficient(<<>>)
  ELSE IF Alone(u, p) /\ strict THEN NoTranslation
  ELSE From16(u, p + Taken(u, p), out \o b, room, strict,
              IF ToldAlone(u, p) THEN "no translation" ELSE told)

Utf8From16(u, room)       == From16(u, 1, <<>>, room, FALSE, "success")
Utf8From16Strict(u, room) == From16(u, 1, <<>>, room, TRUE, "success")

(* A NULL destination: the bytes that a conversion needs.                  *)
RECURSIVE SizeFrom(_, _)
SizeFrom(u, p) == IF p > Len(u) THEN 0 ELSE Len(BytesAt(u, p)) + SizeFrom(u, p + Taken(u, p))
Utf8Size(u)    == SizeFrom(u, 1)

(* A negative length: the text goes up to and with its terminator.         *)
Terminated(u)  == SubSeq(u, 1, Min({Len(u)} \cup { i \in DOMAIN u : u[i] = 0 }))
FromUtf16(u, negative, room, strict) ==
  LET text == IF negative THEN Terminated(u) ELSE u IN
  IF strict THEN Utf8From16Strict(text, room) ELSE Utf8From16(text, room)

(* convert_string_from_utf16: four bytes for every unit, then the text and *)
(* a terminator of its own; nothing converted is a failure.                *)
RoomOfTwo(n)   == 2 * n                          \* mutant: two bytes for every unit
RoomForUtf8(n) == 4 * n
convert_string_from_utf16(u) ==
  IF u = <<>> THEN Whole(<<>>) ELSE FromUtf16(u, FALSE, RoomForUtf8(Len(u)), TRUE)

(* NextChar: the place of the character after the one at p.                *)
CchUtf8CodePt(b) == IF b \in 192 .. 223 THEN 2 ELSE IF b \in 224 .. 239 THEN 3 ELSE 4
NextChar(s, p) ==
  IF p > Len(s) \/ s[p] = 0 THEN p
  ELSE IF s[p] < 192 THEN p + 1
  ELSE p + 1 + Trails(s, p, CchUtf8CodePt(s[p]))

-----------------------------------------------------------------------------
(* The encodings as Unicode defines them.                                  *)
Texts8  == UNION { [1 .. n -> Bytes] : n \in 0 .. MaxBytes }
Texts16 == UNION { [1 .. n -> Units] : n \in 0 .. MaxUnits }

WellFormedChar(c) ==
  \/ Len(c) = 1 /\ c[1] <= 127
  \/ /\ Len(c) \in 2 .. 4
     /\ \A i \in 2 .. Len(c) : IsTrail(c[i])
     /\ CASE Len(c) = 2 -> c[1] \in 194 .. 223
          [] Len(c) = 3 -> /\ c[1] \in 224 .. 239
                           /\ c[1] = 224 => c[2] >= 160
                           /\ c[1] = 237 => c[2] <= 159
          [] Len(c) = 4 -> /\ c[1] \in 240 .. 244
                           /\ c[1] = 240 => c[2] >= 144
                           /\ c[1] = 244 => c[2] <= 143
RECURSIVE WellFormed8(_)
WellFormed8(s) ==
  s = <<>> \/ \E n \in 1 .. Min({4, Len(s)}) :
                 WellFormedChar(SubSeq(s, 1, n)) /\ WellFormed8(SubSeq(s, n + 1, Len(s)))

WellFormed16(u) ==
  \A i \in DOMAIN u : /\ u[i] \in High => i < Len(u) /\ u[i + 1] \in Low
                      /\ u[i] \in Low => i > 1 /\ u[i - 1] \in High

(* A UTF-8 text is read strictly exactly when it is well formed, comes back*)
(* as it was, never needs more units than it has bytes, so that the units  *)
(* and a terminator fit where the driver makes room for one unit a byte,   *)
(* and what fits in less room is a beginning of it, told as such.          *)
Utf8Reads(s) ==
  LET strict  == ToUtf16("utf8", s, FALSE, Len(s), TRUE)
      lenient == ToUtf16("utf8", s, FALSE, Len(s), FALSE) IN
  /\ (strict.error = "success") = WellFormed8(s)
  /\ WellFormed8(s) => /\ lenient = strict
                       /\ convert_string_from_utf16(strict.text) = Whole(s)
                       /\ \A p \in DOMAIN s : s[p] # 0 /\ ~IsTrail(s[p]) =>
                            NextChar(s, p) = Decode(s, p).next
  /\ lenient.error = "success"
  /\ \A room \in 1 .. Len(s) :
       LET part == ToUtf16("utf8", s, FALSE, room, FALSE) IN
       /\ IsPrefix(part.text, lenient.text) /\ Len(part.text) <= room
       /\ (part.error = "success") = (part.text = lenient.text)

(* A UTF-16 text is written strictly exactly when it is well formed, and   *)
(* is then read back as it was; the size that is told is the size that is  *)
(* written, and less room gives nothing unless a surrogate stood alone.    *)
Utf16Written(u) ==
  LET strict  == convert_string_from_utf16(u)
      lenient == FromUtf16(u, FALSE, Utf8Size(u), FALSE) IN
  /\ (strict.error = "success") = WellFormed16(u)
  /\ WellFormed16(u) => ToUtf16("utf8", strict.text, FALSE, Len(strict.text), TRUE) = Whole(u)
  /\ Len(lenient.text) = Utf8Size(u) /\ lenient.error # "insufficient buffer"
  /\ \A room \in 1 .. Utf8Size(u) - 1 :
       LET part == FromUtf16(u, FALSE, room, FALSE) IN
       part.text = <<>> \/ (part.error = "no translation" /\ ~WellFormed16(u))

EncodingsAgree == (\A s \in Texts8 : Utf8Reads(s)) /\ (\A u \in Texts16 : Utf16Written(u))

=============================================================================
