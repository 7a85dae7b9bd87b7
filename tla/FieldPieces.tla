---------------------------- MODULE FieldPieces ----------------------------
(***************************************************************************)
(* How the value of one field travels in pieces: from the driver into the  *)
(* row cache of a buffered result (read_lob_field), and from the cache or  *)
(* the driver to the script, as a string (get_field_as_string) or through  *)
(* a stream (sqlsrv_stream_read).                                          *)
(*                                                                         *)
(* A value is a sequence of units: the bytes the source hands out, or what *)
(* it makes one byte of (two hex digits, a wide character).  Unit i of the *)
(* value is the number i; 0 stands for any byte that is not of the value.  *)
(* Lengths are counted in bytes where the code counts bytes, and the sizes *)
(* of its buffers are constants.                                           *)
(***************************************************************************)
EXTENDS Integers, Sequences

CONSTANTS MaxUnits,       \* bound on the length of a value
          InitialLen,     \* INITIAL_LOB_FIELD_LEN, INITIAL_FIELD_STRING_LEN
          Padding,        \* what get_field_as_string adds to an estimated length
          StreamBuffer,   \* PHP_STREAM_BUFFER_SIZE
          Counts,         \* what PHP may ask of a stream in one read
          Limit,          \* buffered_query_limit, in bytes
          Conversions,    \* the conversions to consider
          DisplaySizes,   \* sql_display_size of a column, in bytes
          Estimates       \* what the driver's length of a conversion is off by

Types == {"char", "wchar", "binary"}

ASSUME FieldAssumption ==
  /\ MaxUnits \in Nat /\ Limit \in Nat
  /\ Padding \in Nat \ {0, 1}
  /\ InitialLen \in Nat \ {0} /\ InitialLen % 4 = 0
  /\ StreamBuffer \in Nat /\ StreamBuffer % 4 = 0 /\ StreamBuffer > 4
  /\ Counts \subseteq { n \in Nat : n % 8 = 0 /\ n > 8 }
  /\ Conversions \subseteq [source : {"driver", "buffered"}, stored : Types, target : Types]
  /\ DisplaySizes \subseteq Nat \ {0} /\ Estimates \subseteq Int

VARIABLES field,      \* the conversion asked for
          units,      \* the length of the value
          sized,      \* SQLGetData tells how much is left, else SQL_NO_TOTAL
          estimate,   \* what it is off by when it has to guess
          reader,     \* the loop that runs
          taken,      \* read_so_far, or how far SQLGetData is
          already,    \* already_read of read_lob_field
          to_read,    \* to_read of read_lob_field, field_len_temp
          full,       \* full_length_returned
          held,       \* what the reader has put together
          length,     \* the length it gives, in bytes
          stream_eof, \* of the stream
          cached,     \* the value in the row cache
          first       \* the bytes the first piece of a string had room for

field_vars == <<field, units, sized, estimate, reader, taken, already, to_read, full, held, length,
                stream_eof, cached, first>>

NO_TOTAL == -4
Value(n) == [i \in 1 .. n |-> i]
Least(a, b) == IF a <= b THEN a ELSE b
NoLess(bytes) == IF bytes > 0 THEN bytes ELSE 0

(* The bytes a terminator takes, and those one unit becomes.               *)
Extra(type)  == CASE type = "char" -> 1 [] type = "wchar" -> 2 [] OTHER -> 0
UnitBytes(f) ==
  CASE f.stored = "binary" -> (CASE f.target = "char" -> 2 [] f.target = "wchar" -> 4 [] OTHER -> 1)
    [] f.stored = "char" /\ f.target = "wchar" -> 2
    [] OTHER -> 1

(* A string copied as it is keeps room for the terminator of its own type. *)
Terminator(f) == IF f.source = "buffered" /\ f.target = "binary" THEN Extra(f.stored) ELSE Extra(f.target)

(* A piece of a value of which "rest" units are left, for a buffer.        *)
Cut(f, space, rest)     == space < rest * UnitBytes(f) + Terminator(f)

Copied(f, space, rest)  ==
  IF Cut(f, space, rest) THEN NoLess(space - Terminator(f)) \div UnitBytes(f) ELSE rest
ValuePiece(src, from, n) == [i \in 1 .. n |-> src[from + i]]

(* Wide characters the driver makes bytes of: until it has converted all   *)
(* that is left, it can only guess how many.                               *)
Guessed(f) == f.source = "driver" /\ f.stored = "wchar" /\ f.target = "char"
Told(f, space, rest) ==
  IF Guessed(f) /\ Cut(f, space, rest) THEN NoLess(rest * UnitBytes(f) + estimate) ELSE rest * UnitBytes(f)

(* What a piece says is left.  The driver may not know; system_to_wide_    *)
(* string looks for the length where the rest of the value starts, which   *)
(* is in the middle of the text on every piece but the first.              *)
Misread == {-1000, 1000}
Indicators(f, known, space, from, rest) ==
  IF f.source = "driver" /\ ~known /\ Cut(f, space, rest) THEN {NO_TOTAL}
  ELSE IF f.source = "buffered" /\ f.stored = "char" /\ f.target = "wchar" /\ from > 0 THEN Misread
  ELSE { Told(f, space, rest) }

(* The row cache is filled with pieces of the type the value is stored as. *)
Stored == [source |-> "driver", stored |-> field.stored, target |-> field.stored]

(* wide_to_system_string converts the whole value before its first piece.  *)
Source == IF field.source = "driver" THEN Value(units)
          ELSE IF field.stored = "wchar" /\ field.target = "char"
          THEN [i \in 1 .. Len(cached) \div 2 |-> IF cached[2 * i] = 2 * i THEN i ELSE 0]
          ELSE cached

Whole  == IF field.source = "buffered" /\ field.stored = "wchar" /\ field.target = "char"
          THEN Value(units \div 2) ELSE Value(units)

(* What a buffer holds when a piece is put at an offset, and the first n   *)
(* units of it.                                                            *)
Put(buffer, offset, piece) ==
  [i \in 1 .. offset + Len(piece) |->
     IF i > offset THEN piece[i - offset] ELSE IF i <= Len(buffer) THEN buffer[i] ELSE 0]
Prefix(buffer, n) == [i \in 1 .. n |-> IF i <= Len(buffer) THEN buffer[i] ELSE 0]

FieldInit == /\ field \in Conversions
             /\ units \in 0 .. MaxUnits
             /\ field.stored = "wchar" => units % 2 = 0
             /\ sized \in BOOLEAN
             /\ estimate \in IF Guessed(field) THEN Estimates ELSE {0}
             /\ reader = "idle"
             /\ taken = 0 /\ already = 0 /\ to_read = 0 /\ full = FALSE
             /\ held = <<>> /\ length = 0 /\ stream_eof = FALSE /\ cached = <<>>
             /\ first = 0

Ends(outcome) == reader' = outcome
---------------------------------------------------------------------------
(* read_lob_field.                                                         *)
LobStart == /\ reader = "idle" /\ field.source = "buffered"
            /\ reader' = "lob"
            /\ to_read' = InitialLen
            /\ UNCHANGED <<field, units, sized, estimate, taken, already, full, held, length, stream_eof, cached, first>>

(* Mutant: the size of each read is added, not what it grew by.            *)
AlreadyAdded == already + to_read

(* What has been read when a piece was cut.                                *)
AlreadyRead == to_read

(* Mutant: the limit is held against characters.                           *)
OverLimitChars(bytes) == bytes \div 2 > Limit

OverLimit(bytes) == bytes > Limit

(* Mutant: the buffer is not made larger.                                  *)
GrownNot(bytes) == bytes

Grown(bytes) == 2 * bytes

(* The first piece told the length: the next read takes the rest.          *)
LobTotal(total) == /\ to_read' = total
                   /\ full' = TRUE

(* A piece that was cut: more memory, unless the limit of the query says   *)
(* otherwise.                                                              *)
LobMore(space) ==
  /\ Cut(Stored, space, units - taken)
  /\ held' = Put(held, already, ValuePiece(Value(units), taken, Copied(Stored, space, units - taken)))
  /\ taken' = taken + Copied(Stored, space, units - taken)
  /\ \E left \in Indicators(Stored, sized, space, taken, units - taken) :
       \/ /\ left # NO_TOTAL
          /\ LobTotal(left) /\ length' = left
          /\ Ends(IF OverLimit(left) THEN "failed" ELSE "lob")
       \/ /\ left = NO_TOTAL
          /\ to_read' = Grown(to_read)
          /\ Ends(IF OverLimit(Grown(to_read)) THEN "failed" ELSE "lob")
          /\ UNCHANGED <<full, length>>
  /\ already' = AlreadyRead
  /\ UNCHANGED <<field, units, sized, estimate, stream_eof, cached, first>>

LobLast(space) ==
  /\ ~Cut(Stored, space, units - taken)
  /\ held' = Put(held, already, ValuePiece(Value(units), taken, units - taken))
  /\ taken' = 0
  /\ length' = IF full THEN length ELSE already + units - taken
  /\ \/ OverLimit(units - taken) /\ Ends("failed") /\ UNCHANGED cached
     \/ ~OverLimit(units - taken) /\ Ends("cached") /\ cached' = Prefix(held', length')
  /\ UNCHANGED <<field, units, sized, estimate, already, to_read, full, stream_eof, first>>

LobRead == /\ reader = "lob"
           /\ LET space == to_read - already + Extra(field.stored) IN
              LobMore(space) \/ LobLast(space)

(* The row cache converts text: wide characters all at once before their   *)
(* first piece, others with each piece; what has no counterpart is an      *)
(* error.                                                                  *)
Translates ==
  /\ field.source = "buffered"
  /\ \/ field.stored = "wchar" /\ field.target = "char" /\ taken = 0
     \/ field.stored = "char" /\ field.target = "wchar"

(* A NULL is told by the length of the first piece; SQLGetData of the      *)
(* driver may fail on any, and so may a conversion.                        *)
GivesUp == /\ \/ reader \in {"lob", "string", "stream"} /\ taken = 0 /\ held = <<>> /\ ~stream_eof /\ Ends("null")
              \/ reader = "lob" /\ Ends("failed")
              \/ reader \in {"string", "grow", "rest", "stream"} /\ field.source = "driver" /\ Ends("failed")
              \/ reader \in {"string", "rest", "stream"} /\ Translates /\ ~stream_eof /\ Ends("failed")
           /\ UNCHANGED <<field, units, sized, estimate, taken, already, to_read, full, held, length, stream_eof, cached, first>>
---------------------------------------------------------------------------
Ready == reader = (IF field.source = "buffered" THEN "cached" ELSE "idle")

(* The column says how much room its values need when they are displayed.  *)
(* Text that the driver converts to the encoding of the client may need    *)
(* more.                                                                   *)
Widens == field.source = "driver" /\ field.stored # "binary" /\ field.target = "char"
FirstSizes ==
  { InitialLen, Len(Source) * UnitBytes(field) } \cup (IF Widens THEN DisplaySizes ELSE {})

(* get_field_as_string: the size is known from the column, or a first      *)
(* piece is read to learn it.                                              *)
StringStart ==
  /\ Ready
  /\ reader' = "string"
  /\ held' = <<>> /\ already' = 0
  /\ to_read' \in FirstSizes /\ first' = to_read'
  /\ UNCHANGED <<field, units, sized, estimate, taken, full, length, stream_eof, cached>>

(* One piece put at an offset given in bytes.                              *)
Take(space, offset) ==
  /\ held' = Put(held, offset \div UnitBytes(field),
                 ValuePiece(Source, taken, Copied(field, space, Len(Source) - taken)))
  /\ taken' = taken + Copied(field, space, Len(Source) - taken)

Left(space) == Indicators(field, sized, space, taken, Len(Source) - taken)

StringFirst ==
  /\ reader = "string"
  /\ LET space == to_read + Extra(field.target) IN
     /\ Take(space, 0)
     /\ \E left \in Left(space) :
          /\ reader' = IF ~Cut(field, space, Len(Source) - taken) THEN "done"
                       ELSE IF left = NO_TOTAL THEN "grow" ELSE "rest"
          /\ length' = left
          /\ to_read' = IF left = NO_TOTAL THEN InitialLen ELSE left - InitialLen
  /\ UNCHANGED <<field, units, sized, estimate, already, full, stream_eof, cached, first>>

(* The driver never says how much there is: read again into twice the      *)
(* space until a piece was not cut.                                        *)
StringGrow ==
  /\ reader = "grow"
  /\ LET space == to_read + Extra(field.target) IN
     /\ Take(space, to_read)
     /\ \E left \in Left(space) :
          /\ to_read' = to_read + (IF left = NO_TOTAL THEN to_read ELSE left)
          /\ length' = to_read'
     /\ reader' = IF Cut(field, space, Len(Source) - taken) THEN "grow" ELSE "done"
  /\ UNCHANGED <<field, units, sized, estimate, already, full, stream_eof, cached, first>>

(* Mutant: the rest is written over the first piece.                       *)
RestAtStart == 0

(* Where the rest goes: behind a first piece of the initial length.        *)
RestAt == InitialLen

(* The length is an estimate: the rest is read into a little more space.   *)
(* What was cut again is a warning, which the caller may have asked to be  *)
(* told as an error.  The driver refuses a length below zero.              *)
StringRest ==
  /\ reader = "rest"
  /\ LET space == to_read + Padding IN
     \/ /\ space >= 0
        /\ Take(space, RestAt)
        /\ \E left \in Left(space) : length' = InitialLen + left
        /\ Ends("done") \/ (Cut(field, space, Len(Source) - taken) /\ Ends("failed"))
     \/ /\ space < 0
        /\ Ends("failed")
        /\ UNCHANGED <<held, taken, length>>
  /\ UNCHANGED <<field, units, sized, estimate, already, to_read, full, stream_eof, cached, first>>
---------------------------------------------------------------------------
StreamStart == /\ Ready
               /\ reader' = "stream"
               /\ held' = <<>> /\ length' = 0 /\ stream_eof' = FALSE
               /\ UNCHANGED <<field, units, sized, estimate, taken, already, to_read, full, cached, first>>

(* Text in UTF-8 grows when it is converted: half of what was asked for is *)
(* read, and no more than the buffer between holds.                        *)
SpaceFor(count) == IF field.target = "wchar" THEN Least(count \div 2, StreamBuffer) ELSE count

(* Mutant: the terminator is given, too.                                   *)
GivenTerminated(space) == space

(* What is given of a piece that was cut: hex digits come in pairs, other  *)
(* text ends before its terminator, binary data has none.                  *)
Given(space) ==
  CASE field.target = "binary" -> space
    [] field.target = "wchar" -> IF field.stored = "binary" THEN ((space - 2) \div 4) * 4 ELSE space - 2
    [] OTHER -> IF field.stored = "binary" THEN ((space - 1) \div 2) * 2 ELSE space - 1

(* Mutant: the end is only known when nothing more comes.                  *)
AtEndLate(space, none, left) == none

AtEnd(space, none, left) == none \/ (left <= space /\ left # NO_TOTAL)

(* sqlsrv_stream_read: the end of the value is told from what was left,    *)
(* and the bytes given from whether the piece was cut.  Text that comes to *)
(* nothing cannot be converted.                                            *)
StreamRead(count) ==
  /\ reader = "stream" /\ ~stream_eof
  /\ LET space == SpaceFor(count)
         cut   == Cut(field, space, Len(Source) - taken)
         none  == field.source = "driver" /\ taken = Len(Source) /\ taken > 0
     IN \E left \in Left(space) :
          LET given == IF none THEN 0 ELSE IF cut THEN Given(space) ELSE left IN
          /\ taken' = taken + Copied(field, space, Len(Source) - taken)
          /\ stream_eof' = AtEnd(space, none, left)
          /\ held' = held \o Prefix(ValuePiece(Source, taken, taken' - taken), given \div UnitBytes(field))
          /\ length' = length + given
          /\ reader' = IF ~none /\ field.target = "wchar" /\ given = 0 THEN "failed" ELSE "stream"
  /\ UNCHANGED <<field, units, sized, estimate, already, to_read, full, cached, first>>

StreamEnd == /\ reader = "stream" /\ stream_eof
             /\ Ends("done")
             /\ UNCHANGED <<field, units, sized, estimate, taken, already, to_read, full, held, length, stream_eof, cached, first>>
---------------------------------------------------------------------------
StringRead == StringFirst \/ StringGrow \/ StringRest
FieldNext == \/ LobStart \/ LobRead \/ GivesUp
             \/ StringStart \/ StringRead
             \/ StreamStart \/ (\E count \in Counts : StreamRead(count)) \/ StreamEnd

FieldSpec == FieldInit /\ [][FieldNext]_field_vars

(* The loops run inside one call of the extension; a script that wants the *)
(* whole of a stream reads on until its end.                               *)
FieldFairSpec == /\ FieldSpec
                 /\ WF_field_vars(LobRead) /\ WF_field_vars(StringRead)
                 /\ WF_field_vars(StreamEnd \/ \E count \in Counts : StreamRead(count))
---------------------------------------------------------------------------
Readers == {"idle", "lob", "cached", "string", "grow", "rest", "stream", "done", "null", "failed"}

FieldTypeOK == /\ field \in Conversions
               /\ units \in 0 .. MaxUnits /\ sized \in BOOLEAN /\ estimate \in Int
               /\ reader \in Readers
               /\ taken \in Nat /\ already \in Nat /\ to_read \in Int /\ first \in Nat
               /\ full \in BOOLEAN /\ stream_eof \in BOOLEAN /\ length \in Int
               /\ held \in Seq(0 .. MaxUnits) /\ cached \in Seq(0 .. MaxUnits)

(* A value a buffered result keeps is the value the server has: the pieces *)
(* read_lob_field asks for fit together, whether or not the driver told it *)
(* the length.                                                             *)
CachedWhole == reader = "cached" => cached = Value(units)

(* A value that the row cache keeps is within the limit of the query.      *)
LimitHonoured == reader = "cached" => units <= Limit

(* The first piece was all there is, or of the length the rest is put      *)
(* behind; and the padding makes up for what the driver guessed too low.   *)
Fits   == first = InitialLen \/ ~Cut(field, first + Extra(field.target), Len(Source))
Padded == estimate + Padding >= Extra(field.target)

(* A string the script gets is the value, all of it and nothing else,      *)
(* unless the guess was further off than the padding.                      *)
StringWhole ==
  reader = "done" /\ ~stream_eof /\ Fits /\ Padded
    => held = Whole /\ length = Len(Whole) * UnitBytes(field)

(* "Get the rest of the data" (core_stmt.cpp 1841): the same whatever room *)
(* the first piece had.                                                    *)
RestFollows ==
  reader = "done" /\ ~stream_eof /\ Padded => held = Whole /\ length = Len(Whole) * UnitBytes(field)

(* Pieces are put together once and whole, over both of the code's loops   *)
(* and the limit on what the row cache keeps (core_results.cpp 1475-1581,  *)
(* core_stmt.cpp 1702-1870).                                               *)
ValueWhole == FieldTypeOK /\ CachedWhole /\ LimitHonoured /\ StringWhole

(* A stream gives the value from its start and without gaps; at the end no *)
(* more is missing than fits into the place of one terminator, and what    *)
(* the driver guessed too low.                                             *)
StreamInOrder ==
  reader = "stream" \/ (reader = "done" /\ stream_eof)
    => /\ held = Prefix(Whole, Len(held)) /\ Len(held) <= Len(Whole)
       /\ length = Len(held) * UnitBytes(field)
       /\ stream_eof => (Len(Whole) - Len(held)) * UnitBytes(field)
                    < Terminator(field) + UnitBytes(field) + NoLess(-estimate)

(* A value asked for arrives or fails: no loop reads forever.              *)
ReadEnds == /\ reader = "lob" ~> reader \in {"cached", "null", "failed"}
            /\ reader \in {"string", "stream"} ~> reader \in {"done", "null", "failed"}
=============================================================================
