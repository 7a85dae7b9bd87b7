------------------------------ MODULE MCField ------------------------------
(* Conversions for FieldPieces.                                            *)
EXTENDS FieldPieces

From(source, stored, targets) ==
  { [source |-> source, stored |-> stored, target |-> t] : t \in targets }

(* What the driver converts, and what a row cache does, but for the pieces *)
(* whose length is misread or takes a terminator in.                       *)
Sound == From("driver", "char", Types) \cup From("driver", "wchar", Types)
         \cup From("driver", "binary", Types)
         \cup From("buffered", "binary", Types) \cup From("buffered", "wchar", {"char", "wchar"})
         \cup From("buffered", "char", {"char"})

(* Text of the code page, from the row cache as wide characters.           *)
Widened == From("buffered", "char", {"wchar"})

(* What the driver guesses too low, more than the padding makes up for and *)
(* just as much, or too high.                                              *)
Guesses == {-5, -2, 0, 4}

(* The bytes and units at which a range of the encodings begins or ends.   *)
EdgeBytes == {65, 128, 143, 144, 159, 160, 191, 193, 194, 224, 237, 239, 240, 244, 248}
EdgeUnits == {65, 127, 128, 2047, 2048, 55295, 55296, 56319, 56320, 57343, 57344, 65535}
Unicode   == INSTANCE Utf WITH Bytes <- EdgeBytes, Units <- EdgeUnits, MaxBytes <- 4, MaxUnits <- 3

(* A string that is read is converted to the encoding asked for without    *)
(* loss, or refused (SystemLocale, convert_string_from_utf16).             *)
ConvertedWhole == reader = "string" => Unicode!EncodingsAgree

=============================================================================
