---------------------------- MODULE ResultReader ----------------------------
(***************************************************************************)
(* What a script is promised when it reads a batch with sqlsrv_fetch:      *)
(* asked for the next row it gets the rows of the current result one by    *)
(* one, in order, none twice and none left out, from wherever it jumped    *)
(* to; "no more rows" is said only after the last one; an error may end    *)
(* the result early but never lets a later row through.                    *)
(***************************************************************************)
EXTENDS Naturals, Sequences

VARIABLES results,   \* the results the script has not moved past, the current one first
          row,       \* how many rows of the current one it was handed
          told       \* what the last call said: "row", "end", "jump", "error" or "other"

reader == <<results, row, told>>

Rows == IF results = << >> THEN 0 ELSE Head(results).rows

HandRow == /\ row < Rows
           /\ row' = row + 1
           /\ told' = "row"
           /\ UNCHANGED results

SayEnd == /\ results # << >>
          /\ row >= Rows
          /\ row' = Rows + 1
          /\ told' = "end"
          /\ UNCHANGED results

(* A scrollable reader may go to any row, or past either end.              *)
Jump == /\ row' \in 0 .. Rows + 1
        /\ told' = "jump"
        /\ UNCHANGED results

(* A failing call may have used up a row, or ended the result; a failing   *)
(* look from past the end may have started over and used up the first row. *)
SayError == /\ row' \in {row, row + 1, Rows + 1} \cup IF row > Rows THEN {1} ELSE {}
            /\ told' = "error"
            /\ UNCHANGED results

(* A call that does not read: the place in the result stays.               *)
Look == /\ told' = "other"
        /\ UNCHANGED <<results, row>>

(* Looking for rows from past the end of the result starts it over.        *)
StartOver == /\ row > Rows
             /\ row' = 0
             /\ told' = "other"
             /\ UNCHANGED results

(* Another result becomes current, or the results are gone.                *)
Move == /\ results' # results
        /\ row' = 0
        /\ told' \in {"other", "error"}

(* When there is nothing to read, nothing is promised about what is said.  *)
Nothing == results = << >> /\ results' = << >> /\ row' = 0

ReaderInit == results = << >> /\ row = 0 /\ told = "other"
ReaderNext == HandRow \/ SayEnd \/ Jump \/ SayError \/ Look \/ StartOver \/ Move \/ Nothing
ReaderSpec == ReaderInit /\ [][ReaderNext]_reader
=============================================================================
