------------------------- MODULE ConverterPoolSpec -------------------------
(***************************************************************************)
(* What the pool of iconv converters promises its threads: a converter is  *)
(* lent to one of them at a time, taken from those that are free or newly  *)
(* opened, and is free again or closed when it is given back.              *)
(***************************************************************************)
CONSTANTS Threads, Converters, NoConverter

VARIABLES free,    \* the converters that wait in the pool
          lent     \* the converter each thread has

vars == <<free, lent>>

Init == /\ free = {}
        /\ lent = [t \in Threads |-> NoConverter]

Opened == free \cup { lent[t] : t \in Threads }

Borrow(t, c) ==
  /\ lent[t] = NoConverter
  /\ c \in free \/ c \notin Opened
  /\ lent' = [lent EXCEPT ![t] = c]
  /\ free' = free \ {c}

Return(t) ==
  /\ lent[t] # NoConverter
  /\ lent' = [lent EXCEPT ![t] = NoConverter]
  /\ free' \in {free, free \cup {lent[t]}}

(* The pool is destroyed with the process; what is lent stays with its     *)
(* thread.                                                                 *)
Destroy == free' = {} /\ UNCHANGED lent

Next == \/ \E t \in Threads : Return(t) \/ \E c \in Converters : Borrow(t, c)
        \/ Destroy

Spec == Init /\ [][Next]_vars
=============================================================================
