--------------------------- MODULE ConverterPool ---------------------------
(***************************************************************************)
(* The cache of iconv converters for one pair of code pages                *)
(* (IConvCachePool), shared by the threads of the process, and the list it *)
(* is built on: a singly linked list under a spin lock                     *)
(* (interlockedslist.h).  Each access to shared memory is a step.          *)
(*                                                                         *)
(* Two looks at the list are taken without the lock: whether it is empty,  *)
(* before popping, and how long it is, before pushing.                     *)
(***************************************************************************)
EXTENDS Integers, FiniteSets

CONSTANTS Threads,
          Converters,     \* the converters there may be at a time (addresses)
          NoConverter,    \* NULL
          MAX_POOL_SIZE

ASSUME PoolAssumption == /\ NoConverter \notin Converters
                         /\ MAX_POOL_SIZE \in Nat \ {0}
                         /\ IsFiniteSet(Threads) /\ Threads # {}

VARIABLES head, succ,    \* the list: List.Head, and the Next of each entry
          Depth, Mutex,
          pc,             \* where each thread is
          oldHead,        \* its local variable of that name
          lent,           \* the converter it has: pCache
          destroyed,      \* s_PoolDestroyed
          free            \* history: the entries that were pushed and not popped

pool_vars == <<head, succ, Depth, Mutex, pc, oldHead, lent, destroyed, free>>

Popping == {"pop", "unlink", "count_down", "unlock_pop"}
Pushing == {"push", "set_next", "set_head", "count_up", "unlock_push"}
Inside  == Popping \cup Pushing          \* these hold the lock
Labels  == Inside \cup {"idle", "spin_pop", "open", "using", "spin_push"}

Entry == Converters \cup {NoConverter}

PoolTypeOK ==
  /\ head \in Entry /\ succ \in [Converters -> Entry]
  /\ Depth \in Nat /\ Mutex \in {0, 1}
  /\ pc \in [Threads -> Labels]
  /\ oldHead \in [Threads -> Entry] /\ lent \in [Threads -> Entry]
  /\ destroyed \in BOOLEAN
  /\ free \subseteq Converters

PoolInit ==
  /\ head = NoConverter /\ succ = [c \in Converters |-> NoConverter]
  /\ Depth = 0 /\ Mutex = 0
  /\ pc = [t \in Threads |-> "idle"]
  /\ oldHead = [t \in Threads |-> NoConverter] /\ lent = [t \in Threads |-> NoConverter]
  /\ destroyed = FALSE
  /\ free = {}

Goto(t, label) == pc' = [pc EXCEPT ![t] = label]

-----------------------------------------------------------------------------
(* The spin lock.                                                          *)

AcquireUnseen(t, from, to) ==   \* mutant of Acquire
  /\ pc[t] = from
  /\ Mutex' = 1
  /\ Goto(t, to)
  /\ UNCHANGED <<head, succ, Depth, oldHead, lent, destroyed, free>>

Acquire(t, from, to) ==
  /\ pc[t] = from
  /\ Mutex = 0 /\ Mutex' = 1
  /\ Goto(t, to)
  /\ UNCHANGED <<head, succ, Depth, oldHead, lent, destroyed, free>>

Release(t, from, to) ==    \* and the local goes out of scope
  /\ pc[t] = from
  /\ Mutex' = 0
  /\ oldHead' = [oldHead EXCEPT ![t] = NoConverter]
  /\ Goto(t, to)
  /\ UNCHANGED <<head, succ, Depth, lent, destroyed, free>>

(* InterlockedPopEntrySList.                                               *)
ReadHeadToPop(t) ==
  /\ pc[t] = "pop"
  /\ oldHead' = [oldHead EXCEPT ![t] = head]
  /\ Goto(t, IF head = NoConverter THEN "unlock_pop" ELSE "unlink")
  /\ UNCHANGED <<head, succ, Depth, Mutex, lent, destroyed, free>>

Unlink(t) ==
  /\ pc[t] = "unlink"
  /\ head' = succ[oldHead[t]]
  /\ lent' = [lent EXCEPT ![t] = oldHead[t]]
  /\ free' = free \ {oldHead[t]}
  /\ Goto(t, "count_down")
  /\ UNCHANGED <<succ, Depth, Mutex, oldHead, destroyed>>

CountDownTwice(t) ==   \* mutant of CountDown
  /\ pc[t] = "count_down"
  /\ Depth' = Depth - 2
  /\ Goto(t, "unlock_pop")
  /\ UNCHANGED <<head, succ, Mutex, oldHead, lent, destroyed, free>>

CountDown(t) ==
  /\ pc[t] = "count_down"
  /\ Depth' = Depth - 1
  /\ Goto(t, "unlock_pop")
  /\ UNCHANGED <<head, succ, Mutex, oldHead, lent, destroyed, free>>

UnlockPop(t) == Release(t, "unlock_pop", IF oldHead[t] = NoConverter THEN "open" ELSE "using")

(* InterlockedPushEntrySList.                                              *)
ReadHeadToPush(t) ==
  /\ pc[t] = "push"
  /\ oldHead' = [oldHead EXCEPT ![t] = head]
  /\ Goto(t, "set_next")
  /\ UNCHANGED <<head, succ, Depth, Mutex, lent, destroyed, free>>

SetNext(t) ==
  /\ pc[t] = "set_next"
  /\ succ' = [succ EXCEPT ![lent[t]] = oldHead[t]]
  /\ Goto(t, "set_head")
  /\ UNCHANGED <<head, Depth, Mutex, oldHead, lent, destroyed, free>>

KeepsHead(t) ==   \* mutant of SetHead: the entry is also kept
  /\ pc[t] = "set_head"
  /\ head' = lent[t]
  /\ free' = free \cup {lent[t]}
  /\ Goto(t, "count_up")
  /\ UNCHANGED <<succ, Depth, Mutex, oldHead, lent, destroyed>>

SetHead(t) ==
  /\ pc[t] = "set_head"
  /\ head' = lent[t]
  /\ free' = free \cup {lent[t]}
  /\ lent' = [lent EXCEPT ![t] = NoConverter]
  /\ Goto(t, "count_up")
  /\ UNCHANGED <<succ, Depth, Mutex, oldHead, destroyed>>

CountTwice(t) ==   \* mutant of CountUp
  /\ pc[t] = "count_up"
  /\ Depth' = Depth + 2
  /\ Goto(t, "unlock_push")
  /\ UNCHANGED <<head, succ, Mutex, oldHead, lent, destroyed, free>>

CountUp(t) ==
  /\ pc[t] = "count_up"
  /\ Depth' = Depth + 1
  /\ Goto(t, "unlock_push")
  /\ UNCHANGED <<head, succ, Mutex, oldHead, lent, destroyed, free>>
-----------------------------------------------------------------------------
OpensAnyway(t) ==   \* mutant of BorrowCache: what waits is not looked for
  /\ pc[t] = "idle"
  /\ Goto(t, "open")
  /\ UNCHANGED <<head, succ, Depth, Mutex, oldHead, lent, destroyed, free>>

(* BorrowCache: is there a converter to pop?  Once the pool is destroyed a *)
(* converter is always opened.                                             *)
BorrowCache(t) ==
  /\ pc[t] = "idle"
  /\ Goto(t, IF destroyed \/ head = NoConverter THEN "open" ELSE "spin_pop")
  /\ UNCHANGED <<head, succ, Depth, Mutex, oldHead, lent, destroyed, free>>

InUse == free \cup { lent[t] : t \in Threads }

(* new IConvCache; iconv_open may know no such conversion.                 *)
Open(t) ==
  /\ pc[t] = "open"
  /\ \/ /\ \E c \in Converters \ InUse : lent' = [lent EXCEPT ![t] = c]
        /\ Goto(t, "using")
     \/ /\ Goto(t, "idle")
        /\ UNCHANGED lent
  /\ UNCHANGED <<head, succ, Depth, Mutex, oldHead, destroyed, free>>

HasRoom == Depth < MAX_POOL_SIZE

(* ReturnCache: a converter goes back while the pool is there and has      *)
(* room, else it is closed.                                                *)
ReturnCache(t) ==
  /\ pc[t] = "using"
  /\ IF ~destroyed /\ HasRoom
     THEN Goto(t, "spin_push") /\ UNCHANGED lent
     ELSE Goto(t, "idle") /\ lent' = [lent EXCEPT ![t] = NoConverter]
  /\ UNCHANGED <<head, succ, Depth, Mutex, oldHead, destroyed, free>>

(* ~IConvCachePool runs when the process exits and no thread is in the     *)
(* pool; a converter may still be lent.                                    *)
DestroyPool ==
  /\ ~destroyed /\ \A t \in Threads : pc[t] \in {"idle", "using"}
  /\ destroyed' = TRUE
  /\ head' = NoConverter /\ Depth' = 0 /\ free' = {}
  /\ UNCHANGED <<succ, Mutex, pc, oldHead, lent>>

Holds(t) == \/ ReadHeadToPop(t) \/ Unlink(t) \/ CountDown(t) \/ UnlockPop(t)
            \/ ReadHeadToPush(t) \/ SetNext(t) \/ SetHead(t) \/ CountUp(t)
            \/ Release(t, "unlock_push", "idle")

Thread(t) == \/ BorrowCache(t) \/ Open(t) \/ ReturnCache(t)
             \/ Acquire(t, "spin_pop", "pop") \/ Acquire(t, "spin_push", "push")
             \/ Holds(t)

PoolNext == DestroyPool \/ \E t \in Threads : Thread(t)

PoolSpec == PoolInit /\ [][PoolNext]_pool_vars
-----------------------------------------------------------------------------
(* No two threads update the list at a time (interlockedslist.h 57-110).   *)
MutualExclusion ==
  \A t, u \in Threads : pc[t] \in Inside /\ pc[u] \in Inside => t = u

(* A converter belongs to one: the list, or one thread.  Two threads that  *)
(* shared one would mix their conversion states.                           *)
NotShared ==
  \A t \in Threads : lent[t] # NoConverter =>
    /\ lent[t] \notin free
    /\ \A u \in Threads : lent[u] = lent[t] => u = t

(* With the lock free, the list from head on has every entry that was      *)
(* pushed and not popped, once, and Depth counts them: the entries can be  *)
(* numbered from the last, 1, to the head, and each leads to the next      *)
(* lower one.                                                              *)
Numbered(place) ==
  /\ \A c, d \in free : place[c] = place[d] => c = d
  /\ head = NoConverter \/ head \in free
  /\ free # {} => head \in free /\ place[head] = Cardinality(free)
  /\ \A c \in free : IF place[c] = 1 THEN succ[c] = NoConverter
                     ELSE succ[c] \in free /\ place[succ[c]] = place[c] - 1

ListWhole ==
  Mutex = 0 => /\ \E place \in [free -> 1 .. Cardinality(free)] : Numbered(place)
               /\ Depth = Cardinality(free)

(* However the unlocked looks at the list fall, no more converters wait    *)
(* than there are threads that neither have one nor open one: there are    *)
(* never more converters than threads.  MAX_POOL_SIZE does not bound the   *)
(* pool, threads that look at Depth together overshoot it.                 *)
Without == { t \in Threads : lent[t] = NoConverter /\ pc[t] # "open" }
NoMoreThanThreads == Cardinality(free) <= Cardinality(Without)

(* The pool implements the abstract one.                                   *)
Abstract == INSTANCE ConverterPoolSpec
ImplementsPool == Abstract!Spec
=============================================================================
