--------------------------- MODULE ResourcesProofs ---------------------------
(***************************************************************************)
(* Letting go of connection, statements and streams, for any number of     *)
(* statements and streams and every order in which the script does it.     *)
(*                                                                         *)
(* The destructors call one another, so what holds of a statement depends  *)
(* on how far the work on it has come.  The invariant says which work can  *)
(* be under way: the frames for one statement, on top of a call that goes  *)
(* on when they are done; and every other statement is at rest.            *)
(***************************************************************************)
EXTENDS Resources, SequenceTheorems, WellFoundedInduction, TLAPS

Push(f, rest) == <<f>> \o rest

StreamFrame(x)  == [op |-> "stream", x |-> x]
OpenFrame(s, x) == [op |-> "open", s |-> s, x |-> x]
StmtsFrame(l)   == [op |-> "stmts", left |-> l]
Live(s) == res[s] = "live"

(* What counts: the variable of the script and the stream that is open.    *)
Count(s) == (IF s \in script THEN 1 ELSE 0) + (IF stmt[s].active # NoStream THEN 1 ELSE 0)

(* A statement nothing works on.                                           *)
AtRest(s) ==
  /\ refs[s] = Count(s)
  /\ \/ res[s] = "none"   /\ stmt[s].mem = "none"  /\ refs[s] = 0
     \/ res[s] = "live"   /\ Allocated(s)          /\ refs[s] > 0 /\ conn = "open"
     \/ res[s] = "closed" /\ stmt[s].mem = "freed" /\ refs[s] > 0
     \/ res[s] = "freed"  /\ stmt[s].mem = "freed" /\ refs[s] = 0

(* The streams that are open are the active streams of their statements.   *)
StreamsMatch ==
  /\ \A x \in Streams : ss[x] = "open" => of[x] \in Stmts /\ stmt[of[x]].active = x
  /\ \A s \in Stmts : stmt[s].active # NoStream =>
       Allocated(s) /\ ss[stmt[s].active] = "open" /\ of[stmt[s].active] = s

(* The calls that go on when the work on top of them is done.              *)
Tabled(base, entry) ==   \* the table is in use, and has entry as well
  /\ base \in {<< >>, << [op |-> "shutdown"] >>}
  /\ table = { t \in Stmts : Live(t) } \cup entry
  /\ \A t \in table : stmt[t].conn
Opening(base, s) ==      \* a stream of s is to be opened
  /\ \E x \in Streams : ss[x] = "none" /\ base = << OpenFrame(s, x) >>
  /\ s \in script /\ Live(s)
  /\ table = { t \in Stmts : Live(t) } /\ \A t \in table : stmt[t].conn
Closing(base, s) ==      \* the connection closes the rest of its statements
  base = << StmtsFrame({ t \in Stmts \ {s} : Live(t) }) >>
Going(base, s, entry) == Tabled(base, entry) \/ Closing(base, s)

(* The work on a statement that stays.                                     *)
Using(s, base) ==
  /\ AtRest(s) /\ Live(s) /\ (Tabled(base, {}) \/ Opening(base, s))
  /\ \/ stack = Push(F("active", s), base)
     \/ stmt[s].active # NoStream /\ stack = Push(StreamFrame(stmt[s].active), base)

(* A reference of it is given up.                                          *)
LettingGo(s, base) ==
  /\ refs[s] = Count(s) + 1
  /\ Tabled(base, {}) \/ (Opening(base, s) /\ stmt[s].active = NoStream)
  /\ \/ Live(s) /\ Allocated(s) /\ conn = "open"
     \/ res[s] = "closed" /\ stmt[s].mem = "freed"
  /\ stack = Push(F("delete", s), base)

(* It was the last.                                                        *)
Dropped(s, base) ==
  /\ res[s] = "closed" /\ refs[s] = 0 /\ Count(s) = 0
  /\ \/ /\ Allocated(s) /\ conn = "open" /\ Tabled(base, {s})
        /\ stack = Push(F("dtor", s), Push(F("release", s), base))
     \/ /\ Allocated(s) /\ Tabled(base, {})
        /\ \/ stack = Push(F("active", s), Push(F("destroy", s), Push(F("release", s), base)))
           \/ stack = Push(F("destroy", s), Push(F("release", s), base))
     \/ /\ stmt[s].mem = "freed" /\ Tabled(base, {})
        /\ stack = Push(F("release", s), base)

(* It is closed, whoever still has a reference.                            *)
Closed(s, base) ==
  /\ Allocated(s)
  /\ \/ /\ Live(s) /\ refs[s] = Count(s) /\ refs[s] > 0 /\ conn = "open"
        /\ Going(base, s, {})
        /\ stack = Push(F("close", s), base)
     \/ /\ res[s] = "closed" /\ refs[s] = Count(s) /\ refs[s] > 0 /\ conn = "open"
        /\ Going(base, s, {s})
        /\ stack = Push(F("dtor", s), base)
     \/ /\ res[s] = "closed" /\ refs[s] = Count(s) /\ refs[s] > 0
        /\ Going(base, s, {})
        /\ \/ stack = Push(F("active", s), Push(F("destroy", s), base))
           \/ /\ stmt[s].active # NoStream
              /\ stack = Push(StreamFrame(stmt[s].active), Push(F("destroy", s), base))
     \/ /\ res[s] = "closed" /\ refs[s] = Count(s) + 1 /\ stmt[s].active = NoStream
        /\ Going(base, s, {})
        /\ stack = Push(F("delete", s), Push(F("destroy", s), base))
     \/ /\ res[s] = "closed" /\ refs[s] = 0 /\ Count(s) = 0
        /\ Going(base, s, {})
        /\ stack = Push(F("release", s), Push(F("destroy", s), base))
     \/ /\ refs[s] = Count(s) /\ stmt[s].active = NoStream
        /\ \/ res[s] = "closed" /\ refs[s] > 0
           \/ res[s] = "freed" /\ refs[s] = 0
        /\ Going(base, s, {})
        /\ stack = Push(F("destroy", s), base)

Working(s, base) == Using(s, base) \/ LettingGo(s, base) \/ Dropped(s, base) \/ Closed(s, base)

(* Nothing is worked on: the next step is the script's, or that of the     *)
(* call that was waiting.                                                  *)
Idle ==
  /\ \A s \in Stmts : AtRest(s)
  /\ \/ Tabled(stack, {})
     \/ \E s \in Stmts : Opening(stack, s) /\ stmt[s].active = NoStream
     \/ stack = << StmtsFrame({ s \in Stmts : Live(s) }) >>
     \/ /\ stack = << [op |-> "disconnect"] >>
        /\ table = {} /\ \A s \in Stmts : ~Live(s)

Bases ==
  {<< >>, << [op |-> "shutdown"] >>}
  \cup { << OpenFrame(s, x) >> : s \in Stmts, x \in Streams }
  \cup { << StmtsFrame(l) >> : l \in SUBSET Stmts }

IInv ==
  /\ TypeOK /\ StreamsMatch /\ ~wrong
  /\ \/ Idle
     \/ \E s \in Stmts, base \in Bases :
          Working(s, base) /\ \A t \in Stmts \ {s} : AtRest(t)
-----------------------------------------------------------------------------
(* The stack as a sequence.                                                *)
LEMMA FramesAre ==
  /\ \A s \in Stmts, op \in {"active", "destroy", "dtor", "close", "delete", "release"} :
       F(op, s) \in Frames /\ F(op, s).op = op /\ F(op, s).s = s
  /\ \A s \in Stmts, x \in Streams : OpenFrame(s, x) \in Frames
  /\ \A x \in Streams : StreamFrame(x) \in Frames
  /\ \A l \in SUBSET Stmts : StmtsFrame(l) \in Frames
  /\ [op |-> "disconnect"] \in Frames /\ [op |-> "shutdown"] \in Frames
BY DEF Frames, F, OpenFrame, StreamFrame, StmtsFrame

LEMMA PushIs ==
  ASSUME NEW f \in Frames, NEW r \in Seq(Frames)
  PROVE  /\ Push(f, r) \in Seq(Frames) /\ Push(f, r) # << >>
         /\ Head(Push(f, r)) = f /\ Tail(Push(f, r)) = r
<1>1. <<f>> \in Seq(Frames) /\ Len(<<f>>) = 1 /\ <<f>>[1] = f
  OBVIOUS
<1>2. /\ Push(f, r) \in Seq(Frames) /\ Len(Push(f, r)) = 1 + Len(r)
      /\ \A i \in 1 .. 1 + Len(r) : Push(f, r)[i] = IF i <= 1 THEN f ELSE r[i - 1]
  BY <1>1, ConcatProperties DEF Push
<1>3. Len(r) \in Nat
  BY LenProperties
<1>4. Push(f, r) # << >>
  BY <1>2, <1>3, EmptySeq
<1>5. Head(Push(f, r)) = f
  BY <1>2, <1>3, <1>4
<1>6. /\ Tail(Push(f, r)) \in Seq(Frames) /\ Len(Tail(Push(f, r))) = Len(r)
      /\ \A i \in 1 .. Len(r) : Tail(Push(f, r))[i] = r[i]
  BY <1>2, <1>3, <1>4, HeadTailProperties
<1>7. Tail(Push(f, r)) = r
  BY <1>6, SeqEqual
<1>. QED BY <1>2, <1>4, <1>5, <1>7

LEMMA ThenIs ==
  ASSUME NEW f \in Frames, NEW g \in Frames, NEW r \in Seq(Frames)
  PROVE  /\ << >> \o r = r
         /\ <<f>> \o r = Push(f, r)
         /\ <<f, g>> \o r = Push(f, Push(g, r))
<1>1. /\ <<f>> \in Seq(Frames) /\ <<g>> \in Seq(Frames) /\ <<f, g>> \in Seq(Frames)
      /\ Len(<<f>>) = 1 /\ Len(<<g>>) = 1 /\ Len(<<f, g>>) = 2
      /\ <<f>>[1] = f /\ <<g>>[1] = g /\ <<f, g>>[1] = f /\ <<f, g>>[2] = g
  OBVIOUS
<1>2. <<f>> \o <<g>> \in Seq(Frames) /\ Len(<<f>> \o <<g>>) = 2
  BY <1>1, ConcatProperties
<1>3. \A i \in 1 .. 2 : (<<f>> \o <<g>>)[i] = <<f, g>>[i]
  <2>1. (<<f>> \o <<g>>)[1] = f /\ (<<f>> \o <<g>>)[2] = g
    BY <1>1, ConcatProperties
  <2>. QED BY <1>1, <2>1
<1>4. <<f>> \o <<g>> = <<f, g>>
  BY <1>1, <1>2, <1>3, SeqEqual
<1>5. <<f, g>> \o r = <<f>> \o (<<g>> \o r)
  <2>1. (<<f>> \o <<g>>) \o r = <<f>> \o (<<g>> \o r)
    BY <1>1, ConcatAssociative
  <2>. QED BY <1>4, <2>1
<1>. QED BY <1>5, ConcatEmptySeq DEF Push

LEMMA OneIs ==
  ASSUME NEW f \in Frames
  PROVE  <<f>> \in Seq(Frames) /\ <<f>> = Push(f, << >>) /\ << >> \in Seq(Frames)
<1>1. <<f>> \in Seq(Frames) /\ << >> \in Seq(Frames)
  OBVIOUS
<1>. QED BY <1>1, ConcatEmptySeq DEF Push

LEMMA BasesAre == \A base \in Bases : base \in Seq(Frames)
<1>. SUFFICES ASSUME NEW base \in Bases PROVE base \in Seq(Frames)
  OBVIOUS
<1>1. CASE \E s \in Stmts, x \in Streams : base = << OpenFrame(s, x) >>
  BY <1>1, FramesAre, OneIs
<1>2. CASE \E l \in SUBSET Stmts : base = << StmtsFrame(l) >>
  BY <1>2, FramesAre, OneIs
<1>3. CASE base = << [op |-> "shutdown"] >>
  BY <1>3, FramesAre, OneIs
<1>4. CASE base = << >>
  BY <1>4
<1>. QED BY <1>1, <1>2, <1>3, <1>4 DEF Bases

-----------------------------------------------------------------------------
(* What is on top of the stack tells what is worked on, and how far.       *)
LEMMA IdleTop ==
  ASSUME Idle, TypeOK
  PROVE  \/ stack = << >>
         \/ stack # << >> /\ Head(stack).op \in {"shutdown", "open", "stmts", "disconnect"}
<1>1. CASE Tabled(stack, {})
  BY <1>1, FramesAre, OneIs, PushIs DEF Tabled
<1>2. CASE \E s \in Stmts : Opening(stack, s)
  <2>1. PICK s \in Stmts, x \in Streams : stack = << OpenFrame(s, x) >>
    BY <1>2 DEF Opening
  <2>. QED BY <2>1, FramesAre, OneIs, PushIs DEF OpenFrame
<1>3. CASE stack = << StmtsFrame({ s \in Stmts : Live(s) }) >>
  BY <1>3, FramesAre, OneIs, PushIs DEF StmtsFrame
<1>4. CASE stack = << [op |-> "disconnect"] >>
  BY <1>4, FramesAre, OneIs, PushIs
<1>. QED BY <1>1, <1>2, <1>3, <1>4 DEF Idle

WorkOps == {"active", "stream", "delete", "release", "close", "dtor", "destroy"}

LEMMA WorkTop ==
  ASSUME TypeOK, NEW s \in Stmts, NEW base \in Bases, Working(s, base)
  PROVE  /\ stack # << >> /\ Head(stack).op \in WorkOps
         /\ Head(stack).op # "stream" => Head(stack).s = s
         /\ Head(stack).op = "stream" => stmt[s].active # NoStream /\ Head(stack).x = stmt[s].active
         /\ Head(stack).op = "active" =>
              \/ Using(s, base) /\ stack = Push(F("active", s), base)
              \/ Dropped(s, base) /\ Allocated(s) /\ Tabled(base, {})
                 /\ stack = Push(F("active", s), Push(F("destroy", s), Push(F("release", s), base)))
              \/ Closed(s, base) /\ res[s] = "closed" /\ refs[s] = Count(s) /\ refs[s] > 0
                 /\ Going(base, s, {})
                 /\ stack = Push(F("active", s), Push(F("destroy", s), base))
         /\ Head(stack).op = "stream" =>
              \/ Using(s, base) /\ stack = Push(StreamFrame(stmt[s].active), base)
              \/ Closed(s, base) /\ res[s] = "closed" /\ refs[s] = Count(s) /\ refs[s] > 0
                 /\ Going(base, s, {})
                 /\ stack = Push(StreamFrame(stmt[s].active), Push(F("destroy", s), base))
         /\ Head(stack).op = "delete" =>
              \/ LettingGo(s, base)
              \/ /\ Allocated(s) /\ res[s] = "closed" /\ refs[s] = Count(s) + 1
                 /\ stmt[s].active = NoStream /\ Going(base, s, {})
                 /\ stack = Push(F("delete", s), Push(F("destroy", s), base))
         /\ Head(stack).op = "release" =>
              \/ /\ res[s] = "closed" /\ refs[s] = 0 /\ Count(s) = 0
                 /\ stmt[s].mem = "freed" /\ Tabled(base, {})
                 /\ stack = Push(F("release", s), base)
              \/ /\ Allocated(s) /\ res[s] = "closed" /\ refs[s] = 0 /\ Count(s) = 0
                 /\ Going(base, s, {})
                 /\ stack = Push(F("release", s), Push(F("destroy", s), base))
         /\ Head(stack).op = "close" =>
              /\ Allocated(s) /\ Live(s) /\ refs[s] = Count(s) /\ refs[s] > 0 /\ conn = "open"
              /\ Going(base, s, {}) /\ stack = Push(F("close", s), base)
         /\ Head(stack).op = "dtor" =>
              /\ res[s] = "closed" /\ Allocated(s) /\ conn = "open"
              /\ \/ /\ refs[s] = 0 /\ Count(s) = 0 /\ Tabled(base, {s})
                    /\ stack = Push(F("dtor", s), Push(F("release", s), base))
                 \/ /\ refs[s] = Count(s) /\ refs[s] > 0 /\ Going(base, s, {s})
                    /\ stack = Push(F("dtor", s), base)
         /\ Head(stack).op = "destroy" =>
              /\ Allocated(s) /\ stmt[s].active = NoStream
              /\ \/ /\ res[s] = "closed" /\ refs[s] = 0 /\ Count(s) = 0 /\ Tabled(base, {})
                    /\ stack = Push(F("destroy", s), Push(F("release", s), base))
                 \/ /\ refs[s] = Count(s) /\ Going(base, s, {})
                    /\ \/ res[s] = "closed" /\ refs[s] > 0
                       \/ res[s] = "freed" /\ refs[s] = 0
                    /\ stack = Push(F("destroy", s), base)
<1>1. base \in Seq(Frames)
  BY BasesAre
<1>2. /\ \A op \in {"active", "destroy", "dtor", "close", "delete", "release"} :
           F(op, s) \in Frames /\ F(op, s).op = op /\ F(op, s).s = s
      /\ \A x \in Streams : StreamFrame(x) \in Frames /\ StreamFrame(x).op = "stream"
                            /\ StreamFrame(x).x = x
  BY FramesAre DEF StreamFrame
<1>3. /\ Push(F("release", s), base) \in Seq(Frames)
      /\ Push(F("destroy", s), base) \in Seq(Frames)
  BY <1>1, <1>2, PushIs
<1>4. Push(F("destroy", s), Push(F("release", s), base)) \in Seq(Frames)
  BY <1>2, <1>3, PushIs
<1>5. Count(s) = 0 => stmt[s].active = NoStream
  BY DEF Count
<1>6. stmt[s].active # NoStream => stmt[s].active \in Streams
  BY DEF TypeOK
<1>. DEFINE Rest == {base, Push(F("release", s), base), Push(F("destroy", s), base),
                    Push(F("destroy", s), Push(F("release", s), base))}
<1>14. \A r \in Rest : r \in Seq(Frames)
  BY <1>1, <1>3, <1>4
<1>9. /\ base \in Rest /\ Push(F("release", s), base) \in Rest /\ Push(F("destroy", s), base) \in Rest
      /\ Push(F("destroy", s), Push(F("release", s), base)) \in Rest
  OBVIOUS
<1>. HIDE DEF Rest
<1>7. \A op \in {"active", "destroy", "dtor", "close", "delete", "release"}, r \in Rest :
        Push(F(op, s), r) # << >> /\ Head(Push(F(op, s), r)) = F(op, s)
  BY <1>2, <1>14, PushIs
<1>8. \A r \in Rest : stmt[s].active # NoStream =>
        /\ Push(StreamFrame(stmt[s].active), r) # << >>
        /\ Head(Push(StreamFrame(stmt[s].active), r)) = StreamFrame(stmt[s].active)
  BY <1>2, <1>6, <1>14, PushIs
<1>10. CASE Using(s, base)
  BY <1>2, <1>6, <1>7, <1>8, <1>9, <1>10 DEF Using, WorkOps
<1>11. CASE LettingGo(s, base)
  BY <1>2, <1>7, <1>9, <1>11 DEF LettingGo, WorkOps
<1>12. CASE Dropped(s, base)
  <2>1. CASE stack = Push(F("dtor", s), Push(F("release", s), base))
    BY <1>2, <1>5, <1>7, <1>9, <1>12, <2>1 DEF Dropped, WorkOps
  <2>2. CASE stack = Push(F("active", s), Push(F("destroy", s), Push(F("release", s), base)))
    BY <1>2, <1>5, <1>7, <1>9, <1>12, <2>2 DEF Dropped, WorkOps
  <2>3. CASE stack = Push(F("destroy", s), Push(F("release", s), base))
    BY <1>2, <1>5, <1>7, <1>9, <1>12, <2>3 DEF Dropped, WorkOps
  <2>4. CASE stack = Push(F("release", s), base)
    BY <1>2, <1>5, <1>7, <1>9, <1>12, <2>4 DEF Dropped, WorkOps
  <2>. QED BY <1>12, <2>1, <2>2, <2>3, <2>4 DEF Dropped
<1>13. CASE Closed(s, base)
  <2>1. CASE stack = Push(F("close", s), base)
    <3>1. Head(stack).op = "close" /\ Head(stack).s = s /\ stack # << >>
      BY <1>2, <1>7, <1>9, <2>1
    <3>2. Live(s) /\ refs[s] = Count(s) /\ refs[s] > 0 /\ conn = "open" /\ Going(base, s, {})
      BY <1>2, <1>6, <1>7, <1>8, <1>9, <1>13, <3>1 DEF Closed
    <3>. QED BY <1>13, <2>1, <3>1, <3>2 DEF WorkOps, Closed
  <2>2. CASE stack = Push(F("dtor", s), base)
    <3>1. Head(stack).op = "dtor" /\ Head(stack).s = s /\ stack # << >>
      BY <1>2, <1>7, <1>9, <2>2
    <3>2. res[s] = "closed" /\ refs[s] = Count(s) /\ refs[s] > 0 /\ conn = "open" /\ Going(base, s, {s})
      BY <1>2, <1>6, <1>7, <1>8, <1>9, <1>13, <3>1 DEF Closed
    <3>. QED BY <1>13, <2>2, <3>1, <3>2 DEF WorkOps, Closed
  <2>3. CASE stack = Push(F("active", s), Push(F("destroy", s), base))
    <3>1. Head(stack).op = "active" /\ Head(stack).s = s /\ stack # << >>
      BY <1>2, <1>7, <1>9, <2>3
    <3>2. res[s] = "closed" /\ refs[s] = Count(s) /\ refs[s] > 0 /\ Going(base, s, {})
      BY <1>2, <1>6, <1>7, <1>8, <1>9, <1>13, <3>1 DEF Closed
    <3>. QED BY <1>13, <2>3, <3>1, <3>2 DEF WorkOps, Closed
  <2>4. CASE /\ stmt[s].active # NoStream
             /\ stack = Push(StreamFrame(stmt[s].active), Push(F("destroy", s), base))
    <3>1. Head(stack).op = "stream" /\ Head(stack).x = stmt[s].active /\ stack # << >>
      BY <1>2, <1>6, <1>8, <1>9, <2>4
    <3>2. res[s] = "closed" /\ refs[s] = Count(s) /\ refs[s] > 0 /\ Going(base, s, {})
      BY <1>2, <1>6, <1>7, <1>8, <1>9, <1>13, <3>1 DEF Closed
    <3>. QED BY <1>13, <2>4, <3>1, <3>2 DEF WorkOps, Closed
  <2>5. CASE stack = Push(F("delete", s), Push(F("destroy", s), base))
    <3>1. Head(stack).op = "delete" /\ Head(stack).s = s /\ stack # << >>
      BY <1>2, <1>7, <1>9, <2>5
    <3>2. res[s] = "closed" /\ refs[s] = Count(s) + 1 /\ stmt[s].active = NoStream /\ Going(base, s, {})
      BY <1>2, <1>6, <1>7, <1>8, <1>9, <1>13, <3>1 DEF Closed
    <3>. QED BY <1>13, <2>5, <3>1, <3>2 DEF WorkOps, Closed
  <2>6. CASE stack = Push(F("release", s), Push(F("destroy", s), base))
    <3>1. Head(stack).op = "release" /\ Head(stack).s = s /\ stack # << >>
      BY <1>2, <1>7, <1>9, <2>6
    <3>2. res[s] = "closed" /\ refs[s] = 0 /\ Count(s) = 0 /\ Going(base, s, {})
      BY <1>2, <1>6, <1>7, <1>8, <1>9, <1>13, <3>1 DEF Closed
    <3>. QED BY <1>13, <2>6, <3>1, <3>2 DEF WorkOps, Closed
  <2>7. CASE stack = Push(F("destroy", s), base)
    <3>1. Head(stack).op = "destroy" /\ Head(stack).s = s /\ stack # << >>
      BY <1>2, <1>7, <1>9, <2>7
    <3>2. refs[s] = Count(s) /\ stmt[s].active = NoStream /\ Going(base, s, {})
              /\ ((res[s] = "closed" /\ refs[s] > 0) \/ (res[s] = "freed" /\ refs[s] = 0))
      BY <1>2, <1>6, <1>7, <1>8, <1>9, <1>13, <3>1, SMTT(60) DEF Closed
    <3>. QED BY <1>13, <2>7, <3>1, <3>2 DEF WorkOps, Closed
  <2>. QED BY <1>13, <2>1, <2>2, <2>3, <2>4, <2>5, <2>6, <2>7 DEF Closed
<1>. QED BY <1>10, <1>11, <1>12, <1>13 DEF Working

LEMMA WorkUnderWay ==
  ASSUME IInv, stack # << >>, Head(stack).op \in WorkOps
  PROVE  \E s \in Stmts, base \in Bases : Working(s, base) /\ \A t \in Stmts \ {s} : AtRest(t)
BY IdleTop DEF IInv, WorkOps

(* What is left when the work on a statement is done.                      *)
LEMMA WorkDone ==
  ASSUME NEW s \in Stmts, NEW base \in Bases, stack' = base,
         \A t \in Stmts : AtRest(t)',
         \/ Tabled(base, {})'
         \/ (Opening(base, s) /\ stmt[s].active = NoStream)'
         \/ (Closing(base, s) /\ ~Live(s))'
  PROVE  Idle'
<1>1. CASE Tabled(base, {})'
  BY <1>1 DEF Idle
<1>2. CASE (Opening(base, s) /\ stmt[s].active = NoStream)'
  BY <1>2 DEF Idle
<1>3. CASE (Closing(base, s) /\ ~Live(s))'
  <2>1. { t \in Stmts \ {s} : Live(t)' } = { t \in Stmts : Live(t)' }
    BY <1>3
  <2>. QED BY <1>3, <2>1 DEF Idle, Closing
<1>. QED BY <1>1, <1>2, <1>3

(* The stacks there can be, what is below their top, and how the steps     *)
(* make them.                                                              *)
Stacks(s, base) ==
  LET R  == Push(F("release", s), base)
      D  == Push(F("destroy", s), base)
      DR == Push(F("destroy", s), R)
  IN /\ base \in Seq(Frames) /\ << >> \o base = base
     /\ R \in Seq(Frames)    /\ << >> \o R = R   /\ Tail(R) = base
     /\ D \in Seq(Frames)    /\ << >> \o D = D   /\ Tail(D) = base
     /\ DR \in Seq(Frames)   /\ << >> \o DR = DR /\ Tail(DR) = R
     /\ Tail(Push(F("active", s), base)) = base
     /\ Tail(Push(F("active", s), D)) = D
     /\ Tail(Push(F("active", s), DR)) = DR
     /\ Tail(Push(F("delete", s), base)) = base
     /\ Tail(Push(F("delete", s), D)) = D
     /\ Tail(Push(F("release", s), D)) = D
     /\ Tail(Push(F("close", s), base)) = base
     /\ Tail(Push(F("dtor", s), base)) = base
     /\ Tail(Push(F("dtor", s), R)) = R
     /\ << F("delete", s) >> \o base = Push(F("delete", s), base)
     /\ Push(F("delete", s), base) \in Seq(Frames)
     /\ << F("delete", s) >> \o D = Push(F("delete", s), D)
     /\ Push(F("delete", s), D) \in Seq(Frames)
     /\ << F("release", s) >> \o base = R
     /\ << F("release", s) >> \o D = Push(F("release", s), D)
     /\ Push(F("release", s), D) \in Seq(Frames)
     /\ << F("dtor", s), F("release", s) >> \o base = Push(F("dtor", s), R)
     /\ Push(F("dtor", s), R) \in Seq(Frames)
     /\ << F("dtor", s) >> \o base = Push(F("dtor", s), base)
     /\ Push(F("dtor", s), base) \in Seq(Frames)
     /\ << F("active", s), F("destroy", s) >> \o base = Push(F("active", s), D)
     /\ Push(F("active", s), D) \in Seq(Frames)
     /\ << F("active", s), F("destroy", s) >> \o R = Push(F("active", s), DR)
     /\ Push(F("active", s), DR) \in Seq(Frames)
     /\ \A x \in Streams :
          /\ Tail(Push(StreamFrame(x), base)) = base
          /\ Tail(Push(StreamFrame(x), D)) = D
          /\ << [op |-> "stream", x |-> x] >> \o base = Push(StreamFrame(x), base)
          /\ Push(StreamFrame(x), base) \in Seq(Frames)
          /\ << [op |-> "stream", x |-> x] >> \o D = Push(StreamFrame(x), D)
          /\ Push(StreamFrame(x), D) \in Seq(Frames)

LEMMA StacksAre ==
  ASSUME NEW s \in Stmts, NEW base \in Bases
  PROVE  Stacks(s, base)
<1>. DEFINE R  == Push(F("release", s), base)
            D  == Push(F("destroy", s), base)
            DR == Push(F("destroy", s), R)
<1>1. base \in Seq(Frames)
  BY BasesAre
<1>2. /\ F("active", s) \in Frames /\ F("destroy", s) \in Frames /\ F("dtor", s) \in Frames
      /\ F("close", s) \in Frames /\ F("delete", s) \in Frames /\ F("release", s) \in Frames
  BY FramesAre
<1>3. \A x \in Streams : StreamFrame(x) \in Frames
  BY FramesAre
<1>4. R \in Seq(Frames) /\ D \in Seq(Frames) /\ Tail(R) = base /\ Tail(D) = base
  BY <1>1, <1>2, PushIs
<1>. HIDE DEF R, D
<1>5. DR \in Seq(Frames) /\ Tail(DR) = R
  BY <1>2, <1>4, PushIs
<1>. HIDE DEF DR
<1>6. << >> \o base = base /\ << >> \o R = R /\ << >> \o D = D /\ << >> \o DR = DR
  BY <1>1, <1>4, <1>5, ConcatEmptySeq
<1>7. /\ Tail(Push(F("active", s), base)) = base
      /\ Tail(Push(F("active", s), D)) = D  /\ Push(F("active", s), D) \in Seq(Frames)
      /\ Tail(Push(F("active", s), DR)) = DR /\ Push(F("active", s), DR) \in Seq(Frames)
      /\ Tail(Push(F("delete", s), base)) = base /\ Push(F("delete", s), base) \in Seq(Frames)
      /\ Tail(Push(F("delete", s), D)) = D /\ Push(F("delete", s), D) \in Seq(Frames)
      /\ Tail(Push(F("release", s), D)) = D /\ Push(F("release", s), D) \in Seq(Frames)
      /\ Tail(Push(F("close", s), base)) = base
      /\ Tail(Push(F("dtor", s), base)) = base /\ Push(F("dtor", s), base) \in Seq(Frames)
      /\ Tail(Push(F("dtor", s), R)) = R /\ Push(F("dtor", s), R) \in Seq(Frames)
  BY <1>1, <1>2, <1>4, <1>5, PushIs
<1>8. /\ << F("delete", s) >> \o base = Push(F("delete", s), base)
      /\ << F("delete", s) >> \o D = Push(F("delete", s), D)
      /\ << F("release", s) >> \o base = R
      /\ << F("release", s) >> \o D = Push(F("release", s), D)
      /\ << F("dtor", s) >> \o base = Push(F("dtor", s), base)
  BY DEF Push, R
<1>9. << F("dtor", s), F("release", s) >> \o base = Push(F("dtor", s), R)
  BY <1>1, <1>2, ThenIs DEF R
<1>10. << F("active", s), F("destroy", s) >> \o base = Push(F("active", s), D)
  BY <1>1, <1>2, ThenIs DEF D
<1>11. << F("active", s), F("destroy", s) >> \o R = Push(F("active", s), DR)
  BY <1>2, <1>4, ThenIs DEF DR
<1>12. ASSUME NEW x \in Streams
       PROVE  /\ Tail(Push(StreamFrame(x), base)) = base
              /\ Push(StreamFrame(x), base) \in Seq(Frames)
              /\ Tail(Push(StreamFrame(x), D)) = D
              /\ Push(StreamFrame(x), D) \in Seq(Frames)
              /\ << [op |-> "stream", x |-> x] >> \o base = Push(StreamFrame(x), base)
              /\ << [op |-> "stream", x |-> x] >> \o D = Push(StreamFrame(x), D)
  <2>1. /\ << [op |-> "stream", x |-> x] >> \o base = Push(StreamFrame(x), base)
        /\ << [op |-> "stream", x |-> x] >> \o D = Push(StreamFrame(x), D)
    BY DEF Push, StreamFrame
  <2>. QED BY <1>1, <1>3, <1>4, <2>1, PushIs
<1>. QED BY <1>1, <1>4, <1>5, <1>6, <1>7, <1>8, <1>9, <1>10, <1>11, <1>12
         DEF Stacks, R, D, DR

LEMMA ActiveKeeps ==
  ASSUME IInv, close_active_stream
  PROVE  IInv'
<1>1. PICK s \in Stmts, base \in Bases : Working(s, base) /\ \A t \in Stmts \ {s} : AtRest(t)
  BY WorkUnderWay DEF close_active_stream, Top, WorkOps
<1>. DEFINE rest == Tail(stack)
<1>2. /\ Head(stack).op = "active" /\ Head(stack).s = s
      /\ UNCHANGED <<conn, table, stmt, res, refs, ss, of, script>>
      /\ wrong' = (wrong \/ ~Allocated(s))
      /\ stack' = (IF stmt[s].active = NoStream THEN << >>
                   ELSE << [op |-> "stream", x |-> stmt[s].active] >>) \o rest
  BY <1>1, WorkTop DEF close_active_stream, Top, Needs, Then, IInv
<1>3. (stmt[s].active # NoStream => stmt[s].active \in Streams) /\ Stacks(s, base)
  BY StacksAre DEF IInv, TypeOK
<1>4. \A t \in Stmts \ {s} : AtRest(t)'
  BY <1>1, <1>2 DEF AtRest, Count, Allocated
<1>5. StreamsMatch'
  BY <1>2 DEF IInv, StreamsMatch, Allocated
<1>6. ASSUME rest \in {base, Push(F("destroy", s), base),
                         Push(F("destroy", s), Push(F("release", s), base))},
             Allocated(s), stmt[s].active = NoStream \/ rest \in {base, Push(F("destroy", s), base)}
      PROVE  /\ TypeOK' /\ ~wrong'
             /\ stmt[s].active = NoStream => stack' = rest
             /\ stmt[s].active # NoStream => stack' = Push(StreamFrame(stmt[s].active), rest)
  <2>1. /\ stmt[s].active = NoStream => stack' = rest
        /\ stmt[s].active # NoStream => stack' = Push(StreamFrame(stmt[s].active), rest)
    BY <1>2, <1>3, <1>6 DEF Stacks
  <2>2. stack' \in Seq(Frames)
    BY <1>3, <1>6, <2>1 DEF Stacks
  <2>. QED BY <1>2, <1>6, <2>1, <2>2 DEF IInv, TypeOK
<1>7. CASE Using(s, base) /\ stack = Push(F("active", s), base)
  <2>1. rest = base /\ Allocated(s)
    BY <1>3, <1>7 DEF Stacks, Using, AtRest, Live
  <2>2. AtRest(s)' /\ Live(s)' /\ (Tabled(base, {})' \/ Opening(base, s)')
    BY <1>2, <1>7 DEF Using, AtRest, Count, Allocated, Live, Tabled, Opening
  <2>3. CASE stmt[s].active = NoStream
    <3>1. Idle'
      BY <1>2, <1>4, <1>6, <2>1, <2>2, <2>3, WorkDone
    <3>. QED BY <1>5, <1>6, <2>1, <3>1 DEF IInv
  <2>4. CASE stmt[s].active # NoStream
    <3>1. Using(s, base)'
      BY <1>2, <1>6, <2>1, <2>2, <2>4 DEF Using
    <3>. QED BY <1>4, <1>5, <1>6, <2>1, <3>1 DEF IInv, Working
  <2>. QED BY <2>3, <2>4
<1>8. CASE /\ Dropped(s, base) /\ Allocated(s) /\ Tabled(base, {})
           /\ stack = Push(F("active", s), Push(F("destroy", s), Push(F("release", s), base)))
  <2>1. /\ rest = Push(F("destroy", s), Push(F("release", s), base))
    BY <1>3, <1>8 DEF Stacks
  <2>2. stmt[s].active = NoStream
    BY <1>8 DEF Dropped, Count
  <2>3. Dropped(s, base)'
    BY <1>2, <1>6, <1>8, <2>1, <2>2 DEF Dropped, Count, Allocated, Tabled, Live
  <2>. QED BY <1>4, <1>5, <1>6, <1>8, <2>1, <2>2, <2>3 DEF IInv, Working
<1>9. CASE /\ Closed(s, base) /\ res[s] = "closed" /\ refs[s] = Count(s) /\ refs[s] > 0
           /\ Going(base, s, {})
           /\ stack = Push(F("active", s), Push(F("destroy", s), base))
  <2>1. /\ rest = Push(F("destroy", s), base) /\ Allocated(s)
    BY <1>3, <1>9 DEF Stacks, Closed
  <2>2. Going(base, s, {})'
    BY <1>2, <1>9 DEF Going, Tabled, Closing, Live
  <2>3. Closed(s, base)'
    BY <1>2, <1>6, <1>9, <2>1, <2>2 DEF Closed, Count, Allocated
  <2>. QED BY <1>4, <1>5, <1>6, <2>1, <2>3 DEF IInv, Working
<1>. QED BY <1>1, <1>2, <1>7, <1>8, <1>9, WorkTop DEF IInv

LEMMA StreamCloseKeeps ==
  ASSUME IInv, sqlsrv_stream_close
  PROVE  IInv'
<1>1. PICK s \in Stmts, base \in Bases : Working(s, base) /\ \A t \in Stmts \ {s} : AtRest(t)
  BY WorkUnderWay DEF sqlsrv_stream_close, Top, WorkOps
<1>2. stmt[s].active # NoStream /\ Head(stack).op = "stream" /\ Head(stack).x = stmt[s].active
  BY <1>1, WorkTop DEF sqlsrv_stream_close, Top, IInv
<1>. DEFINE x == stmt[s].active
            rest == Tail(stack)
<1>3. x \in Streams /\ ss[x] = "open" /\ of[x] = s /\ Allocated(s) /\ Stacks(s, base)
  BY <1>2, StacksAre DEF IInv, TypeOK, StreamsMatch
<1>4. /\ UNCHANGED <<conn, table, res, refs, of, script>> /\ wrong' = FALSE
      /\ stmt' = [stmt EXCEPT ![s].active = NoStream]
      /\ ss' = [ss EXCEPT ![x] = "freed"]
      /\ stack' = << F("delete", s) >> \o rest
  BY <1>2, <1>3 DEF sqlsrv_stream_close, Needs, Then, LetsGo, IInv
<1>5. /\ stmt'[s].active = NoStream /\ stmt'[s].mem = stmt[s].mem /\ stmt'[s].conn = stmt[s].conn
      /\ \A t \in Stmts \ {s} : stmt'[t] = stmt[t]
  BY <1>4 DEF IInv, TypeOK
<1>6. (\A t \in Stmts \ {s} : AtRest(t)') /\ Count(s) = Count(s)' + 1
  BY <1>1, <1>2, <1>4, <1>5 DEF AtRest, Count, Allocated, IInv, TypeOK
<1>7. StreamsMatch'
  <2>1. ss'[x] = "freed" /\ \A y \in Streams \ {x} : ss'[y] = ss[y]
    BY <1>3, <1>4 DEF IInv, TypeOK
  <2>2. ASSUME NEW y \in Streams, ss'[y] = "open"
        PROVE  of'[y] \in Stmts /\ stmt'[of'[y]].active = y
    BY <1>4, <1>5, <2>1, <2>2 DEF IInv, StreamsMatch
  <2>3. ASSUME NEW t \in Stmts, stmt'[t].active # NoStream
        PROVE  Allocated(t)' /\ ss'[stmt'[t].active] = "open" /\ of'[stmt'[t].active] = t
    <3>1. t # s /\ stmt'[t] = stmt[t]
      BY <1>5, <2>3
    <3>2. /\ Allocated(t) /\ ss[stmt[t].active] = "open" /\ of[stmt[t].active] = t
          /\ stmt[t].active \in Streams
      BY <2>3, <3>1 DEF IInv, StreamsMatch, TypeOK
    <3>3. stmt[t].active # x
      BY <1>3, <3>1, <3>2
    <3>. QED BY <1>4, <2>1, <3>1, <3>2, <3>3 DEF Allocated
  <2>. QED BY <2>2, <2>3 DEF StreamsMatch
<1>8. ASSUME stack' \in Seq(Frames) PROVE TypeOK'
  <2>1. ss' \in [Streams -> {"none", "open", "freed"}]
    BY <1>3, <1>4 DEF IInv, TypeOK
  <2>2. stmt' \in [Stmts -> [mem : {"none", "alloc", "freed"}, conn : BOOLEAN,
                             active : Streams \cup {NoStream}]]
    BY <1>4 DEF IInv, TypeOK
  <2>. QED BY <1>4, <1>8, <2>1, <2>2 DEF IInv, TypeOK
<1>9. CASE Using(s, base) /\ stack = Push(StreamFrame(x), base)
  <2>1. stack' = Push(F("delete", s), base) /\ stack' \in Seq(Frames)
    BY <1>3, <1>4, <1>9 DEF Stacks
  <2>2. /\ refs'[s] = Count(s)' + 1
        /\ Live(s)' /\ Allocated(s)' /\ (conn = "open")'
    BY <1>4, <1>5, <1>6, <1>9 DEF Using, AtRest, Live, Allocated
  <2>3. Tabled(base, {})' \/ (Opening(base, s) /\ stmt[s].active = NoStream)'
    <3>1. CASE Tabled(base, {})
      BY <1>4, <1>5, <3>1 DEF Tabled, Live
    <3>2. CASE Opening(base, s)
      BY <1>3, <1>4, <1>5, <3>2 DEF Opening, Live, IInv, TypeOK
    <3>. QED BY <1>9, <3>1, <3>2 DEF Using
  <2>4. LettingGo(s, base)'
    BY <2>1, <2>2, <2>3 DEF LettingGo
  <2>. QED BY <1>4, <1>6, <1>7, <1>8, <2>1, <2>4 DEF IInv, Working
<1>10. CASE /\ Closed(s, base) /\ res[s] = "closed" /\ refs[s] = Count(s) /\ refs[s] > 0
            /\ Going(base, s, {})
            /\ stack = Push(StreamFrame(x), Push(F("destroy", s), base))
  <2>1. /\ stack' = Push(F("delete", s), Push(F("destroy", s), base))
        /\ stack' \in Seq(Frames)
    BY <1>3, <1>4, <1>10 DEF Stacks
  <2>2. Going(base, s, {})'
    BY <1>4, <1>5, <1>10 DEF Going, Tabled, Closing, Live
  <2>3. Closed(s, base)'
    BY <1>3, <1>4, <1>5, <1>6, <1>10, <2>1, <2>2 DEF Closed, Allocated
  <2>. QED BY <1>4, <1>6, <1>7, <1>8, <2>1, <2>3 DEF IInv, Working
<1>. QED BY <1>1, <1>2, <1>9, <1>10, WorkTop DEF IInv

LEMMA DeleteKeeps ==
  ASSUME IInv, zend_list_delete
  PROVE  IInv'
<1>1. PICK s \in Stmts, base \in Bases : Working(s, base) /\ \A t \in Stmts \ {s} : AtRest(t)
  BY WorkUnderWay DEF zend_list_delete, Top, WorkOps
<1>. DEFINE rest == Tail(stack)
<1>2. Head(stack).op = "delete" /\ Head(stack).s = s /\ Stacks(s, base) /\ refs[s] \in Nat
  <2>1. Head(stack).op = "delete" /\ Head(stack).s = s
    BY <1>1, WorkTop DEF zend_list_delete, Top, IInv
  <2>2. refs[s] \in 0 .. 2
    BY DEF IInv, TypeOK
  <2>. QED BY <2>1, <2>2, StacksAre
<1>3. /\ UNCHANGED <<conn, table, stmt, ss, of, script>>
      /\ wrong' = (wrong \/ ~(res[s] \in {"live", "closed"} /\ refs[s] > 0))
      /\ refs' = [refs EXCEPT ![s] = IF @ > 0 THEN @ - 1 ELSE 0]
      /\ res' = [res EXCEPT ![s] = IF refs[s] <= 1 /\ @ = "live" THEN "closed" ELSE @]
  BY <1>2 DEF zend_list_delete, Needs
<1>4. /\ refs[s] > 1 => stack' = << >> \o rest
      /\ ~(refs[s] > 1) /\ res[s] = "live" => stack' = <<F("dtor", s), F("release", s)>> \o rest
      /\ ~(refs[s] > 1) /\ res[s] # "live" => stack' = <<F("release", s)>> \o rest
  <2>1. stack' = (IF refs[s] > 1 THEN << >>
                  ELSE IF res[s] = "live" THEN <<F("dtor", s), F("release", s)>>
                  ELSE <<F("release", s)>>) \o rest
    BY <1>2 DEF zend_list_delete, Then
  <2>. QED BY <2>1, Zenon
<1>. HIDE DEF rest
<1>5. ASSUME refs[s] > 0, res[s] \in {"live", "closed"}
      PROVE  /\ refs'[s] = refs[s] - 1 /\ ~wrong'
             /\ res'[s] = IF refs[s] = 1 THEN "closed" ELSE res[s]
             /\ \A t \in Stmts \ {s} : refs'[t] = refs[t] /\ res'[t] = res[t]
             /\ \A t \in Stmts \ {s} : AtRest(t)'
             /\ StreamsMatch'
             /\ stack' \in Seq(Frames) => TypeOK'
  <2>1. /\ refs'[s] = refs[s] - 1 /\ ~wrong'
        /\ res'[s] = IF refs[s] = 1 THEN "closed" ELSE res[s]
        /\ \A t \in Stmts \ {s} : refs'[t] = refs[t] /\ res'[t] = res[t]
    BY <1>2, <1>3, <1>5 DEF IInv, TypeOK
  <2>2. \A t \in Stmts \ {s} : AtRest(t)'
    BY <1>1, <1>3, <2>1 DEF AtRest, Count, Allocated
  <2>3. StreamsMatch'
    BY <1>3 DEF IInv, StreamsMatch, Allocated
  <2>4. ASSUME stack' \in Seq(Frames) PROVE TypeOK'
    <3>1. refs' \in [Stmts -> 0 .. 2] /\ res' \in [Stmts -> {"none", "live", "closed", "freed"}]
      BY <1>2, <1>3, <1>5 DEF IInv, TypeOK
    <3>. QED BY <1>3, <2>1, <2>4, <3>1 DEF IInv, TypeOK
  <2>. QED BY <2>1, <2>2, <2>3, <2>4
<1>6. Count(s)' = Count(s) /\ Count(s) \in Nat
  BY <1>3 DEF Count
<1>. DEFINE R == Push(F("release", s), base)
            D == Push(F("destroy", s), base)
<1>9. /\ base \in Seq(Frames) /\ D \in Seq(Frames) /\ R \in Seq(Frames)
      /\ << >> \o base = base /\ << >> \o D = D
      /\ <<F("dtor", s), F("release", s)>> \o base = Push(F("dtor", s), R)
      /\ Push(F("dtor", s), R) \in Seq(Frames)
      /\ <<F("release", s)>> \o base = R
      /\ <<F("release", s)>> \o D = Push(F("release", s), D)
      /\ Push(F("release", s), D) \in Seq(Frames)
  BY <1>2 DEF Stacks
<1>10. /\ stack = Push(F("delete", s), base) => rest = base
       /\ stack = Push(F("delete", s), D) => rest = D
  BY <1>2 DEF Stacks, rest
<1>. HIDE DEF R, D
<1>7. CASE LettingGo(s, base)
  <2>1. refs[s] > 0 /\ res[s] \in {"live", "closed"} /\ refs[s] = Count(s) + 1 /\ rest = base
    BY <1>6, <1>7, <1>10 DEF LettingGo, Live
  <2>6. refs[s] = 1 => ~(refs[s] > 1)
    OBVIOUS
  <2>2. CASE refs[s] > 1
    <3>1. stack' = base /\ stack' \in Seq(Frames) /\ refs'[s] = Count(s)' /\ refs'[s] > 0
      BY <1>2, <1>4, <1>5, <1>6, <1>9, <2>1, <2>2
    <3>5. \A t \in Stmts : res'[t] = res[t]
      BY <1>5, <2>1, <2>2
    <3>2. AtRest(s)'
      BY <1>3, <1>7, <2>1, <2>2, <3>1, <3>5 DEF LettingGo, AtRest, Live, Allocated
    <3>3. Tabled(base, {})' \/ (Opening(base, s) /\ stmt[s].active = NoStream)'
      BY <1>3, <1>7, <3>1, <3>5 DEF LettingGo, Tabled, Opening, Live
    <3>4. Idle'
      BY <1>5, <2>1, <3>1, <3>2, <3>3, WorkDone
    <3>. QED BY <1>5, <2>1, <3>1, <3>4 DEF IInv
  <2>3. CASE refs[s] = 1
    <3>1. refs'[s] = 0 /\ Count(s)' = 0 /\ res'[s] = "closed" /\ s \notin script
      BY <1>5, <1>6, <2>1, <2>3 DEF Count
    <3>2. Tabled(base, {})
      BY <1>7, <3>1 DEF LettingGo, Opening
    <3>3. CASE res[s] = "live"
      <4>1. stack' = Push(F("dtor", s), Push(F("release", s), base)) /\ stack' \in Seq(Frames)
        BY <1>4, <1>9, <2>1, <2>3, <2>6, <3>3, Zenon DEF R
      <4>2. Allocated(s)' /\ (conn = "open")'
        BY <1>3, <1>7, <3>3 DEF LettingGo, Allocated
      <4>3. { t \in Stmts : Live(t)' } \cup {s} = { t \in Stmts : Live(t) }
        BY <1>5, <2>1, <3>1, <3>3 DEF Live
      <4>4. Tabled(base, {s})'
        BY <1>3, <3>2, <4>3 DEF Tabled
      <4>5. Dropped(s, base)'
        BY <3>1, <4>1, <4>2, <4>4 DEF Dropped
      <4>. QED BY <1>5, <2>1, <4>1, <4>5 DEF IInv, Working
    <3>4. CASE res[s] = "closed"
      <4>1. stack' = Push(F("release", s), base) /\ stack' \in Seq(Frames)
        <5>1. res[s] # "live"
          BY <3>4
        <5>. QED BY <1>4, <1>9, <2>1, <2>3, <2>6, <5>1, Zenon DEF R
      <4>4. \A t \in Stmts : Live(t)' <=> Live(t)
        BY <1>5, <2>1, <2>3, <3>4 DEF Live
      <4>2. (stmt[s].mem = "freed")' /\ Tabled(base, {})'
        BY <1>3, <1>7, <3>2, <3>4, <4>4 DEF LettingGo, Tabled, Live
      <4>3. Dropped(s, base)'
        BY <3>1, <4>1, <4>2 DEF Dropped
      <4>. QED BY <1>5, <2>1, <4>1, <4>3 DEF IInv, Working
    <3>. QED BY <2>1, <3>3, <3>4
  <2>. QED BY <1>2, <2>1, <2>2, <2>3
<1>8. CASE /\ Allocated(s) /\ res[s] = "closed" /\ refs[s] = Count(s) + 1
           /\ stmt[s].active = NoStream /\ Going(base, s, {})
           /\ stack = Push(F("delete", s), Push(F("destroy", s), base))
  <2>1. refs[s] > 0 /\ res[s] \in {"live", "closed"} /\ rest = Push(F("destroy", s), base)
    BY <1>6, <1>8, <1>10 DEF D
  <2>2. res' = res
    BY <1>3, <1>8 DEF IInv, TypeOK
  <2>3. Going(base, s, {})' /\ Allocated(s)' /\ (stmt[s].active = NoStream)'
    BY <1>3, <1>8, <2>2 DEF Going, Tabled, Closing, Live, Allocated
  <2>6. refs[s] = 1 => ~(refs[s] > 1)
    OBVIOUS
  <2>7. res[s] # "live"
    BY <1>8
  <2>4. CASE refs[s] > 1
    <3>1. stack' = Push(F("destroy", s), base) /\ stack' \in Seq(Frames)
      BY <1>4, <1>9, <2>1, <2>4 DEF D
    <3>2. refs'[s] = Count(s)' /\ refs'[s] > 0
      BY <1>2, <1>5, <1>6, <1>8, <2>1, <2>4
    <3>3. Closed(s, base)'
      BY <1>8, <2>2, <2>3, <3>1, <3>2 DEF Closed
    <3>. QED BY <1>5, <2>1, <3>1, <3>3 DEF IInv, Working
  <2>5. CASE refs[s] = 1
    <3>1. /\ stack' = Push(F("release", s), Push(F("destroy", s), base))
          /\ stack' \in Seq(Frames)
      BY <1>4, <1>9, <2>1, <2>5, <2>6, <2>7, Zenon DEF D
    <3>2. refs'[s] = 0 /\ Count(s)' = 0
      BY <1>5, <1>6, <1>8, <2>1, <2>5
    <3>3. Closed(s, base)'
      BY <1>8, <2>2, <2>3, <3>1, <3>2 DEF Closed
    <3>. QED BY <1>5, <2>1, <3>1, <3>3 DEF IInv, Working
  <2>. QED BY <1>2, <2>1, <2>4, <2>5
<1>. QED BY <1>1, <1>2, <1>7, <1>8, WorkTop DEF IInv

LEMMA ReleaseKeeps ==
  ASSUME IInv, ReleaseResource
  PROVE  IInv'
<1>1. PICK s \in Stmts, base \in Bases : Working(s, base) /\ \A t \in Stmts \ {s} : AtRest(t)
  BY WorkUnderWay DEF ReleaseResource, Top, WorkOps
<1>2. Head(stack).op = "release" /\ Head(stack).s = s /\ Stacks(s, base)
  BY <1>1, WorkTop, StacksAre DEF ReleaseResource, Top, IInv
<1>3. res[s] = "closed" /\ refs[s] = 0 /\ Count(s) = 0
  BY <1>1, <1>2, WorkTop DEF IInv
<1>4. /\ UNCHANGED <<conn, table, stmt, refs, ss, of, script>> /\ wrong' = FALSE
      /\ res' = [res EXCEPT ![s] = "freed"]
      /\ stack' = << >> \o Tail(stack)
  BY <1>2, <1>3 DEF ReleaseResource, Needs, Then, IInv
<1>5. res'[s] = "freed" /\ \A t \in Stmts \ {s} : res'[t] = res[t]
  BY <1>4 DEF IInv, TypeOK
<1>6. (\A t \in Stmts : Live(t)' <=> Live(t)) /\ Count(s)' = 0
  BY <1>3, <1>4, <1>5 DEF Live, Count
<1>7. (\A t \in Stmts \ {s} : AtRest(t)') /\ StreamsMatch'
  BY <1>1, <1>4, <1>5 DEF AtRest, Count, Allocated, StreamsMatch, IInv
<1>8. ASSUME stack' \in Seq(Frames) PROVE TypeOK'
  <2>1. res' \in [Stmts -> {"none", "live", "closed", "freed"}]
    BY <1>4 DEF IInv, TypeOK
  <2>. QED BY <1>4, <1>8, <2>1 DEF IInv, TypeOK
<1>9. ASSUME NEW e \in SUBSET Stmts PROVE Tabled(base, e) => Tabled(base, e)'
  BY <1>4, <1>6 DEF Tabled
<1>10. CASE /\ stmt[s].mem = "freed" /\ Tabled(base, {})
            /\ stack = Push(F("release", s), base)
  <2>1. stack' = base /\ stack' \in Seq(Frames)
    BY <1>2, <1>4, <1>10 DEF Stacks
  <2>2. AtRest(s)'
    BY <1>3, <1>4, <1>5, <1>6, <1>10 DEF AtRest
  <2>3. Idle'
    BY <1>7, <1>9, <1>10, <2>1, <2>2, WorkDone
  <2>. QED BY <1>4, <1>7, <1>8, <2>1, <2>3 DEF IInv
<1>11. CASE /\ Allocated(s) /\ Going(base, s, {})
            /\ stack = Push(F("release", s), Push(F("destroy", s), base))
  <2>1. stack' = Push(F("destroy", s), base) /\ stack' \in Seq(Frames)
    BY <1>2, <1>4, <1>11 DEF Stacks
  <2>2. Going(base, s, {})'
    BY <1>6, <1>9, <1>11 DEF Going, Closing
  <2>3. Allocated(s)' /\ (stmt[s].active = NoStream)'
    BY <1>3, <1>4, <1>11 DEF Allocated, Count
  <2>4. Closed(s, base)'
    BY <1>3, <1>4, <1>5, <1>6, <2>1, <2>2, <2>3 DEF Closed
  <2>. QED BY <1>4, <1>7, <1>8, <2>1, <2>4 DEF IInv, Working
<1>. QED BY <1>1, <1>2, <1>10, <1>11, WorkTop DEF IInv

LEMMA CloseKeeps ==
  ASSUME IInv, zend_list_close
  PROVE  IInv'
<1>1. PICK s \in Stmts, base \in Bases : Working(s, base) /\ \A t \in Stmts \ {s} : AtRest(t)
  BY WorkUnderWay DEF zend_list_close, Top, WorkOps
<1>2. Head(stack).op = "close" /\ Head(stack).s = s /\ Stacks(s, base)
  BY <1>1, WorkTop, StacksAre DEF zend_list_close, Top, IInv
<1>3. /\ Allocated(s) /\ Live(s) /\ refs[s] = Count(s) /\ refs[s] > 0 /\ conn = "open"
      /\ Going(base, s, {}) /\ stack = Push(F("close", s), base)
  BY <1>1, <1>2, WorkTop DEF IInv
<1>4. /\ UNCHANGED <<conn, table, stmt, refs, ss, of, script>> /\ wrong' = FALSE
      /\ res' = [res EXCEPT ![s] = "closed"]
      /\ stack' = << F("dtor", s) >> \o Tail(stack)
  BY <1>2, <1>3 DEF zend_list_close, Needs, Then, IInv, Live
<1>5. res'[s] = "closed" /\ \A t \in Stmts \ {s} : res'[t] = res[t]
  BY <1>4 DEF IInv, TypeOK
<1>6. (\A t \in Stmts \ {s} : AtRest(t)') /\ StreamsMatch'
  BY <1>1, <1>4, <1>5 DEF AtRest, Count, Allocated, StreamsMatch, IInv
<1>7. stack' = Push(F("dtor", s), base) /\ stack' \in Seq(Frames)
  BY <1>2, <1>3, <1>4 DEF Stacks
<1>8. TypeOK'
  <2>1. res' \in [Stmts -> {"none", "live", "closed", "freed"}]
    BY <1>4 DEF IInv, TypeOK
  <2>. QED BY <1>4, <1>7, <2>1 DEF IInv, TypeOK
<1>9. Going(base, s, {s})'
  <2>1. CASE Tabled(base, {})
    <3>1. { t \in Stmts : Live(t)' } \cup {s} = { t \in Stmts : Live(t) }
      BY <1>3, <1>5 DEF Live
    <3>. QED BY <1>4, <2>1, <3>1 DEF Going, Tabled
  <2>2. CASE Closing(base, s)
    <3>1. { t \in Stmts \ {s} : Live(t)' } = { t \in Stmts \ {s} : Live(t) }
      BY <1>5 DEF Live
    <3>. QED BY <2>2, <3>1 DEF Going, Closing
  <2>. QED BY <1>3, <2>1, <2>2 DEF Going
<1>10. Closed(s, base)'
  BY <1>3, <1>4, <1>5, <1>7, <1>9 DEF Closed, Allocated, Count
<1>. QED BY <1>4, <1>6, <1>8, <1>10 DEF IInv, Working

LEMMA DtorKeeps ==
  ASSUME IInv, sqlsrv_stmt_dtor
  PROVE  IInv'
<1>1. PICK s \in Stmts, base \in Bases : Working(s, base) /\ \A t \in Stmts \ {s} : AtRest(t)
  BY WorkUnderWay DEF sqlsrv_stmt_dtor, Top, WorkOps
<1>2. Head(stack).op = "dtor" /\ Head(stack).s = s /\ Stacks(s, base)
  BY <1>1, WorkTop, StacksAre DEF sqlsrv_stmt_dtor, Top, IInv
<1>3. res[s] = "closed" /\ Allocated(s) /\ conn = "open"
  BY <1>1, <1>2, WorkTop DEF IInv
<1>4. /\ UNCHANGED <<conn, stmt, res, refs, ss, of, script>> /\ wrong' = FALSE
      /\ table' = IF stmt[s].conn THEN table \ {s} ELSE table
      /\ stack' = << F("active", s), F("destroy", s) >> \o Tail(stack)
  BY <1>2, <1>3 DEF sqlsrv_stmt_dtor, Needs, Then, WithoutEntry, IInv
<1>5. (\A t \in Stmts \ {s} : AtRest(t)') /\ StreamsMatch'
  BY <1>1, <1>4 DEF AtRest, Count, Allocated, StreamsMatch, IInv
<1>6. ASSUME stack' \in Seq(Frames) PROVE TypeOK'
  BY <1>4, <1>6 DEF IInv, TypeOK
<1>7. Tabled(base, {s}) => Tabled(base, {})'
  <2>1. SUFFICES ASSUME Tabled(base, {s}) PROVE Tabled(base, {})'
    OBVIOUS
  <2>2. stmt[s].conn /\ table' = { t \in Stmts : Live(t) }
    BY <1>3, <1>4, <2>1 DEF Tabled, Live
  <2>. QED BY <1>4, <2>1, <2>2 DEF Tabled, Live
<1>8. CASE /\ refs[s] = 0 /\ Count(s) = 0 /\ Tabled(base, {s})
           /\ stack = Push(F("dtor", s), Push(F("release", s), base))
  <2>1. /\ stack' = Push(F("active", s), Push(F("destroy", s), Push(F("release", s), base)))
        /\ stack' \in Seq(Frames)
    <3>1. Tail(stack) = Push(F("release", s), base)
      BY <1>2, <1>8 DEF Stacks
    <3>. QED BY <1>2, <1>4, <3>1, Zenon DEF Stacks
  <2>2. Dropped(s, base)'
    BY <1>3, <1>4, <1>7, <1>8, <2>1 DEF Dropped, Allocated, Count
  <2>. QED BY <1>4, <1>5, <1>6, <2>1, <2>2 DEF IInv, Working
<1>9. CASE /\ refs[s] = Count(s) /\ refs[s] > 0 /\ Going(base, s, {s})
           /\ stack = Push(F("dtor", s), base)
  <2>1. /\ stack' = Push(F("active", s), Push(F("destroy", s), base))
        /\ stack' \in Seq(Frames)
    <3>1. Tail(stack) = base
      BY <1>2, <1>9 DEF Stacks
    <3>. QED BY <1>2, <1>4, <3>1, Zenon DEF Stacks
  <2>2. Going(base, s, {})'
    BY <1>4, <1>7, <1>9 DEF Going, Closing, Live
  <2>3. Closed(s, base)'
    BY <1>3, <1>4, <1>9, <2>1, <2>2 DEF Closed, Allocated, Count
  <2>. QED BY <1>4, <1>5, <1>6, <2>1, <2>3 DEF IInv, Working
<1>. QED BY <1>1, <1>2, <1>8, <1>9, WorkTop DEF IInv

LEMMA DestroyKeeps ==
  ASSUME IInv, DestroyStatement
  PROVE  IInv'
<1>1. PICK s \in Stmts, base \in Bases : Working(s, base) /\ \A t \in Stmts \ {s} : AtRest(t)
  BY WorkUnderWay DEF DestroyStatement, Top, WorkOps
<1>2. Head(stack).op = "destroy" /\ Head(stack).s = s /\ Stacks(s, base)
  BY <1>1, WorkTop, StacksAre DEF DestroyStatement, Top, IInv
<1>3. Allocated(s) /\ stmt[s].active = NoStream
  BY <1>1, <1>2, WorkTop DEF IInv
<1>4. /\ UNCHANGED <<conn, table, res, refs, ss, of, script>> /\ wrong' = FALSE
      /\ stmt' = [stmt EXCEPT ![s].mem = "freed"]
      /\ stack' = << >> \o Tail(stack)
  BY <1>2, <1>3 DEF DestroyStatement, Needs, Then, IInv
<1>5. /\ stmt'[s].active = NoStream /\ stmt'[s].mem = "freed" /\ stmt'[s].conn = stmt[s].conn
      /\ \A t \in Stmts \ {s} : stmt'[t] = stmt[t]
  BY <1>3, <1>4 DEF IInv, TypeOK
<1>6. (\A t \in Stmts \ {s} : AtRest(t)') /\ Count(s)' = Count(s)
  BY <1>1, <1>3, <1>4, <1>5 DEF AtRest, Count, Allocated
<1>7. StreamsMatch'
  <2>1. ASSUME NEW y \in Streams, ss'[y] = "open"
        PROVE  of'[y] \in Stmts /\ stmt'[of'[y]].active = y
    BY <1>3, <1>4, <1>5, <2>1 DEF IInv, StreamsMatch
  <2>2. ASSUME NEW t \in Stmts, stmt'[t].active # NoStream
        PROVE  Allocated(t)' /\ ss'[stmt'[t].active] = "open" /\ of'[stmt'[t].active] = t
    BY <1>3, <1>4, <1>5, <2>2 DEF IInv, StreamsMatch, Allocated
  <2>. QED BY <2>1, <2>2 DEF StreamsMatch
<1>8. ASSUME stack' \in Seq(Frames) PROVE TypeOK'
  <2>1. stmt' \in [Stmts -> [mem : {"none", "alloc", "freed"}, conn : BOOLEAN,
                             active : Streams \cup {NoStream}]]
    BY <1>4 DEF IInv, TypeOK
  <2>. QED BY <1>4, <1>8, <2>1 DEF IInv, TypeOK
<1>9. Tabled(base, {}) => Tabled(base, {})'
  BY <1>4, <1>5 DEF Tabled, Live
<1>10. CASE /\ res[s] = "closed" /\ refs[s] = 0 /\ Count(s) = 0 /\ Tabled(base, {})
            /\ stack = Push(F("destroy", s), Push(F("release", s), base))
  <2>1. stack' = Push(F("release", s), base) /\ stack' \in Seq(Frames)
    BY <1>2, <1>4, <1>10 DEF Stacks
  <2>2. Dropped(s, base)'
    BY <1>4, <1>5, <1>6, <1>9, <1>10, <2>1 DEF Dropped
  <2>. QED BY <1>4, <1>6, <1>7, <1>8, <2>1, <2>2 DEF IInv, Working
<1>11. CASE /\ refs[s] = Count(s) /\ Going(base, s, {})
            /\ \/ res[s] = "closed" /\ refs[s] > 0
               \/ res[s] = "freed" /\ refs[s] = 0
            /\ stack = Push(F("destroy", s), base)
  <2>1. stack' = base /\ stack' \in Seq(Frames)
    BY <1>2, <1>4, <1>11 DEF Stacks
  <2>2. AtRest(s)' /\ ~Live(s)'
    BY <1>4, <1>5, <1>6, <1>11 DEF AtRest, Live
  <2>3. Tabled(base, {})' \/ Closing(base, s)'
    BY <1>4, <1>9, <1>11 DEF Going, Closing, Live
  <2>4. Idle'
    BY <1>6, <2>1, <2>2, <2>3, WorkDone
  <2>. QED BY <1>4, <1>7, <1>8, <2>1, <2>4 DEF IInv
<1>. QED BY <1>1, <1>2, <1>10, <1>11, WorkTop DEF IInv

-----------------------------------------------------------------------------
(* Nothing is worked on: what the script or a waiting call does next.      *)
LEMMA IdleUnderWay ==
  ASSUME IInv, stack = << >> \/ Head(stack).op \notin WorkOps
  PROVE  Idle
BY WorkTop DEF IInv

LEMMA IdleTops ==
  ASSUME Idle, TypeOK
  PROVE  /\ stack = << >> => Tabled(stack, {})
         /\ stack # << >> /\ Head(stack).op = "shutdown" =>
              stack = << [op |-> "shutdown"] >> /\ Tabled(stack, {})
         /\ stack # << >> /\ Head(stack).op = "open" =>
              \E s \in Stmts, x \in Streams :
                /\ stack = << OpenFrame(s, x) >> /\ ss[x] = "none"
                /\ Opening(stack, s) /\ stmt[s].active = NoStream
         /\ stack # << >> /\ Head(stack).op = "stmts" =>
              stack = << StmtsFrame({ s \in Stmts : Live(s) }) >>
         /\ stack # << >> /\ Head(stack).op = "disconnect" =>
              /\ stack = << [op |-> "disconnect"] >>
              /\ table = {} /\ \A s \in Stmts : ~Live(s)
<1>1. CASE Tabled(stack, {})
  BY <1>1, FramesAre, OneIs, PushIs DEF Tabled
<1>2. CASE \E s \in Stmts : Opening(stack, s) /\ stmt[s].active = NoStream
  <2>1. PICK s \in Stmts : Opening(stack, s) /\ stmt[s].active = NoStream
    BY <1>2
  <2>2. PICK x \in Streams : stack = << OpenFrame(s, x) >> /\ ss[x] = "none"
    BY <2>1 DEF Opening
  <2>3. stack # << >> /\ Head(stack).op = "open"
    BY <2>2, FramesAre, OneIs, PushIs DEF OpenFrame
  <2>. QED BY <2>1, <2>2, <2>3
<1>3. CASE stack = << StmtsFrame({ s \in Stmts : Live(s) }) >>
  <2>1. stack # << >> /\ Head(stack).op = "stmts"
    BY <1>3, FramesAre, OneIs, PushIs DEF StmtsFrame
  <2>. QED BY <1>3, <2>1
<1>4. CASE stack = << [op |-> "disconnect"] >> /\ table = {} /\ \A s \in Stmts : ~Live(s)
  <2>1. stack # << >> /\ Head(stack).op = "disconnect"
    BY <1>4, FramesAre, OneIs, PushIs
  <2>. QED BY <1>4, <2>1
<1>. QED BY <1>1, <1>2, <1>3, <1>4 DEF Idle

LEMMA OpenKeeps ==
  ASSUME IInv, OpenStream
  PROVE  IInv'
<1>1. Idle /\ \A s \in Stmts : AtRest(s)
  BY IdleUnderWay DEF OpenStream, Top, WorkOps, Idle
<1>2. PICK s \in Stmts, x \in Streams : /\ stack = << OpenFrame(s, x) >> /\ ss[x] = "none"
                                        /\ Opening(stack, s) /\ stmt[s].active = NoStream
  BY <1>1, IdleTops DEF OpenStream, Top, IInv
<1>3. Head(stack).s = s /\ Head(stack).x = x /\ << >> \o Tail(stack) = << >>
  BY <1>2, FramesAre, OneIs, PushIs, ConcatEmptySeq DEF OpenFrame
<1>4. /\ s \in script /\ Live(s) /\ table = { t \in Stmts : Live(t) }
      /\ \A t \in table : stmt[t].conn
  BY <1>2 DEF Opening
<1>5. Allocated(s) /\ refs[s] = 1 /\ conn = "open" /\ x # NoStream
  BY <1>1, <1>2, <1>4, ResourcesAssumption DEF AtRest, Live, Count
<1>6. /\ UNCHANGED <<conn, table, res>> /\ wrong' = FALSE /\ stack' = << >>
      /\ ss' = [ss EXCEPT ![x] = "open"] /\ of' = [of EXCEPT ![x] = s]
      /\ stmt' = [stmt EXCEPT ![s].active = x]
      /\ script' = script \cup {x}
      /\ refs' = [refs EXCEPT ![s] = @ + 1]
  BY <1>3, <1>4, <1>5 DEF OpenStream, Needs, Then, Held, IInv, Live
<1>7. /\ stmt'[s].active = x /\ stmt'[s].mem = stmt[s].mem /\ stmt'[s].conn = stmt[s].conn
      /\ \A t \in Stmts \ {s} : stmt'[t] = stmt[t]
      /\ refs'[s] = 2 /\ \A t \in Stmts \ {s} : refs'[t] = refs[t]
      /\ ss'[x] = "open" /\ \A y \in Streams \ {x} : ss'[y] = ss[y]
      /\ of'[x] = s /\ \A y \in Streams \ {x} : of'[y] = of[y]
  BY <1>5, <1>6 DEF IInv, TypeOK
<1>8. x \notin Stmts
  BY ResourcesAssumption
<1>9. \A t \in Stmts : AtRest(t)'
  <2>1. ASSUME NEW t \in Stmts, t # s PROVE AtRest(t)'
    BY <1>1, <1>6, <1>7, <1>8, <2>1 DEF AtRest, Count, Allocated
  <2>2. AtRest(s)'
    BY <1>4, <1>5, <1>6, <1>7, <1>8 DEF AtRest, Count, Allocated, Live
  <2>. QED BY <2>1, <2>2
<1>10. StreamsMatch'
  <2>1. ASSUME NEW y \in Streams, ss'[y] = "open"
        PROVE  of'[y] \in Stmts /\ stmt'[of'[y]].active = y
    <3>1. CASE y = x
      BY <1>7, <3>1
    <3>2. CASE y # x
      <4>1. of[y] \in Stmts /\ stmt[of[y]].active = y /\ of'[y] = of[y]
        BY <1>7, <2>1, <3>2 DEF IInv, StreamsMatch
      <4>2. of[y] # s
        BY <1>2, <4>1, ResourcesAssumption
      <4>. QED BY <1>7, <4>1, <4>2
    <3>. QED BY <3>1, <3>2
  <2>2. ASSUME NEW t \in Stmts, stmt'[t].active # NoStream
        PROVE  Allocated(t)' /\ ss'[stmt'[t].active] = "open" /\ of'[stmt'[t].active] = t
    <3>1. CASE t = s
      BY <1>5, <1>7, <3>1 DEF Allocated
    <3>2. CASE t # s
      <4>1. /\ Allocated(t) /\ ss[stmt[t].active] = "open" /\ of[stmt[t].active] = t
            /\ stmt[t].active \in Streams \ {x}
        BY <1>2, <1>7, <2>2, <3>2 DEF IInv, StreamsMatch, TypeOK
      <4>. QED BY <1>7, <3>2, <4>1 DEF Allocated
    <3>. QED BY <3>1, <3>2
  <2>. QED BY <2>1, <2>2 DEF StreamsMatch
<1>11. TypeOK'
  <2>1. ss' \in [Streams -> {"none", "open", "freed"}] /\ of' \in [Streams -> Nat]
    BY <1>6, ResourcesAssumption DEF IInv, TypeOK
  <2>2. stmt' \in [Stmts -> [mem : {"none", "alloc", "freed"}, conn : BOOLEAN,
                             active : Streams \cup {NoStream}]]
    BY <1>6 DEF IInv, TypeOK
  <2>3. refs' \in [Stmts -> 0 .. 2]
    BY <1>5, <1>6 DEF IInv, TypeOK
  <2>4. script' \subseteq {Conn} \cup Stmts \cup Streams /\ stack' \in Seq(Frames)
    BY <1>6 DEF IInv, TypeOK
  <2>. QED BY <1>6, <2>1, <2>2, <2>3, <2>4 DEF IInv, TypeOK
<1>12. Tabled(stack, {})'
  <2>1. \A t \in table : stmt'[t].conn
    BY <1>4, <1>7 DEF Live
  <2>. QED BY <1>4, <1>6, <2>1 DEF Tabled, Live
<1>. QED BY <1>6, <1>9, <1>10, <1>11, <1>12 DEF IInv, Idle

(* A set of numbers that is not empty has a smallest one.                  *)
LEMMA Smallest ==
  ASSUME NEW T \in SUBSET Nat, T # {}
  PROVE  \E a \in T : \A b \in T : a <= b
<1>. DEFINE less == { p \in Nat \X Nat : p[1] < p[2] }
<1>1. IsWellFoundedOn(less, Nat)
  BY NatLessThanWellFounded DEF OpToRel
<1>2. \A j \in Nat, k \in Nat : j < k => <<j, k>> \in less
  OBVIOUS
<1>. HIDE DEF less
<1>3. PICK a \in T : \A b \in T : ~(<<b, a>> \in less)
  BY <1>1, WFMin
<1>4. ASSUME NEW b \in T PROVE a <= b
  <2>1. a \in Nat /\ b \in Nat /\ ~(<<b, a>> \in less)
    BY <1>3
  <2>2. ~(b < a)
    BY <1>2, <2>1
  <2>. QED BY <2>1, <2>2
<1>. QED BY <1>4

LEMMA CloseStmtsKeeps ==
  ASSUME IInv, sqlsrv_conn_close_stmts
  PROVE  IInv'
<1>. DEFINE left == { t \in Stmts : Live(t) }
<1>1. Idle /\ (\A s \in Stmts : AtRest(s)) /\ stack = << StmtsFrame(left) >>
  BY IdleUnderWay, IdleTops DEF sqlsrv_conn_close_stmts, Top, WorkOps, Idle, IInv
<1>2. Head(stack).left = left /\ Tail(stack) = << >>
  <2>1. StmtsFrame(left) \in Frames
    BY FramesAre
  <2>2. Head(stack) = StmtsFrame(left) /\ Tail(stack) = << >>
    BY <1>1, <2>1, OneIs, PushIs
  <2>. QED BY <2>2 DEF StmtsFrame
<1>3. UNCHANGED <<conn, res, refs, ss, of, script>>
  BY DEF sqlsrv_conn_close_stmts
<1>. HIDE DEF left
<1>4. CASE left = {}
  <2>1. /\ table' = {} /\ UNCHANGED <<stmt, wrong>>
        /\ stack' = << [op |-> "disconnect"] >> \o << >>
    BY <1>2, <1>4 DEF sqlsrv_conn_close_stmts, Then
  <2>2. stack' = << [op |-> "disconnect"] >> /\ stack' \in Seq(Frames)
    BY <2>1, FramesAre, OneIs DEF Push
  <2>3. TypeOK' /\ StreamsMatch' /\ ~wrong' /\ \A s \in Stmts : AtRest(s)'
    BY <1>1, <1>3, <2>1, <2>2 DEF IInv, TypeOK, StreamsMatch, AtRest, Allocated, Count
  <2>4. \A s \in Stmts : ~Live(s)'
    BY <1>3, <1>4 DEF left, Live
  <2>. QED BY <2>1, <2>2, <2>3, <2>4 DEF IInv, Idle
<1>5. CASE left # {}
  <2>1. PICK s \in left : s = CHOOSE a \in left : \A b \in left : a <= b
    <3>1. \E a \in left : \A b \in left : a <= b
      BY <1>5, Smallest, ResourcesAssumption DEF left
    <3>. QED BY <3>1
  <2>4. PICK l \in SUBSET Stmts : l = left \ {s}
    BY DEF left
  <2>2. s \in Stmts /\ Live(s) /\ Allocated(s) /\ refs[s] > 0 /\ conn = "open" /\ refs[s] = Count(s)
    BY <1>1, <2>1 DEF left, AtRest, Live
  <2>. DEFINE next == StmtsFrame(l)
              base == << next >>
  <2>3. /\ UNCHANGED table /\ wrong' = FALSE
        /\ stmt' = [stmt EXCEPT ![s].conn = FALSE]
        /\ stack' = << F("close", s), next >> \o << >>
    BY <1>2, <1>5, <2>1, <2>2, <2>4 DEF sqlsrv_conn_close_stmts, Then, Needs, Orphaned, StmtsFrame, IInv, Live
  <2>5. /\ stmt'[s].mem = stmt[s].mem /\ stmt'[s].active = stmt[s].active
        /\ \A t \in Stmts \ {s} : stmt'[t] = stmt[t]
    BY <2>2, <2>3 DEF IInv, TypeOK
  <2>6. /\ next \in Frames /\ F("close", s) \in Frames /\ base \in Bases /\ base \in Seq(Frames)
        /\ base = Push(next, << >>) /\ << >> \in Seq(Frames)
    <3>1. next \in Frames /\ F("close", s) \in Frames
      BY <2>2, <2>4, FramesAre
    <3>2. base \in Bases
      BY <2>4 DEF Bases
    <3>. QED BY <3>1, <3>2, OneIs
  <2>7. stack' = Push(F("close", s), base) /\ stack' \in Seq(Frames)
    <3>1. << F("close", s), next >> \o << >> = Push(F("close", s), Push(next, << >>))
      BY <2>6, ThenIs
    <3>2. Push(F("close", s), base) \in Seq(Frames)
      BY <2>6, PushIs
    <3>. QED BY <2>3, <2>6, <3>1, <3>2, Zenon
  <2>8. \A t \in Stmts : AtRest(t)'
    BY <1>1, <1>3, <2>5 DEF AtRest, Count, Allocated
  <2>9. StreamsMatch'
    <3>1. \A t \in Stmts : stmt'[t].active = stmt[t].active /\ stmt'[t].mem = stmt[t].mem
      BY <2>5
    <3>. QED BY <1>3, <3>1 DEF IInv, StreamsMatch, Allocated
  <2>10. TypeOK'
    <3>1. stmt' \in [Stmts -> [mem : {"none", "alloc", "freed"}, conn : BOOLEAN,
                               active : Streams \cup {NoStream}]]
      BY <2>3 DEF IInv, TypeOK
    <3>. QED BY <1>3, <2>3, <2>7, <3>1 DEF IInv, TypeOK
  <2>11. Closing(base, s)'
    <3>1. { t \in Stmts \ {s} : Live(t)' } = l
      BY <1>3, <2>4 DEF Live, left
    <3>. QED BY <3>1 DEF Closing
  <2>13. (Allocated(s) /\ Live(s) /\ refs[s] = Count(s) /\ refs[s] > 0 /\ conn = "open")'
    BY <1>3, <2>2, <2>5 DEF Live, Allocated, Count
  <2>12. Closed(s, base)'
    BY <2>7, <2>11, <2>13 DEF Closed, Going
  <2>. QED BY <2>2, <2>3, <2>6, <2>8, <2>9, <2>10, <2>12 DEF IInv, Working
<1>. QED BY <1>4, <1>5

LEMMA DisconnectKeeps ==
  ASSUME IInv, core_sqlsrv_close
  PROVE  IInv'
<1>1. /\ Idle /\ \A s \in Stmts : AtRest(s) /\ ~Live(s)
      /\ stack = << [op |-> "disconnect"] >> /\ table = {}
  BY IdleUnderWay, IdleTops DEF core_sqlsrv_close, Top, WorkOps, Idle, IInv
<1>2. << >> \o Tail(stack) = << >>
  BY <1>1, FramesAre, OneIs, PushIs, ConcatEmptySeq
<1>3. \A s \in Stmts : ~Allocated(s)
  BY <1>1 DEF AtRest, Live, Allocated
<1>4. /\ UNCHANGED <<table, stmt, res, refs, ss, of, script>>
      /\ conn' = "closed" /\ stack' = << >> /\ wrong' = FALSE
  BY <1>2, <1>3 DEF core_sqlsrv_close, Needs, Then, IInv
<1>5. TypeOK'
  BY <1>4, EmptySeq DEF IInv, TypeOK
<1>7. StreamsMatch'
  BY <1>4 DEF IInv, StreamsMatch, Allocated
<1>6. (\A s \in Stmts : AtRest(s)') /\ Tabled(stack, {})'
  BY <1>1, <1>4 DEF AtRest, Count, Allocated, Live, Tabled
<1>. QED BY <1>4, <1>5, <1>6, <1>7 DEF IInv, Idle

LEMMA ShutdownKeeps ==
  ASSUME IInv, Shutdown
  PROVE  IInv'
<1>. DEFINE end  == [op |-> "shutdown"]
            base == << end >>
            open == { x \in Streams : ss[x] = "open" }
            live == { s \in Stmts : res[s] = "live" }
<1>1. Idle /\ (\A s \in Stmts : AtRest(s)) /\ stack = base /\ Tabled(base, {})
  BY IdleUnderWay, IdleTops DEF Shutdown, Top, WorkOps, Idle, IInv
<1>2. /\ end \in Frames /\ base \in Seq(Frames) /\ base = Push(end, << >>) /\ << >> \in Seq(Frames)
      /\ Head(stack) = end /\ Tail(stack) = << >> /\ base \in Bases
  BY <1>1, FramesAre, OneIs, PushIs DEF Bases
<1>3. UNCHANGED <<conn, table, stmt, res, refs, ss, of, script, wrong>>
  BY DEF Shutdown
<1>4. (\A s \in Stmts : AtRest(s)') /\ StreamsMatch' /\ Tabled(base, {})'
  BY <1>1, <1>3 DEF AtRest, Count, Allocated, StreamsMatch, Tabled, Live, IInv
<1>5. ASSUME stack' \in Seq(Frames) PROVE TypeOK' /\ ~wrong'
  BY <1>3, <1>5 DEF IInv, TypeOK
<1>6. CASE \E x \in open : Then(<< [op |-> "stream", x |-> x], Head(stack) >>)
  <2>1. PICK x \in open : Then(<< [op |-> "stream", x |-> x], Head(stack) >>)
    BY <1>6
  <2>2. x \in Streams /\ of[x] \in Stmts /\ stmt[of[x]].active = x /\ x # NoStream
    BY ResourcesAssumption DEF IInv, StreamsMatch
  <2>3. PICK s \in Stmts : s = of[x]
    BY <2>2
  <2>4. Allocated(s) /\ Live(s)
    BY <1>1, <2>2, <2>3 DEF IInv, StreamsMatch, AtRest, Allocated, Live
  <2>5. stack' = Push(StreamFrame(x), base) /\ stack' \in Seq(Frames)
    <3>1. StreamFrame(x) \in Frames
      BY <2>2, FramesAre
    <3>2. /\ << StreamFrame(x), end >> \o << >> = Push(StreamFrame(x), Push(end, << >>))
          /\ Push(StreamFrame(x), base) \in Seq(Frames)
      BY <1>2, <3>1, ThenIs, PushIs
    <3>3. stack' = << StreamFrame(x), end >> \o << >>
      BY <1>2, <2>1, Zenon DEF Then, StreamFrame
    <3>. QED BY <1>2, <3>2, <3>3, Zenon
  <2>6. Using(s, base)'
    BY <1>3, <1>4, <2>2, <2>3, <2>4, <2>5 DEF Using, Live
  <2>. QED BY <1>2, <1>4, <1>5, <2>5, <2>6 DEF IInv, Working
<1>7. CASE \E s \in live : Then(<< F("close", s), Head(stack) >>)
  <2>1. PICK s \in live : Then(<< F("close", s), Head(stack) >>)
    BY <1>7
  <2>2. /\ s \in Stmts /\ Live(s) /\ Allocated(s) /\ conn = "open"
        /\ refs[s] = Count(s) /\ refs[s] > 0
    BY <1>1, <2>1 DEF AtRest, Live
  <2>3. stack' = Push(F("close", s), base) /\ stack' \in Seq(Frames)
    <3>1. F("close", s) \in Frames
      BY <2>2, FramesAre
    <3>2. /\ << F("close", s), end >> \o << >> = Push(F("close", s), Push(end, << >>))
          /\ Push(F("close", s), base) \in Seq(Frames)
      BY <1>2, <3>1, ThenIs, PushIs
    <3>3. stack' = << F("close", s), end >> \o << >>
      BY <1>2, <2>1, Zenon DEF Then
    <3>. QED BY <1>2, <3>2, <3>3, Zenon
  <2>4. Closed(s, base)'
    BY <1>3, <1>4, <2>2, <2>3 DEF Closed, Going, Live, Allocated, Count
  <2>. QED BY <1>2, <1>4, <1>5, <2>2, <2>3, <2>4 DEF IInv, Working
<1>8. CASE /\ open = {} /\ live = {}
           /\ Then(IF conn = "open" THEN << [op |-> "stmts", left |-> table] >> ELSE << >>)
  <2>1. table = {} /\ \A s \in Stmts : ~Live(s)
    BY <1>1, <1>8 DEF Tabled, Live
  <2>2. CASE conn = "open"
    <3>1. stack' = << [op |-> "stmts", left |-> table] >> \o << >>
      BY <1>2, <1>8, <2>2, Zenon DEF Then
    <3>2. StmtsFrame({}) \in Frames
      BY FramesAre
    <3>3. stack' = << StmtsFrame({}) >> /\ stack' \in Seq(Frames)
      BY <2>1, <3>1, <3>2, OneIs DEF Push, StmtsFrame
    <3>4. { s \in Stmts : Live(s)' } = {}
      BY <1>3, <2>1 DEF Live
    <3>5. Idle'
      BY <1>4, <3>3, <3>4 DEF Idle
    <3>. QED BY <1>4, <1>5, <3>3, <3>5 DEF IInv
  <2>3. CASE conn # "open"
    <3>1. stack' = << >>
      BY <1>2, <1>8, <2>3, ConcatEmptySeq DEF Then
    <3>2. Tabled(stack, {})'
      BY <1>4, <3>1 DEF Tabled
    <3>. QED BY <1>2, <1>4, <1>5, <3>1, <3>2 DEF IInv, Idle
  <2>. QED BY <2>2, <2>3
<1>. QED BY <1>6, <1>7, <1>8 DEF Shutdown

(* A call starts from a settled state, and what it runs is the work there  *)
(* is then.                                                                *)
LEMMA AtCall ==
  ASSUME IInv, stack = << >>
  PROVE  (\A s \in Stmts : AtRest(s)) /\ Tabled(<< >>, {})
BY IdleUnderWay, IdleTops DEF IInv, Idle

LEMMA PrepareKeeps ==
  ASSUME IInv, NEW s \in Stmts, sqlsrv_prepare(s)
  PROVE  IInv'
<1>1. (\A t \in Stmts : AtRest(t)) /\ Tabled(<< >>, {})
  BY AtCall DEF sqlsrv_prepare, Call
<1>2. /\ UNCHANGED <<conn, ss, of, wrong>> /\ conn = "open" /\ res[s] = "none" /\ stack' = << >>
      /\ stmt' = [stmt EXCEPT ![s] = [mem |-> "alloc", conn |-> TRUE, active |-> NoStream]]
      /\ res' = [res EXCEPT ![s] = "live"] /\ refs' = [refs EXCEPT ![s] = 1]
      /\ table' = table \cup {s} /\ script' = script \cup {s}
  BY DEF sqlsrv_prepare, Call
<1>3. /\ stmt'[s] = [mem |-> "alloc", conn |-> TRUE, active |-> NoStream]
      /\ res'[s] = "live" /\ refs'[s] = 1
      /\ \A t \in Stmts \ {s} : stmt'[t] = stmt[t] /\ res'[t] = res[t] /\ refs'[t] = refs[t]
  BY <1>2 DEF IInv, TypeOK
<1>4. stmt[s].active = NoStream
  <2>1. refs[s] = 0 /\ refs[s] = Count(s)
    BY <1>1, <1>2 DEF AtRest
  <2>. QED BY <2>1 DEF Count
<1>5. \A t \in Stmts : AtRest(t)'
  <2>1. ASSUME NEW t \in Stmts, t # s PROVE AtRest(t)'
    BY <1>1, <1>2, <1>3, <2>1 DEF AtRest, Count, Allocated
  <2>2. AtRest(s)'
    BY <1>2, <1>3 DEF AtRest, Count, Allocated
  <2>. QED BY <2>1, <2>2
<1>6. StreamsMatch'
  <2>1. ASSUME NEW y \in Streams, ss'[y] = "open"
        PROVE  of'[y] \in Stmts /\ stmt'[of'[y]].active = y
    BY <1>2, <1>3, <1>4, <2>1, ResourcesAssumption DEF IInv, StreamsMatch
  <2>2. ASSUME NEW t \in Stmts, stmt'[t].active # NoStream
        PROVE  Allocated(t)' /\ ss'[stmt'[t].active] = "open" /\ of'[stmt'[t].active] = t
    BY <1>2, <1>3, <2>2 DEF IInv, StreamsMatch, Allocated
  <2>. QED BY <2>1, <2>2 DEF StreamsMatch
<1>7. TypeOK'
  <2>1. stmt' \in [Stmts -> [mem : {"none", "alloc", "freed"}, conn : BOOLEAN,
                             active : Streams \cup {NoStream}]]
    BY <1>2 DEF IInv, TypeOK
  <2>2. /\ res' \in [Stmts -> {"none", "live", "closed", "freed"}]
        /\ refs' \in [Stmts -> 0 .. 2]
    BY <1>2 DEF IInv, TypeOK
  <2>. QED BY <1>2, <2>1, <2>2, EmptySeq DEF IInv, TypeOK
<1>8. Tabled(stack, {})'
  <2>1. \A t \in table' : stmt'[t].conn
    BY <1>1, <1>2, <1>3 DEF Tabled
  <2>2. table' = { t \in Stmts : Live(t)' }
    BY <1>1, <1>2, <1>3 DEF Tabled, Live
  <2>. QED BY <1>2, <2>1, <2>2 DEF Tabled
<1>. QED BY <1>2, <1>5, <1>6, <1>7, <1>8 DEF IInv, Idle

(* The other calls leave all but the variables of the script alone.        *)
LEMMA CallKeepsRest ==
  ASSUME IInv, stack = << >>,
         UNCHANGED <<conn, table, stmt, res, refs, ss, of, wrong>>,
         script' \subseteq script
  PROVE  /\ StreamsMatch' /\ ~wrong' /\ Tabled(<< >>, {})'
         /\ stack' \in Seq(Frames) => TypeOK'
         /\ \A t \in Stmts : (t \in script' <=> t \in script) => AtRest(t)'
<1>1. (\A t \in Stmts : AtRest(t)) /\ Tabled(<< >>, {})
  BY AtCall
<1>2. StreamsMatch' /\ ~wrong' /\ Tabled(<< >>, {})'
  BY <1>1 DEF IInv, StreamsMatch, Allocated, Tabled, Live
<1>3. ASSUME stack' \in Seq(Frames) PROVE TypeOK'
  BY <1>3 DEF IInv, TypeOK
<1>4. ASSUME NEW t \in Stmts, t \in script' <=> t \in script PROVE AtRest(t)'
  BY <1>1, <1>4 DEF AtRest, Allocated, Count
<1>. QED BY <1>2, <1>3, <1>4

LEMMA UseKeeps ==
  ASSUME IInv, NEW s \in Stmts, UseStatement(s)
  PROVE  IInv'
<1>1. /\ stack = << >> /\ stack' = << F("active", s) >> /\ res[s] = "live"
      /\ UNCHANGED <<conn, table, stmt, res, refs, ss, of, script, wrong>>
  BY DEF UseStatement, Call
<1>2. /\ StreamsMatch' /\ ~wrong' /\ Tabled(<< >>, {})' /\ (\A t \in Stmts : AtRest(t)')
      /\ stack' \in Seq(Frames) => TypeOK'
  BY <1>1, CallKeepsRest
<1>3. stack' = Push(F("active", s), << >>) /\ stack' \in Seq(Frames) /\ << >> \in Bases
  BY <1>1, FramesAre, OneIs DEF Bases
<1>4. Using(s, << >>)'
  BY <1>1, <1>2, <1>3 DEF Using, Live
<1>. QED BY <1>2, <1>3, <1>4 DEF IInv, Working

LEMMA GetFieldKeeps ==
  ASSUME IInv, NEW s \in Stmts, NEW x \in Streams, sqlsrv_get_field(s, x)
  PROVE  IInv'
<1>1. /\ stack = << >> /\ stack' = << F("active", s), OpenFrame(s, x) >>
      /\ res[s] = "live" /\ s \in script /\ ss[x] = "none"
      /\ UNCHANGED <<conn, table, stmt, res, refs, ss, of, script, wrong>>
  BY DEF sqlsrv_get_field, Call, OpenFrame
<1>2. /\ StreamsMatch' /\ ~wrong' /\ Tabled(<< >>, {})' /\ (\A t \in Stmts : AtRest(t)')
      /\ stack' \in Seq(Frames) => TypeOK'
  BY <1>1, CallKeepsRest
<1>. DEFINE base == << OpenFrame(s, x) >>
<1>3. base \in Bases /\ base \in Seq(Frames) /\ base = Push(OpenFrame(s, x), << >>)
  BY FramesAre, OneIs DEF Bases
<1>4. stack' = Push(F("active", s), base) /\ stack' \in Seq(Frames)
  <2>1. F("active", s) \in Frames /\ OpenFrame(s, x) \in Frames /\ << >> \in Seq(Frames)
    BY FramesAre, EmptySeq
  <2>5. << F("active", s), OpenFrame(s, x) >> \o << >>
          = Push(F("active", s), Push(OpenFrame(s, x), << >>))
    BY <2>1, ThenIs
  <2>6. << F("active", s), OpenFrame(s, x) >> \o << >> = Push(F("active", s), base)
    BY <1>3, <2>5, Zenon
  <2>7. Push(F("active", s), base) \in Seq(Frames)
    BY <1>3, <2>1, PushIs
  <2>3. << F("active", s), OpenFrame(s, x) >> \in Seq(Frames)
    BY <2>1
  <2>4. << F("active", s), OpenFrame(s, x) >> \o << >> = << F("active", s), OpenFrame(s, x) >>
    BY <2>3, ConcatEmptySeq
  <2>. QED BY <1>1, <2>4, <2>6, <2>7, Zenon
<1>5. Opening(base, s)'
  <2>1. \E y \in Streams : ss'[y] = "none" /\ base = << OpenFrame(s, y) >>
    BY <1>1
  <2>2. table' = { t \in Stmts : Live(t)' } /\ \A t \in table' : stmt'[t].conn
    BY <1>2 DEF Tabled
  <2>. QED BY <1>1, <2>1, <2>2 DEF Opening, Live
<1>6. Using(s, base)'
  BY <1>1, <1>2, <1>4, <1>5 DEF Using, Live
<1>. QED BY <1>2, <1>3, <1>4, <1>6 DEF IInv, Working

LEMMA FcloseKeeps ==
  ASSUME IInv, NEW x \in Streams, fclose(x)
  PROVE  IInv'
<1>1. /\ stack = << >> /\ stack' = << StreamFrame(x) >> /\ ss[x] = "open"
      /\ UNCHANGED <<conn, table, stmt, res, refs, ss, of, script, wrong>>
  BY DEF fclose, Call, StreamFrame
<1>2. /\ StreamsMatch' /\ ~wrong' /\ Tabled(<< >>, {})' /\ (\A t \in Stmts : AtRest(t)')
      /\ stack' \in Seq(Frames) => TypeOK'
  BY <1>1, CallKeepsRest
<1>3. stack' = Push(StreamFrame(x), << >>) /\ stack' \in Seq(Frames) /\ << >> \in Bases
  BY <1>1, FramesAre, OneIs DEF Bases
<1>4. PICK s \in Stmts : s = of[x] /\ stmt[s].active = x /\ x # NoStream
  BY <1>1, ResourcesAssumption DEF IInv, StreamsMatch
<1>5. Live(s)
  BY <1>1, <1>4, AtCall DEF IInv, StreamsMatch, AtRest, Allocated, Live
<1>6. Using(s, << >>)'
  BY <1>1, <1>2, <1>3, <1>4, <1>5 DEF Using, Live
<1>. QED BY <1>2, <1>3, <1>6 DEF IInv, Working

LEMMA FreeStmtKeeps ==
  ASSUME IInv, NEW s \in Stmts, sqlsrv_free_stmt(s)
  PROVE  IInv'
<1>1. /\ stack = << >> /\ stack' = << F("close", s) >> /\ res[s] = "live"
      /\ UNCHANGED <<conn, table, stmt, res, refs, ss, of, script, wrong>>
  BY DEF sqlsrv_free_stmt, Call
<1>2. /\ StreamsMatch' /\ ~wrong' /\ Tabled(<< >>, {})' /\ (\A t \in Stmts : AtRest(t)')
      /\ stack' \in Seq(Frames) => TypeOK'
  BY <1>1, CallKeepsRest
<1>3. stack' = Push(F("close", s), << >>) /\ stack' \in Seq(Frames) /\ << >> \in Bases
  BY <1>1, FramesAre, OneIs DEF Bases
<1>4. (Allocated(s) /\ Live(s) /\ refs[s] = Count(s) /\ refs[s] > 0 /\ conn = "open")'
  BY <1>1, <1>2 DEF AtRest, Live
<1>5. Closed(s, << >>)'
  BY <1>2, <1>3, <1>4 DEF Closed, Going
<1>. QED BY <1>2, <1>3, <1>5 DEF IInv, Working

(* The connection is closed, by name or because its variable goes.         *)
LEMMA ConnGoes ==
  ASSUME IInv, stack = << >>, stack' = << [op |-> "stmts", left |-> table] >>,
         UNCHANGED <<conn, table, stmt, res, refs, ss, of, wrong>>,
         script' = script \ {Conn}
  PROVE  IInv'
<1>1. \A t \in Stmts : t \in script' <=> t \in script
  BY ResourcesAssumption
<1>2. /\ StreamsMatch' /\ ~wrong' /\ Tabled(<< >>, {})' /\ (\A t \in Stmts : AtRest(t)')
      /\ stack' \in Seq(Frames) => TypeOK'
  BY <1>1, CallKeepsRest
<1>3. StmtsFrame(table) \in Frames
  BY FramesAre DEF IInv, TypeOK
<1>4. stack' = << StmtsFrame(table) >> /\ stack' \in Seq(Frames)
  BY <1>3, OneIs DEF StmtsFrame
<1>5. table = { s \in Stmts : Live(s)' }
  BY <1>2 DEF Tabled
<1>. QED BY <1>2, <1>4, <1>5 DEF IInv, Idle

LEMMA UnsetKeeps ==
  ASSUME IInv, NEW v \in {Conn} \cup Stmts \cup Streams, Unset(v)
  PROVE  IInv'
<1>1. /\ stack = << >> /\ v \in script /\ script' = script \ {v}
      /\ UNCHANGED <<conn, table, stmt, res, refs, ss, of, wrong>>
  BY DEF Unset, Call
<1>2. /\ StreamsMatch' /\ ~wrong' /\ Tabled(<< >>, {})'
      /\ stack' \in Seq(Frames) => TypeOK'
      /\ \A t \in Stmts \ {v} : AtRest(t)'
  BY <1>1, CallKeepsRest
<1>3. ASSUME v \notin Stmts, stack' = << >> PROVE IInv'
  BY <1>2, <1>3, EmptySeq DEF IInv, Idle
<1>4. CASE v = Conn
  <2>1. stack' = IF conn = "open" THEN << [op |-> "stmts", left |-> table] >> ELSE << >>
    BY <1>4, ResourcesAssumption DEF Unset, Call
  <2>2. v \notin Stmts
    BY <1>4, ResourcesAssumption
  <2>3. CASE conn = "open"
    BY <1>1, <1>4, <2>1, <2>3, ConnGoes
  <2>4. CASE conn # "open"
    BY <1>3, <2>1, <2>2, <2>4
  <2>. QED BY <2>3, <2>4
<1>5. CASE v \in Streams
  <2>1. v # Conn /\ v \notin Stmts
    BY <1>5, ResourcesAssumption
  <2>2. stack' = << >>
    BY <1>5, <2>1 DEF Unset, Call
  <2>. QED BY <1>3, <2>1, <2>2
<1>6. CASE v \in Stmts
  <2>1. stack' = << F("delete", v) >>
    BY <1>6, ResourcesAssumption DEF Unset, Call
  <2>2. stack' = Push(F("delete", v), << >>) /\ stack' \in Seq(Frames) /\ << >> \in Bases
    BY <1>6, <2>1, FramesAre, OneIs DEF Bases
  <2>3. AtRest(v)
    BY <1>1, <1>6, AtCall
  <2>4. refs[v] > 0 /\ refs'[v] = Count(v)' + 1
    BY <1>1, <1>6, <2>3 DEF AtRest, Count
  <2>5. LettingGo(v, << >>)'
    BY <1>1, <1>2, <2>2, <2>3, <2>4 DEF LettingGo, AtRest, Live, Allocated
  <2>. QED BY <1>2, <1>6, <2>2, <2>5 DEF IInv, Working
<1>. QED BY <1>4, <1>5, <1>6

LEMMA RequestEndsKeeps ==
  ASSUME IInv, RequestEnds
  PROVE  IInv'
<1>1. /\ stack = << >> /\ stack' = << [op |-> "shutdown"] >>
      /\ UNCHANGED <<conn, table, stmt, res, refs, ss, of, script, wrong>>
  BY DEF RequestEnds, Call
<1>2. /\ StreamsMatch' /\ ~wrong' /\ Tabled(<< >>, {})' /\ (\A t \in Stmts : AtRest(t)')
      /\ stack' \in Seq(Frames) => TypeOK'
  BY <1>1, CallKeepsRest
<1>3. stack' \in Seq(Frames)
  BY <1>1, FramesAre, OneIs
<1>4. Tabled(stack, {})'
  BY <1>1, <1>2 DEF Tabled
<1>. QED BY <1>2, <1>3, <1>4 DEF IInv, Idle
-----------------------------------------------------------------------------
LEMMA InitIInv == Init => IInv
<1>. SUFFICES ASSUME Init PROVE IInv
  OBVIOUS
<1>1. TypeOK
  <2>1. stmt \in [Stmts -> [mem : {"none", "alloc", "freed"}, conn : BOOLEAN,
                           active : Streams \cup {NoStream}]]
    BY DEF Init
  <2>2. /\ res \in [Stmts -> {"none", "live", "closed", "freed"}]
        /\ refs \in [Stmts -> 0 .. 2]
    BY DEF Init
  <2>3. ss \in [Streams -> {"none", "open", "freed"}] /\ of \in [Streams -> Nat]
    BY DEF Init
  <2>4. stack \in Seq(Frames)
    BY EmptySeq DEF Init
  <2>. QED BY <2>1, <2>2, <2>3, <2>4 DEF Init, TypeOK
<1>2. StreamsMatch /\ ~wrong
  BY DEF Init, StreamsMatch
<1>3. ASSUME NEW s \in Stmts PROVE AtRest(s)
  <2>1. s \notin script /\ stmt[s] = [mem |-> "none", conn |-> FALSE, active |-> NoStream]
        /\ res[s] = "none" /\ refs[s] = 0
    BY ResourcesAssumption DEF Init
  <2>2. Count(s) = 0
    BY <2>1 DEF Count
  <2>. QED BY <2>1, <2>2 DEF AtRest
<1>4. Tabled(stack, {})
  BY DEF Init, Tabled, Live
<1>. QED BY <1>1, <1>2, <1>3, <1>4 DEF IInv, Idle

LEMMA StepIInv == IInv /\ [Next]_vars => IInv'
<1>. SUFFICES ASSUME IInv, [Next]_vars PROVE IInv'
  OBVIOUS
<1>1. CASE UNCHANGED vars
  <2>1. UNCHANGED <<conn, table, stmt, res, refs, ss, of, script, stack, wrong>>
    BY <1>1 DEF vars
  <2>2. TypeOK' /\ StreamsMatch' /\ ~wrong'
    BY <2>1 DEF IInv, TypeOK, StreamsMatch, Allocated
  <2>3. \A t \in Stmts : AtRest(t) => AtRest(t)'
    BY <2>1 DEF AtRest, Allocated, Count
  <2>4. CASE Idle
    BY <2>1, <2>2, <2>3, <2>4 DEF IInv, Idle, Tabled, Opening, Live
  <2>5. CASE ~Idle
    <3>1. PICK s \in Stmts, base \in Bases :
            Working(s, base) /\ \A t \in Stmts \ {s} : AtRest(t)
      BY <2>5 DEF IInv
    <3>2. ASSUME NEW e, Tabled(base, e) PROVE Tabled(base, e)'
      BY <2>1, <3>2 DEF Tabled, Live
    <3>3. ASSUME NEW e, Going(base, s, e) PROVE Going(base, s, e)'
      BY <2>1, <3>2, <3>3 DEF Going, Closing, Live
    <3>8. ASSUME Opening(base, s) PROVE Opening(base, s)'
      BY <2>1, <3>8 DEF Opening, Live
    <3>4. ASSUME Using(s, base) PROVE Using(s, base)'
      BY <2>1, <2>3, <3>2, <3>4, <3>8 DEF Using, Live, Push, F, StreamFrame
    <3>5. ASSUME LettingGo(s, base) PROVE LettingGo(s, base)'
      BY <2>1, <3>2, <3>5, <3>8 DEF LettingGo, Live, Allocated, Count, Push, F
    <3>6. ASSUME Dropped(s, base) PROVE Dropped(s, base)'
      BY <2>1, <3>2, <3>6 DEF Dropped, Allocated, Count, Push, F
    <3>7. ASSUME Closed(s, base) PROVE Closed(s, base)'
      BY <2>1, <3>3, <3>7 DEF Closed, Live, Allocated, Count, Push, F, StreamFrame
    <3>. QED BY <2>2, <2>3, <3>1, <3>4, <3>5, <3>6, <3>7 DEF IInv, Working
  <2>. QED BY <2>4, <2>5
<1>2. CASE Runs
  BY <1>2, ActiveKeeps, OpenKeeps, StreamCloseKeeps, DeleteKeeps, ReleaseKeeps, CloseKeeps,
     DtorKeeps, DestroyKeeps, CloseStmtsKeeps, DisconnectKeeps, ShutdownKeeps DEF Runs
<1>3. ASSUME NEW s \in Stmts,
             \/ sqlsrv_prepare(s) \/ UseStatement(s) \/ sqlsrv_free_stmt(s)
             \/ \E x \in Streams : sqlsrv_get_field(s, x)
      PROVE  IInv'
  BY <1>3, PrepareKeeps, UseKeeps, FreeStmtKeeps, GetFieldKeeps
<1>4. ASSUME NEW x \in Streams, fclose(x) PROVE IInv'
  BY <1>4, FcloseKeeps
<1>5. ASSUME NEW v \in {Conn} \cup Stmts \cup Streams, Unset(v) PROVE IInv'
  BY <1>5, UnsetKeeps
<1>6. CASE sqlsrv_close
  BY <1>6, ConnGoes DEF sqlsrv_close, Call
<1>7. CASE RequestEnds
  BY <1>7, RequestEndsKeeps
<1>. QED BY <1>1, <1>2, <1>3, <1>4, <1>5, <1>6, <1>7 DEF Next

LEMMA Invariance == Spec => []IInv
BY InitIInv, StepIInv, PTL DEF Spec

(* Whatever the script lets go of, in whatever order, and however far the  *)
(* destructors have come: a statement, a resource or a stream that is      *)
(* used is there, is freed once, and ODBC disconnects without statements.  *)
THEOREM NothingIsUsedAfterItsEnd == Spec => []NothingGoneUsed
<1>1. IInv => NothingGoneUsed
  BY DEF IInv, NothingGoneUsed
<1>. QED BY <1>1, Invariance, PTL

(* Between two calls the table of the connection has exactly the           *)
(* statements there are, and a statement that neither the script nor an    *)
(* open stream holds is gone with its resource.                            *)
THEOREM EveryStatementIsAccountedFor == Spec => []StatementsAccountedFor
<1>1. IInv => StatementsAccountedFor
  <2>. SUFFICES ASSUME IInv PROVE TableExact /\ StatementFreed
    BY DEF StatementsAccountedFor, IInv
  <2>. SUFFICES ASSUME stack = << >>
                PROVE  /\ table = { s \in Stmts : Allocated(s) /\ stmt[s].conn }
                       /\ \A s \in table : res[s] = "live"
                       /\ \A s \in Stmts \ script :
                            /\ Allocated(s) => \E x \in Streams : ss[x] = "open" /\ of[x] = s
                            /\ stmt[s].mem = "freed" => res[s] = "freed"
    BY DEF TableExact, StatementFreed
  <2>1. (\A s \in Stmts : AtRest(s)) /\ Tabled(<< >>, {})
    BY AtCall
  <2>2. \A s \in Stmts : Live(s) <=> Allocated(s)
    BY <2>1 DEF AtRest, Live, Allocated
  <2>3. /\ table = { s \in Stmts : Allocated(s) /\ stmt[s].conn }
        /\ \A s \in table : res[s] = "live"
    BY <2>1, <2>2 DEF Tabled, Live
  <2>4. ASSUME NEW s \in Stmts \ script, Allocated(s)
        PROVE  \E x \in Streams : ss[x] = "open" /\ of[x] = s
    <3>1. stmt[s].active # NoStream
      BY <2>1, <2>4 DEF AtRest, Allocated, Count
    <3>. QED BY <3>1 DEF IInv, StreamsMatch, TypeOK
  <2>5. ASSUME NEW s \in Stmts \ script, stmt[s].mem = "freed"
        PROVE  res[s] = "freed"
    <3>1. stmt[s].active = NoStream
      BY <2>5 DEF IInv, StreamsMatch, Allocated
    <3>. QED BY <2>1, <2>5, <3>1 DEF AtRest, Allocated, Count
  <2>. QED BY <2>3, <2>4, <2>5
<1>. QED BY <1>1, Invariance, PTL
=============================================================================
