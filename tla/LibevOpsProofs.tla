--------------------------- MODULE LibevOpsProofs ---------------------------
(***************************************************************************)
(* What LibevOps promises, for every number of fibers, every program and   *)
(* every size of a buffer.                                                 *)
(*                                                                         *)
(* A step of a fiber changes its own records only, the fork excepted.  The *)
(* invariant is therefore a predicate on the four records of one fiber     *)
(* (FiberInv), what ties a fiber to the running of the thread (Runs), and  *)
(* what ties the thread to its poll (PollInv).                             *)
(***************************************************************************)
EXTENDS LibevOps, FiniteSetTheorems, TLAPS

Pcs == {"app", "call", "wait", "snooze", "raise", "dead"}
Idle == {"app", "raise", "dead"}
Stages == {"none", "prefix", "in", "cprefix", "out", "cpostfix", "postfix", "end"}
AcceptOps == {"accept", "accept_loop"}
PairOps == {"splice", "splice_to_eof", "tee", "splice_chunks"}
CopyOps == {"copy", "copy_to_eof"}
SrcOps == ReadOps \cup AcceptOps \cup {"wait_io", "waitpid"}
DestOps == WriteOps \cup {"connect"}

Refs == -1..2
Amounts == 0..BufLen
Ins == 0..MaxIn
Outs == 0..MaxOut
Opened == 0..2
Rests == {<<>>, <<"splice">>, <<"invalid">>}

States ==
    [op : OpNames \cup {"none", "invalid"}, pc : Pcs, step : Nat, stage : Stages,
     left : Amounts, total : Ins, held : Amounts, rest : Rests, block : BOOLEAN,
     open : Opened]

Watchers ==
    [on : SUBSET {"io", "r", "w", "timer", "child", "async"},
     aim : {"none", "src", "dest", "both"}, ref : Refs, timer : {"off", "on", "fired"}]

Descriptors ==
    [src : Ins, eof : BOOLEAN, in : Ins, room : Outs, out : Outs, pipe : Amounts, text : Nat]

\* A fiber that is in no operation has nothing of one.
Shape(s, w, i) ==
    /\ s.pc \in Idle <=> s.op = "none"
    /\ s.op = "none" =>
          /\ s.stage = "none" /\ s.left = 0 /\ s.total = 0 /\ s.held = 0 /\ s.rest = <<>>
          /\ w.aim = "none" /\ i = NoIo
    /\ s.op # "splice_chunks" => s.stage = "none" /\ i.pipe = 0 /\ i.text = 0
    /\ s.op = "splice_chunks" /\ s.stage \notin {"cprefix", "out"} => s.left = 0

\* What a call has returned is held during the snooze only.
Accounts(s, i) ==
    /\ i.room + i.out <= MaxOut
    /\ s.pc # "snooze" \/ s.op \notin ReadOps \cup AcceptOps => s.held = 0
    /\ s.op \in AcceptOps /\ s.pc = "snooze" => s.held = 1
    /\ s.op \in ReadOps \cup AcceptOps => i.in = i.src + s.total + s.held
    /\ s.op \in WriteOps => i.out = BufLen - s.left
    /\ s.op \in SpliceOps => i.in = i.src + s.total /\ i.out = s.total - s.left + i.text
    /\ s.op = "tee" => i.in = i.src
    /\ s.op \in {"splice", "splice_to_eof"} => s.left = 0
    /\ s.op = "splice_chunks" => i.pipe = s.left
    /\ s.op \in {"read", "recvmsg"} => s.total = 0
    /\ s.op \in {"read", "read_to_eof", "recvmsg"} => s.total + s.held <= BufLen
    /\ s.op \notin ReadOps \cup AcceptOps \cup SpliceOps \cup {"timer_loop"} => s.total = 0

\* The watchers of a wait are those of the operation, until one that calls
\* back once has done so.
Watches(s, w, v) ==
    /\ s.pc # "wait" => w.on = {}
    /\ s.op \in SrcOps => w.aim \in {"none", "src"}
    /\ s.op \in DestOps => w.aim \in {"none", "dest"}
    /\ s.op \in PairOps => w.aim \in {"none", "both"}
    /\ s.op \notin SrcOps \cup DestOps \cup PairOps \cup CopyOps => w.aim = "none"
    /\ s.op \in CopyOps => w.aim \in {"none", "src", "dest"}
    /\ s.pc = "wait" /\ v = NoValue =>
          /\ s.op \in SrcOps \cup DestOps \cup CopyOps => w.on = {"io"} /\ w.aim # "none"
          /\ s.op \in PairOps => w.ref >= 0 /\ w.aim = "both"
          /\ s.op \in PairOps /\ s.op # "splice_chunks" => w.on = {"r", "w"}
          /\ s.op = "splice_chunks" =>
                w.on = IF s.stage \in {"in", "out"} THEN {"r", "w"} ELSE {"w"}
          /\ s.op = "waitpid_child" => w.on = {"child"}
          /\ w.on # {}

\* Descriptors are open only where every way out closes them.
Opens(s) ==
    s.open # 0 => \/ s.op = "waitpid" /\ s.pc = "wait"
                  \/ s.op \in AcceptOps /\ s.pc = "snooze"
                  \/ s.op = "splice_chunks"

Times(s, w, v) ==
    /\ w.timer # "off" <=> s.block
    /\ v = "timeout" => s.block
    /\ w.timer = "fired" => s.pc = "raise" \/ IS_EXCEPTION(v)

Typed(s, w, i, v) ==
    /\ s \in States /\ w \in Watchers /\ i \in Descriptors /\ v \in Values \cup {NoValue}

FiberInv(s, w, i, v) ==
    /\ Typed(s, w, i, v) /\ Shape(s, w, i) /\ Accounts(s, i)
    /\ Watches(s, w, v) /\ Opens(s) /\ Times(s, w, v)

\* The running fiber is not scheduled; one that is in the middle of something
\* and not switched out is the running one.
RunInv(f, s, v, c) ==
    /\ c = f => v = NoValue /\ s.pc \in {"app", "call", "raise"}
    /\ s.pc \in {"call", "raise"} \/ (s.pc = "app" /\ s.block) => c = f
    /\ s.pc = "dead" => ~s.block

PollInv == (polling => cur = NoFiber) /\ NoStuckPoll

Functions ==
    /\ fs = [f \in Fibers |-> fs[f]] /\ ws = [f \in Fibers |-> ws[f]]
    /\ io = [f \in Fibers |-> io[f]] /\ sched = [f \in Fibers |-> sched[f]]
    /\ cur \in Fibers \cup {NoFiber}
    /\ {polling, woken, pipe} \subseteq BOOLEAN

BackendInv ==
    /\ Functions /\ PollInv
    /\ \A f \in Fibers :
          FiberInv(fs[f], ws[f], io[f], sched[f]) /\ RunInv(f, fs[f], sched[f], cur)

----------------------------------------------------------------------------
(* Facts about single records *)

LEMMA Sizes == BufLen \in Nat \ {0} /\ MaxIn \in Nat \ {0} /\ MaxOut \in Nat \ {0}
  BY LibevAssumption DEF LibevAssumption

LEMMA Zeros ==
  0 \in Refs /\ 0 \in Amounts /\ BufLen \in Amounts /\ 0 \in Ins /\ 0 \in Outs /\ 0 \in Opened
  BY Sizes DEF Refs, Amounts, Ins, Outs, Opened

LEMMA NoRest == <<>> \in Rests /\ <<"splice">> \in Rests /\ <<"invalid">> \in Rests
  BY DEF Rests

\* The smaller of two numbers, and of three.
LEMMA SetMinOfTwo ==
  ASSUME NEW a \in Nat, NEW b \in Nat
  PROVE  SetMin({a, b}) \in {a, b} /\ SetMin({a, b}) <= a /\ SetMin({a, b}) <= b
  <1>1. \E n \in {a, b} : \A m \in {a, b} : n <= m
    OBVIOUS
  <1>. QED
    BY <1>1 DEF SetMin

LEMMA SetMinOfThree ==
  ASSUME NEW a \in Nat, NEW b \in Nat, NEW c \in Nat
  PROVE  /\ SetMin({a, b, c}) \in {a, b, c}
         /\ SetMin({a, b, c}) <= a /\ SetMin({a, b, c}) <= b /\ SetMin({a, b, c}) <= c
  <1>1. \E n \in {a, b, c} : \A m \in {a, b, c} : n <= m
    OBVIOUS
  <1>. QED
    BY <1>1 DEF SetMin

\* A fiber that has left an operation by a raise: what its records must be.
Raised(s) == [Left(s) EXCEPT !.pc = IF s.block THEN "raise" ELSE "app"]
OutOf(w) == [w EXCEPT !.aim = "none", !.ref = 0]

Leavable(s, w) ==
    /\ s \in States /\ w \in Watchers /\ w.on = {} /\ s.open = 0
    /\ w.timer # "off" <=> s.block

LEMMA NoIoTyped == NoIo \in Descriptors
  BY Zeros DEF NoIo, Descriptors

LEMMA NoOpTyped == NoOp \in States
  BY Zeros, NoRest DEF NoOp, States, Pcs, Stages

LEMMA OutOfTyped ==
  ASSUME NEW w \in Watchers
  PROVE  /\ OutOf(w) \in Watchers /\ OutOf(w).aim = "none"
         /\ OutOf(w).on = w.on /\ OutOf(w).timer = w.timer
  BY Zeros DEF OutOf, Watchers

LEMMA LeftTyped ==
  ASSUME NEW s \in States
  PROVE  /\ Left(s) \in States /\ Left(s).op = "none" /\ Left(s).pc = "app"
         /\ Left(s).stage = "none" /\ Left(s).left = 0 /\ Left(s).total = 0
         /\ Left(s).held = 0 /\ Left(s).rest = <<>>
         /\ Left(s).block = s.block /\ Left(s).open = s.open
  BY Zeros, NoRest DEF Left, NoOp, States, Pcs, Stages

LEMMA IdleInv ==
  ASSUME NEW s \in States, NEW w \in Watchers, s.op = "none", s.pc \in Idle,
         s.stage = "none", s.left = 0, s.total = 0, s.held = 0, s.rest = <<>>, s.open = 0,
         w.aim = "none", w.on = {}, w.timer # "off" <=> s.block,
         w.timer = "fired" => s.pc = "raise"
  PROVE  FiberInv(s, w, NoIo, NoValue)
  <1>1. Typed(s, w, NoIo, NoValue)
    BY NoIoTyped DEF Typed
  <1>2. Shape(s, w, NoIo)
    BY DEF Shape, NoIo
  <1>3. Accounts(s, NoIo)
    BY Sizes DEF Accounts, NoIo, ReadOps, AcceptOps, WriteOps, SpliceOps
  <1>4. Watches(s, w, NoValue)
    BY DEF Watches, Idle, SrcOps, DestOps, PairOps, CopyOps, ReadOps, AcceptOps, WriteOps
  <1>5. Opens(s) /\ Times(s, w, NoValue)
    BY DEF Opens, Times, NoValue
  <1>. QED
    BY <1>1, <1>2, <1>3, <1>4, <1>5 DEF FiberInv

LEMMA RaisedInv ==
  ASSUME NEW s, NEW w, Leavable(s, w)
  PROVE  FiberInv(Raised(s), OutOf(w), NoIo, NoValue) /\ Raised(s).pc \in {"app", "raise"}
  <1>1. /\ s \in States /\ w \in Watchers /\ w.on = {} /\ s.open = 0
        /\ w.timer # "off" <=> s.block
    BY DEF Leavable
  <1>2. /\ Raised(s) \in States /\ Raised(s).op = "none"
        /\ Raised(s).pc = (IF s.block THEN "raise" ELSE "app")
        /\ Raised(s).stage = "none" /\ Raised(s).left = 0 /\ Raised(s).total = 0
        /\ Raised(s).held = 0 /\ Raised(s).rest = <<>> /\ Raised(s).open = 0
        /\ Raised(s).block = s.block
    BY <1>1, LeftTyped DEF Raised, States, Pcs
  <1>3. w.timer = "fired" => Raised(s).pc = "raise"
    BY <1>1, <1>2
  <1>4. Raised(s).pc \in Idle
    BY <1>2 DEF Idle
  <1>. QED
    BY <1>1, <1>2, <1>3, <1>4, OutOfTyped, IdleInv

\* A fiber at the beginning of an operation.
LEMMA EnteredInv ==
  ASSUME NEW s \in States, NEW w \in Watchers, NEW o \in OpNames \cup {"invalid"},
         NEW r \in Rests,
         s.stage = "none", s.left = 0, s.total = 0, s.held = 0, s.open = 0,
         w.aim = "none", w.on = {}, w.timer # "off" <=> s.block, w.timer # "fired"
  PROVE  /\ FiberInv([Entered(s, o) EXCEPT !.rest = r], w, NoIo, NoValue)
         /\ [Entered(s, o) EXCEPT !.rest = r].pc = "call"
         /\ s.rest = r => [Entered(s, o) EXCEPT !.rest = r] = Entered(s, o)
  <1>. DEFINE t == [Entered(s, o) EXCEPT !.rest = r]
              l == IF o \in WriteOps THEN BufLen ELSE 0
  <1>1. l \in Amounts
    BY Zeros
  <1>. HIDE DEF l
  <1>2. t = [s EXCEPT !.op = o, !.pc = "call", !.left = l, !.rest = r]
    BY DEF Entered, l, States
  <1>3. /\ t \in States /\ t.op = o /\ t.pc = "call" /\ t.left = l /\ t.stage = "none"
        /\ t.total = 0 /\ t.held = 0 /\ t.open = 0 /\ t.block = s.block
    BY <1>1, <1>2 DEF States, Pcs
  <1>4. s.rest = r => t = Entered(s, o)
    BY DEF Entered, States
  <1>. HIDE DEF t
  <1>5. Typed(t, w, NoIo, NoValue)
    BY <1>3, NoIoTyped DEF Typed
  <1>6. o # "none"
    BY DEF OpNames, ReadOps, WriteOps, SpliceOps
  <1>7. Shape(t, w, NoIo)
    BY <1>3, <1>6 DEF Shape, NoIo, Idle, l, WriteOps
  <1>8. Accounts(t, NoIo)
    BY <1>3, Sizes DEF Accounts, NoIo, ReadOps, AcceptOps, WriteOps, SpliceOps, l
  <1>9. Watches(t, w, NoValue)
    BY <1>3 DEF Watches, SrcOps, DestOps, PairOps, CopyOps
  <1>10. Opens(t) /\ Times(t, w, NoValue)
    BY <1>3 DEF Opens, Times, NoValue
  <1>. QED
    BY <1>3, <1>4, <1>5, <1>7, <1>8, <1>9, <1>10 DEF FiberInv, t

LEMMA EndedInv ==
  ASSUME NEW s, NEW w, Leavable(s, w), w.timer # "fired"
  PROVE  FiberInv(Ended(s), OutOf(w), NoIo, NoValue) /\ Ended(s).pc \in {"app", "call"}
  <1>1. /\ s \in States /\ w \in Watchers /\ w.on = {} /\ s.open = 0
        /\ w.timer # "off" <=> s.block
    BY DEF Leavable
  <1>2. s.rest \in {<<>>, <<"splice">>, <<"invalid">>}
    BY <1>1 DEF States, Rests
  <1>3. CASE s.rest = <<>>
    <2>1. Ended(s) = Left(s)
      BY <1>3 DEF Ended
    <2>2. "app" \in Idle
      BY DEF Idle
    <2>. QED
      BY <1>1, <2>1, <2>2, LeftTyped, OutOfTyped, IdleInv
  <1>4. CASE s.rest # <<>>
    <2>1. Head(s.rest) \in {"splice", "invalid"} /\ Tail(s.rest) = <<>>
      <3>1. CASE s.rest = <<"splice">>
        BY <3>1
      <3>2. CASE s.rest = <<"invalid">>
        BY <3>2
      <3>. QED
        BY <1>2, <1>4, <3>1, <3>2
    <2>2. Head(s.rest) \in OpNames \cup {"invalid"}
      BY <2>1 DEF OpNames, SpliceOps
    <2>3. Ended(s) = [Entered(Left(s), Head(s.rest)) EXCEPT !.rest = <<>>]
      BY <1>4, <2>1 DEF Ended
    <2>4. /\ OutOf(w) \in Watchers /\ OutOf(w).aim = "none" /\ OutOf(w).on = {}
          /\ OutOf(w).timer = w.timer
      BY <1>1, OutOfTyped
    <2>5. FiberInv(Ended(s), OutOf(w), NoIo, NoValue) /\ Ended(s).pc = "call"
      BY <1>1, <2>2, <2>3, <2>4, LeftTyped, EnteredInv, NoRest
    <2>. QED
      BY <2>5
  <1>. QED
    BY <1>3, <1>4

LEMMA StateFields ==
  ASSUME NEW s \in States
  PROVE  /\ s.left \in Nat /\ s.left <= BufLen /\ s.total \in Nat /\ s.total <= MaxIn
         /\ s.held \in Nat /\ s.held <= BufLen /\ s.open \in Nat
  BY Sizes DEF States, Amounts, Ins, Opened

LEMMA DescriptorFields ==
  ASSUME NEW i \in Descriptors
  PROVE  /\ i.src \in Nat /\ i.src <= MaxIn /\ i.in \in Nat /\ i.in <= MaxIn
         /\ i.room \in Nat /\ i.room <= MaxOut /\ i.out \in Nat /\ i.out <= MaxOut
         /\ i.pipe \in Nat /\ i.pipe <= BufLen /\ i.text \in Nat /\ i.eof \in BOOLEAN
  BY Sizes DEF Descriptors, Ins, Outs, Amounts

\* A fiber before a system call, whatever it has open.
CallInv(s, w, i) ==
    /\ Typed(s, w, i, NoValue) /\ Shape(s, w, i) /\ Accounts(s, i)
    /\ Watches(s, w, NoValue) /\ Times(s, w, NoValue) /\ s.pc = "call"

LEMMA CallKept ==
  ASSUME NEW s, NEW w, NEW i, CallInv(s, w, i),
         NEW t \in States, NEW j \in Descriptors,
         t.op = s.op, t.pc = "call", t.block = s.block, Shape(t, w, j), Accounts(t, j)
  PROVE  CallInv(t, w, j)
  <1>1. Typed(t, w, j, NoValue)
    BY DEF CallInv, Typed
  <1>2. Watches(t, w, NoValue)
    BY DEF CallInv, Watches
  <1>3. Times(t, w, NoValue)
    BY DEF CallInv, Times
  <1>. QED
    BY <1>1, <1>2, <1>3 DEF CallInv

\* It starts the watcher of one descriptor and waits.
FdWatch(w, want) == [w EXCEPT !.on = {"io"}, !.aim = IF @ = "none" THEN want ELSE @]

Suits(o, want) ==
    \/ o \in SrcOps /\ want = "src"
    \/ o \in DestOps /\ want = "dest"
    \/ o \in CopyOps /\ want \in {"src", "dest"}

LEMMA WaitFdInv ==
  ASSUME NEW s, NEW w, NEW i, NEW want, CallInv(s, w, i), Opens([s EXCEPT !.pc = "wait"]),
         Suits(s.op, want)
  PROVE  FiberInv([s EXCEPT !.pc = "wait"], FdWatch(w, want), i, NoValue)
  <1>. DEFINE a == IF w.aim = "none" THEN want ELSE w.aim
              x == FdWatch(w, want)
              t == [s EXCEPT !.pc = "wait"]
  <1>1. s \in States /\ w \in Watchers /\ i \in Descriptors /\ s.pc = "call"
    BY DEF CallInv, Typed
  <1>2. a \in {"src", "dest", "both"}
    BY <1>1 DEF Watchers, Suits
  <1>3. x = [w EXCEPT !.on = {"io"}, !.aim = a]
    BY <1>1 DEF Watchers, FdWatch
  <1>. HIDE DEF a
  <1>4. /\ x \in Watchers /\ x.on = {"io"} /\ x.aim = a /\ x.ref = w.ref /\ x.timer = w.timer
    BY <1>1, <1>2, <1>3 DEF Watchers
  <1>5. /\ t \in States /\ t.pc = "wait" /\ t.op = s.op /\ t.stage = s.stage /\ t.left = s.left
        /\ t.total = s.total /\ t.held = s.held /\ t.rest = s.rest /\ t.block = s.block
    BY <1>1 DEF States, Pcs
  <1>. HIDE DEF x, t
  <1>6. Typed(t, x, i, NoValue)
    BY <1>1, <1>4, <1>5 DEF Typed, CallInv
  <1>7. s.op # "none"
    BY <1>1 DEF CallInv, Shape, Idle
  <1>8. Shape(t, x, i)
    BY <1>1, <1>5, <1>7 DEF Shape, Idle, CallInv
  <1>9. Accounts(t, i)
    BY <1>1, <1>5 DEF Accounts, CallInv
  <1>10. Watches(t, x, NoValue)
    <2>1. /\ s.op \in SrcOps => a = "src"
          /\ s.op \in DestOps => a = "dest"
          /\ s.op \in CopyOps => a \in {"src", "dest"}
      BY DEF CallInv, Watches, Suits, a, SrcOps, DestOps, CopyOps, ReadOps, WriteOps, AcceptOps
    <2>. QED
      BY <1>4, <1>5, <2>1 DEF Watches, Suits, SrcOps, DestOps, PairOps, CopyOps, ReadOps,
         WriteOps, AcceptOps
  <1>11. Times(t, x, NoValue)
    BY <1>1, <1>4, <1>5 DEF Times, CallInv, NoValue, IS_EXCEPTION
  <1>. QED
    BY <1>6, <1>8, <1>9, <1>10, <1>11 DEF FiberInv, t, x


\* What a fiber's record is when it only switches out.
LEMMA Switched ==
  ASSUME NEW s, NEW w, NEW i, CallInv(s, w, i), NEW p \in {"wait", "snooze"},
         p = "snooze" => s.op \notin AcceptOps
  PROVE  LET t == [s EXCEPT !.pc = p]
         IN  /\ t \in States /\ t.pc = p /\ t.op = s.op /\ t.stage = s.stage
             /\ t.block = s.block /\ t.open = s.open /\ t.held = 0 /\ Accounts(t, i)
             /\ w.timer # "fired" /\ s.op # "none" /\ s \in States /\ w \in Watchers
             /\ i \in Descriptors
             /\ \A x \in Watchers : Shape(t, x, i)
  <1>. DEFINE t == [s EXCEPT !.pc = p]
  <1>1. s \in States /\ w \in Watchers /\ i \in Descriptors /\ s.pc = "call" /\ s.held = 0
    BY DEF CallInv, Typed, Accounts
  <1>2. /\ t \in States /\ t.pc = p /\ t.op = s.op /\ t.stage = s.stage /\ t.left = s.left
        /\ t.total = s.total /\ t.held = s.held /\ t.rest = s.rest /\ t.block = s.block
        /\ t.open = s.open
    BY <1>1 DEF States, Pcs
  <1>. HIDE DEF t
  <1>3. Accounts(t, i)
    BY <1>1, <1>2 DEF Accounts, CallInv
  <1>4. w.timer # "fired" /\ s.op # "none"
    BY <1>1 DEF CallInv, Times, IS_EXCEPTION, NoValue, Shape, Idle
  <1>5. \A x \in Watchers : Shape(t, x, i)
    BY <1>1, <1>2, <1>4 DEF Shape, Idle, CallInv
  <1>. QED
    BY <1>1, <1>2, <1>3, <1>4, <1>5 DEF t

LEMMA CardinalityOfSides ==
  Cardinality({"r", "w"}) = 2 /\ Cardinality({"w"}) = 1
  <1>1. IsFiniteSet({"w"}) /\ Cardinality({"w"}) = 1
    BY FS_Singleton
  <1>2. Cardinality({"w"} \cup {"r"}) = Cardinality({"w"}) + 1
    BY <1>1, FS_AddElement
  <1>3. {"w"} \cup {"r"} = {"r", "w"}
    OBVIOUS
  <1>. QED
    BY <1>1, <1>2, <1>3

\* It starts the watchers of both sides, or of the destination.
PairWatch(w, sides) ==
    [w EXCEPT !.on = sides, !.aim = "both", !.ref = Cardinality(sides)]

SidesOf(s) == IF s.op = "splice_chunks" /\ s.stage \notin {"in", "out"} THEN {"w"} ELSE {"r", "w"}

LEMMA WaitPairInv ==
  ASSUME NEW s, NEW w, NEW i, CallInv(s, w, i), s.op \in PairOps, Opens(s)
  PROVE  FiberInv([s EXCEPT !.pc = "wait"], PairWatch(w, SidesOf(s)), i, NoValue)
  <1>. DEFINE n == Cardinality(SidesOf(s))
              x == [w EXCEPT !.on = SidesOf(s), !.aim = "both", !.ref = n]
              t == [s EXCEPT !.pc = "wait"]
  <1>1. n \in Refs /\ n >= 0
    BY CardinalityOfSides DEF SidesOf, Refs
  <1>2. /\ t \in States /\ t.pc = "wait" /\ t.op = s.op /\ t.stage = s.stage
        /\ t.block = s.block /\ t.open = s.open /\ Accounts(t, i)
        /\ w.timer # "fired" /\ w \in Watchers /\ i \in Descriptors
        /\ \A y \in Watchers : Shape(t, y, i)
    BY Switched
  <1>3. SidesOf(s) \in SUBSET {"io", "r", "w", "timer", "child", "async"} /\ SidesOf(s) # {}
    BY DEF SidesOf
  <1>. HIDE DEF n, t
  <1>4. x \in Watchers /\ x.on = SidesOf(s) /\ x.aim = "both" /\ x.ref = n /\ x.timer = w.timer
    BY <1>1, <1>2, <1>3 DEF Watchers
  <1>. HIDE DEF x
  <1>5. Typed(t, x, i, NoValue)
    BY <1>2, <1>4 DEF Typed, CallInv
  <1>6. Watches(t, x, NoValue)
    BY <1>1, <1>2, <1>3, <1>4 DEF Watches, SrcOps, DestOps, PairOps, CopyOps, ReadOps, WriteOps,
       AcceptOps, SidesOf
  <1>7. Times(t, x, NoValue)
    BY <1>2, <1>4 DEF Times, CallInv, NoValue
  <1>8. Opens(t)
    BY <1>2 DEF Opens, PairOps, AcceptOps
  <1>. QED
    BY <1>2, <1>4, <1>5, <1>6, <1>7, <1>8 DEF FiberInv, PairWatch, t, x, n

\* It starts a watcher that is on no descriptor.
LEMMA WaitOnInv ==
  ASSUME NEW s, NEW w, NEW i, NEW watcher, CallInv(s, w, i), Opens(s),
         \/ s.op \in {"sleep", "timer_loop"} /\ watcher = "timer"
         \/ s.op = "waitpid_child" /\ watcher = "child"
         \/ s.op = "wait_event" /\ watcher = "async"
  PROVE  FiberInv([s EXCEPT !.pc = "wait"], [w EXCEPT !.on = {watcher}], i, NoValue)
  <1>. DEFINE x == [w EXCEPT !.on = {watcher}]
              t == [s EXCEPT !.pc = "wait"]
  <1>2. /\ t \in States /\ t.pc = "wait" /\ t.op = s.op /\ t.stage = s.stage
        /\ t.block = s.block /\ t.open = s.open /\ Accounts(t, i)
        /\ w.timer # "fired" /\ w \in Watchers /\ i \in Descriptors
        /\ \A y \in Watchers : Shape(t, y, i)
    BY Switched
  <1>3. {watcher} \in SUBSET {"io", "r", "w", "timer", "child", "async"}
    OBVIOUS
  <1>. HIDE DEF t
  <1>4. x \in Watchers /\ x.on = {watcher} /\ x.aim = w.aim /\ x.timer = w.timer
    BY <1>2, <1>3 DEF Watchers
  <1>. HIDE DEF x
  <1>5. Typed(t, x, i, NoValue)
    BY <1>2, <1>4 DEF Typed, CallInv
  <1>6. Watches(t, x, NoValue)
    BY <1>2, <1>4 DEF Watches, SrcOps, DestOps, PairOps, CopyOps, ReadOps, WriteOps,
       AcceptOps, CallInv
  <1>7. Times(t, x, NoValue)
    BY <1>2, <1>4 DEF Times, CallInv, NoValue
  <1>8. Opens(t)
    BY <1>2 DEF Opens, AcceptOps
  <1>. QED
    BY <1>2, <1>4, <1>5, <1>6, <1>7, <1>8 DEF FiberInv, t, x

\* It yields.
LEMMA SnoozeInv ==
  ASSUME NEW s, NEW w, NEW i, CallInv(s, w, i), Opens(s), s.op \notin AcceptOps
  PROVE  FiberInv([s EXCEPT !.pc = "snooze"], w, i, "nil")
  <1>. DEFINE t == [s EXCEPT !.pc = "snooze"]
  <1>2. /\ t \in States /\ t.pc = "snooze" /\ t.op = s.op /\ t.stage = s.stage
        /\ t.block = s.block /\ t.open = s.open /\ Accounts(t, i)
        /\ w.timer # "fired" /\ w \in Watchers /\ i \in Descriptors
        /\ Shape(t, w, i)
    BY Switched
  <1>. HIDE DEF t
  <1>5. Typed(t, w, i, "nil")
    BY <1>2 DEF Typed, CallInv, Values
  <1>6. Watches(t, w, "nil")
    BY <1>2 DEF Watches, CallInv
  <1>7. Times(t, w, "nil")
    BY <1>2 DEF Times, CallInv
  <1>8. Opens(t)
    BY <1>2 DEF Opens, AcceptOps, CallInv
  <1>. QED
    BY <1>2, <1>5, <1>6, <1>7, <1>8 DEF FiberInv, t

\* It runs again and has nothing to raise: it may call again, if it holds
\* nothing.
LEMMA ResumedInv ==
  ASSUME NEW s, NEW w, NEW i, NEW v, FiberInv(s, w, i, v), s.pc \in {"wait", "snooze"},
         s.held = 0, ~IS_EXCEPTION(v)
  PROVE  CallInv([s EXCEPT !.pc = "call"], [w EXCEPT !.on = {}], i)
  <1>. DEFINE x == [w EXCEPT !.on = {}]
              t == [s EXCEPT !.pc = "call"]
  <1>1. s \in States /\ w \in Watchers /\ i \in Descriptors
    BY DEF FiberInv, Typed
  <1>2. x \in Watchers /\ x.on = {} /\ x.aim = w.aim /\ x.timer = w.timer
    BY <1>1 DEF Watchers
  <1>3. /\ t \in States /\ t.pc = "call" /\ t.op = s.op /\ t.stage = s.stage /\ t.left = s.left
        /\ t.total = s.total /\ t.held = s.held /\ t.rest = s.rest /\ t.block = s.block
    BY <1>1 DEF States, Pcs
  <1>. HIDE DEF t, x
  <1>4. Typed(t, x, i, NoValue)
    BY <1>1, <1>2, <1>3 DEF Typed, CallInv, Values
  <1>5. Accounts(t, i)
    BY <1>3 DEF FiberInv, Accounts
  <1>6. s.op # "none"
    BY DEF FiberInv, Shape, Idle
  <1>7. Shape(t, x, i)
    BY <1>3, <1>6 DEF FiberInv, Shape, Idle
  <1>8. Watches(t, x, NoValue)
    BY <1>2, <1>3 DEF FiberInv, Watches
  <1>9. Times(t, x, NoValue)
    BY <1>2, <1>3 DEF FiberInv, Times, NoValue
  <1>. QED
    BY <1>3, <1>4, <1>5, <1>7, <1>8, <1>9 DEF CallInv, t, x

----------------------------------------------------------------------------
(* Steps of one fiber *)

Updates(f, s, w, i, v, c) ==
    /\ fs' = [fs EXCEPT ![f] = s] /\ ws' = [ws EXCEPT ![f] = w]
    /\ io' = [io EXCEPT ![f] = i] /\ sched' = [sched EXCEPT ![f] = v]
    /\ cur' = c

LEMMA Unpacked ==
  ASSUME BackendInv, NEW f \in Fibers
  PROVE  /\ FiberInv(fs[f], ws[f], io[f], sched[f]) /\ RunInv(f, fs[f], sched[f], cur)
         /\ f # NoFiber
         /\ fs[f] \in States /\ ws[f] \in Watchers /\ io[f] \in Descriptors
         /\ sched[f] \in Values \cup {NoValue}
         /\ cur = f => ~polling /\ sched[f] = NoValue
  <1>1. FiberInv(fs[f], ws[f], io[f], sched[f]) /\ RunInv(f, fs[f], sched[f], cur)
    BY DEF BackendInv
  <1>2. f # NoFiber
    BY LibevAssumption DEF LibevAssumption
  <1>3. cur = f => ~polling /\ sched[f] = NoValue
    BY <1>1, <1>2 DEF BackendInv, PollInv, RunInv
  <1>. QED
    BY <1>1, <1>2, <1>3 DEF FiberInv, Typed

\* If a step is one of fiber f alone and f keeps its part of the invariant,
\* the others keep theirs.
LEMMA StepKeeps ==
  ASSUME BackendInv, NEW f \in Fibers, NEW s, NEW w, NEW i, NEW v, NEW c,
         Updates(f, s, w, i, v, c),
         FiberInv(s, w, i, v), RunInv(f, s, v, c), PollInv',
         {polling, woken, pipe}' \subseteq BOOLEAN,
         \/ cur \in {f, NoFiber} /\ c \in {f, NoFiber}
         \/ c = cur
  PROVE  BackendInv'
  <1>1. /\ fs = [g \in Fibers |-> fs[g]] /\ ws = [g \in Fibers |-> ws[g]]
        /\ io = [g \in Fibers |-> io[g]] /\ sched = [g \in Fibers |-> sched[g]]
        /\ cur \in Fibers \cup {NoFiber}
    BY DEF BackendInv, Functions
  <1>2. Functions'
    BY <1>1 DEF Functions, Updates
  <1>3. fs'[f] = s /\ ws'[f] = w /\ io'[f] = i /\ sched'[f] = v /\ cur' = c
    BY <1>1 DEF Updates
  <1>4. ASSUME NEW g \in Fibers, g # f
        PROVE  FiberInv(fs'[g], ws'[g], io'[g], sched'[g]) /\ RunInv(g, fs'[g], sched'[g], cur')
    <2>1. fs'[g] = fs[g] /\ ws'[g] = ws[g] /\ io'[g] = io[g] /\ sched'[g] = sched[g]
      BY <1>1, <1>4 DEF Updates
    <2>2. FiberInv(fs[g], ws[g], io[g], sched[g]) /\ RunInv(g, fs[g], sched[g], cur) /\ g # NoFiber
      BY Unpacked
    <2>3. RunInv(g, fs[g], sched[g], c)
      BY <1>4, <2>2 DEF RunInv
    <2>. QED
      BY <1>3, <2>1, <2>2, <2>3
  <1>5. \A g \in Fibers :
            FiberInv(fs'[g], ws'[g], io'[g], sched'[g]) /\ RunInv(g, fs'[g], sched'[g], cur')
    BY <1>3, <1>4
  <1>. QED
    BY <1>2, <1>5 DEF BackendInv

\* The thread has just given control to f, or f has it.
Controls(f) == cur = f \/ (cur = NoFiber /\ ~polling)

LEMMA ControlKeeps ==
  ASSUME BackendInv, NEW f \in Fibers, NEW s, NEW w, NEW i, NEW v, NEW c \in {f, NoFiber},
         Controls(f), Updates(f, s, w, i, v, c), UNCHANGED <<polling, woken>>, pipe' \in BOOLEAN,
         FiberInv(s, w, i, v), RunInv(f, s, v, c)
  PROVE  BackendInv'
  <1>1. ~polling' /\ cur \in {f, NoFiber}
    BY Unpacked DEF Controls
  <1>2. PollInv'
    BY <1>1 DEF PollInv, NoStuckPoll
  <1>3. {polling, woken, pipe}' \subseteq BOOLEAN
    BY DEF BackendInv, Functions
  <1>. QED
    BY <1>1, <1>2, <1>3, StepKeeps

\* A fiber that runs, or comes to run, is not scheduled any more.
Cleared(f) == sched' = [sched EXCEPT ![f] = NoValue]

LEMMA RunningCleared ==
  ASSUME BackendInv, NEW f \in Fibers, cur = f, UNCHANGED sched
  PROVE  Cleared(f)
  BY Unpacked DEF Cleared, BackendInv, Functions

LEMMA Unchanged ==
  ASSUME BackendInv, NEW f \in Fibers
  PROVE  /\ UNCHANGED fs => fs' = [fs EXCEPT ![f] = fs[f]]
         /\ UNCHANGED ws => ws' = [ws EXCEPT ![f] = ws[f]]
         /\ UNCHANGED io => io' = [io EXCEPT ![f] = io[f]]
         /\ UNCHANGED sched => sched' = [sched EXCEPT ![f] = sched[f]]
  BY DEF BackendInv, Functions

LEMMA RaiseKeeps ==
  ASSUME BackendInv, NEW f \in Fibers, NEW s, NEW w, Controls(f), Cleared(f), UNCHANGED loop,
         Raise(f, s, w), Leavable(s, w)
  PROVE  BackendInv'
  <1>1. Updates(f, Raised(s), OutOf(w), NoIo, NoValue, f)
    BY DEF Raise, Out, Updates, Raised, OutOf, Cleared
  <1>2. FiberInv(Raised(s), OutOf(w), NoIo, NoValue) /\ Raised(s).pc \in {"app", "raise"}
    BY RaisedInv
  <1>3. RunInv(f, Raised(s), NoValue, f)
    BY <1>2 DEF RunInv
  <1>4. UNCHANGED <<polling, woken>> /\ pipe' \in BOOLEAN
    BY DEF loop, BackendInv, Functions
  <1>. QED
    BY <1>1, <1>2, <1>3, <1>4, ControlKeeps

LEMMA ReturnKeeps ==
  ASSUME BackendInv, NEW f \in Fibers, NEW s, NEW w, Controls(f), Cleared(f), UNCHANGED loop,
         Return(f, s, w), Leavable(s, w), w.timer # "fired"
  PROVE  BackendInv'
  <1>1. Updates(f, Ended(s), OutOf(w), NoIo, NoValue, f)
    BY DEF Return, Out, Updates, OutOf, Cleared
  <1>2. FiberInv(Ended(s), OutOf(w), NoIo, NoValue) /\ Ended(s).pc \in {"app", "call"}
    BY EndedInv
  <1>3. RunInv(f, Ended(s), NoValue, f)
    BY <1>2 DEF RunInv
  <1>4. UNCHANGED <<polling, woken>> /\ pipe' \in BOOLEAN
    BY DEF loop, BackendInv, Functions
  <1>. QED
    BY <1>1, <1>2, <1>3, <1>4, ControlKeeps

LEMMA GoOnKeeps ==
  ASSUME BackendInv, NEW f \in Fibers, NEW s, NEW w, NEW i, Controls(f), Cleared(f),
         UNCHANGED loop, GoOn(f, s, i), ws' = [ws EXCEPT ![f] = w],
         CallInv([s EXCEPT !.pc = "call"], w, i), Opens([s EXCEPT !.pc = "call"])
  PROVE  BackendInv'
  <1>. DEFINE t == [s EXCEPT !.pc = "call"]
  <1>1. Updates(f, t, w, i, NoValue, f)
    BY DEF GoOn, Updates, Cleared
  <1>2. FiberInv(t, w, i, NoValue) /\ t.pc = "call"
    BY DEF CallInv, FiberInv
  <1>. HIDE DEF t
  <1>3. RunInv(f, t, NoValue, f)
    BY <1>2 DEF RunInv
  <1>4. UNCHANGED <<polling, woken>> /\ pipe' \in BOOLEAN
    BY DEF loop, BackendInv, Functions
  <1>. QED
    BY <1>1, <1>2, <1>3, <1>4, ControlKeeps

LEMMA AwaitKeeps ==
  ASSUME BackendInv, NEW f \in Fibers, NEW s, NEW w, cur = f, backend_await(f, s, w),
         UNCHANGED <<polling, woken>>, pipe' \in BOOLEAN,
         FiberInv([s EXCEPT !.pc = "wait"], w, io[f], NoValue), [s EXCEPT !.pc = "wait"].pc = "wait"
  PROVE  BackendInv'
  <1>. DEFINE t == [s EXCEPT !.pc = "wait"]
  <1>1. Updates(f, t, w, io[f], NoValue, NoFiber)
    BY Unchanged, RunningCleared DEF backend_await, Updates, Cleared
  <1>. HIDE DEF t
  <1>2. RunInv(f, t, NoValue, NoFiber)
    BY Unpacked DEF RunInv, t
  <1>3. Controls(f)
    BY DEF Controls
  <1>. QED
    BY <1>1, <1>2, <1>3, ControlKeeps DEF t

LEMMA SnoozeKeeps ==
  ASSUME BackendInv, NEW f \in Fibers, NEW s, NEW i, cur = f, backend_snooze(f, s, i),
         FiberInv([s EXCEPT !.pc = "snooze"], ws[f], i, "nil"),
         [s EXCEPT !.pc = "snooze"].pc = "snooze"
  PROVE  BackendInv'
  <1>. DEFINE t == [s EXCEPT !.pc = "snooze"]
  <1>1. sched' = [sched EXCEPT ![f] = "nil"]
    BY Unpacked DEF backend_snooze, Fiber_make_runnable, IS_EXCEPTION, NoValue
  <1>2. Updates(f, t, ws[f], i, "nil", NoFiber)
    BY <1>1, Unchanged DEF backend_snooze, Updates
  <1>. HIDE DEF t
  <1>3. RunInv(f, t, "nil", NoFiber)
    BY Unpacked DEF RunInv, t
  <1>4. Controls(f) /\ UNCHANGED <<polling, woken>> /\ pipe' \in BOOLEAN
    BY DEF Controls, backend_snooze, loop, BackendInv, Functions
  <1>. QED
    BY <1>2, <1>3, <1>4, ControlKeeps DEF t

----------------------------------------------------------------------------
(* What the operations have in common *)

LEMMA AtCall ==
  ASSUME BackendInv, NEW f \in Fibers, NEW o, Calls(f, o)
  PROVE  /\ CallInv(fs[f], ws[f], io[f]) /\ Opens(fs[f]) /\ cur = f /\ fs[f].op = o
         /\ Controls(f) /\ sched[f] = NoValue /\ ws[f].on = {} /\ ws[f].timer # "fired"
         /\ ws[f].timer # "off" <=> fs[f].block
         /\ fs[f] \in States /\ ws[f] \in Watchers /\ io[f] \in Descriptors
         /\ fs[f].pc = "call" /\ fs[f].held = 0
  <1>1. cur = f /\ fs[f].op = o /\ fs[f].pc = "call" /\ sched[f] = NoValue /\ Controls(f)
    BY Unpacked DEF Calls, Controls
  <1>2. CallInv(fs[f], ws[f], io[f]) /\ Opens(fs[f])
    BY <1>1, Unpacked DEF CallInv, FiberInv
  <1>3. /\ ws[f].on = {} /\ ws[f].timer # "fired"
        /\ ws[f].timer # "off" <=> fs[f].block
        /\ fs[f] \in States /\ ws[f] \in Watchers /\ io[f] \in Descriptors /\ fs[f].held = 0
    BY <1>1, <1>2 DEF CallInv, Watches, Times, Typed, IS_EXCEPTION, NoValue, Accounts
  <1>. QED
    BY <1>1, <1>2, <1>3

LEMMA FailsKeeps ==
  ASSUME BackendInv, NEW f \in Fibers, NEW o, Calls(f, o), Fails(f), o # "splice_chunks"
  PROVE  BackendInv'
  <1>1. fs[f].open = 0
    BY AtCall DEF Opens
  <1>2. Leavable(fs[f], ws[f])
    BY <1>1, AtCall DEF Leavable
  <1>3. Cleared(f) /\ Controls(f) /\ UNCHANGED loop /\ Raise(f, fs[f], ws[f])
    BY AtCall, RunningCleared DEF Fails
  <1>. QED
    BY <1>2, <1>3, RaiseKeeps

LEMMA WaitFdKeeps ==
  ASSUME BackendInv, NEW f \in Fibers, NEW o, NEW want, Calls(f, o), o # "splice_chunks",
         libev_wait_fd_with_watcher(f, fs[f], want), Suits(o, want)
  PROVE  BackendInv'
  <1>. DEFINE x == FdWatch(ws[f], want)
              t == [fs[f] EXCEPT !.pc = "wait"]
  <1>1. t.open = 0 /\ t.pc = "wait"
    BY AtCall DEF Opens, States
  <1>2. FiberInv(t, x, io[f], NoValue)
    <2>1. Opens(t)
      BY <1>1 DEF Opens
    <2>. QED
      BY <2>1, AtCall, WaitFdInv
  <1>3. cur = f /\ backend_await(f, fs[f], x) /\ UNCHANGED <<polling, woken>> /\ pipe' \in BOOLEAN
    BY AtCall DEF libev_wait_fd_with_watcher, FdWatch, loop, BackendInv, Functions
  <1>. HIDE DEF x
  <1>. QED
    BY <1>1, <1>2, <1>3, AwaitKeeps

LEMMA WaitPairKeeps ==
  ASSUME BackendInv, NEW f \in Fibers, NEW o \in PairOps, Calls(f, o), NEW sides,
         libev_wait_rw_fd_with_watcher(f, fs[f], sides), sides = SidesOf(fs[f])
  PROVE  BackendInv'
  <1>. DEFINE x == PairWatch(ws[f], sides)
              t == [fs[f] EXCEPT !.pc = "wait"]
  <1>1. t.pc = "wait"
    BY AtCall DEF States
  <1>2. FiberInv(t, x, io[f], NoValue)
    BY AtCall, WaitPairInv
  <1>3. cur = f /\ backend_await(f, fs[f], x) /\ UNCHANGED <<polling, woken>> /\ pipe' \in BOOLEAN
    BY AtCall DEF libev_wait_rw_fd_with_watcher, PairWatch, loop, BackendInv, Functions
  <1>. HIDE DEF x
  <1>. QED
    BY <1>1, <1>2, <1>3, AwaitKeeps

LEMMA WaitsOnKeeps ==
  ASSUME BackendInv, NEW f \in Fibers, NEW o, Calls(f, o), NEW watcher,
         WaitsOn(f, watcher), pipe' \in BOOLEAN,
         \/ o \in {"sleep", "timer_loop"} /\ watcher = "timer"
         \/ o = "waitpid_child" /\ watcher = "child"
         \/ o = "wait_event" /\ watcher = "async"
  PROVE  BackendInv'
  <1>. DEFINE x == [ws[f] EXCEPT !.on = {watcher}]
              t == [fs[f] EXCEPT !.pc = "wait"]
  <1>1. t.pc = "wait"
    BY AtCall DEF States
  <1>2. FiberInv(t, x, io[f], NoValue)
    BY AtCall, WaitOnInv
  <1>3. cur = f /\ backend_await(f, fs[f], x) /\ UNCHANGED <<polling, woken>>
    BY AtCall DEF WaitsOn
  <1>. HIDE DEF x
  <1>. QED
    BY <1>1, <1>2, <1>3, AwaitKeeps

\* backend_snooze at a call, with the progress the operation has made.
LEMMA YieldKeeps ==
  ASSUME BackendInv, NEW f \in Fibers, NEW o, Calls(f, o), NEW s, NEW i,
         backend_snooze(f, s, i), CallInv(s, ws[f], i), Opens(s), s.op \notin AcceptOps
  PROVE  BackendInv'
  <1>. DEFINE t == [s EXCEPT !.pc = "snooze"]
  <1>1. FiberInv(t, ws[f], i, "nil")
    BY SnoozeInv
  <1>2. t.pc = "snooze"
    BY DEF CallInv, Typed, States
  <1>. QED
    BY <1>1, <1>2, AtCall, SnoozeKeeps

\* GoOn at a call.
LEMMA ProgressKeeps ==
  ASSUME BackendInv, NEW f \in Fibers, NEW o, Calls(f, o), NEW s, NEW i,
         GoOn(f, s, i), UNCHANGED <<ws, sched, loop>>, CallInv(s, ws[f], i), Opens(s)
  PROVE  BackendInv'
  <1>1. [s EXCEPT !.pc = "call"] = s
    BY DEF CallInv, Typed, States
  <1>2. Cleared(f) /\ Controls(f) /\ ws' = [ws EXCEPT ![f] = ws[f]]
    BY AtCall, RunningCleared, Unchanged
  <1>3. UNCHANGED loop
    BY DEF loop
  <1>. QED
    BY <1>1, <1>2, <1>3, GoOnKeeps

LEMMA ClosedFields ==
  ASSUME NEW s \in States
  PROVE  /\ Closed(s) \in States /\ Closed(s).open = 0 /\ Closed(s).block = s.block
         /\ Closed(s).pc = s.pc /\ Closed(s).op = s.op
  BY Zeros DEF Closed, States

LEMMA FinishesKeeps ==
  ASSUME BackendInv, NEW f \in Fibers, NEW o, Calls(f, o), NEW s, NEW i,
         Finishes(f, s, i), CallInv(s, ws[f], i), Opens(s), s.block = fs[f].block, s.op \notin AcceptOps
  PROVE  BackendInv'
  <1>1. CASE NeverWaited(f)
    BY <1>1, YieldKeeps DEF Finishes
  <1>2. CASE ~NeverWaited(f)
    <2>1. s \in States
      BY DEF CallInv, Typed
    <2>2. Return(f, Closed(s), ws[f]) /\ UNCHANGED sched /\ UNCHANGED loop
      BY <1>2 DEF Finishes
    <2>3. Leavable(Closed(s), ws[f]) /\ ws[f].timer # "fired"
      BY <2>1, AtCall, ClosedFields DEF Leavable
    <2>4. Cleared(f) /\ Controls(f)
      BY <2>2, AtCall, RunningCleared
    <2>. QED
      BY <2>2, <2>3, <2>4, ReturnKeeps
  <1>. QED
    BY <1>1, <1>2

\* A fiber that was switched out, with its watchers stopped.
LEMMA AtResume ==
  ASSUME BackendInv, NEW f \in Fibers, NEW o, NEW p \in {"wait", "snooze"}, Resumes(f, o, p)
  PROVE  /\ FiberInv(fs[f], ws[f], io[f], sched[f]) /\ fs[f].op = o /\ fs[f].pc = p
         /\ Controls(f) /\ fs[f] \in States /\ Stopped(f) \in Watchers /\ Stopped(f).on = {}
         /\ Stopped(f).timer = ws[f].timer
         /\ Stopped(f).timer # "off" <=> fs[f].block
         /\ ~IS_EXCEPTION(sched[f]) => Stopped(f).timer # "fired"
         /\ p = "snooze" => Stopped(f) = ws[f]
  <1>1. /\ FiberInv(fs[f], ws[f], io[f], sched[f]) /\ fs[f].op = o /\ fs[f].pc = p
        /\ Controls(f) /\ fs[f] \in States /\ ws[f] \in Watchers
    BY Unpacked DEF Resumes, Controls
  <1>2. Stopped(f) \in Watchers /\ Stopped(f).on = {} /\ Stopped(f).timer = ws[f].timer
    BY <1>1 DEF Stopped, Watchers
  <1>3. ws[f].timer # "off" <=> fs[f].block
    BY <1>1 DEF FiberInv, Times
  <1>4. ~IS_EXCEPTION(sched[f]) => ws[f].timer # "fired"
    BY <1>1 DEF FiberInv, Times
  <1>5. p = "snooze" => ws[f].on = {}
    BY <1>1 DEF FiberInv, Watches
  <1>6. p = "snooze" => Stopped(f) = ws[f]
    BY <1>1, <1>5 DEF Stopped, Watchers
  <1>. QED
    BY <1>1, <1>2, <1>3, <1>4, <1>6

\* The ways in which it goes on.
Comeback(f, o, p) == Resumes(f, o, p) /\ Unscheduled(f) /\ UNCHANGED loop

BackRaises(f, o, p, s) ==
    Comeback(f, o, p) /\ IS_EXCEPTION(sched[f]) /\ Raise(f, s, Stopped(f))
BackReturns(f, o, p, s) ==
    Comeback(f, o, p) /\ ~IS_EXCEPTION(sched[f]) /\ Return(f, s, Stopped(f))
BackCalls(f, o, p, s) ==
    /\ Comeback(f, o, p) /\ ~IS_EXCEPTION(sched[f])
    /\ GoOn(f, s, io[f]) /\ ws' = [ws EXCEPT ![f] = Stopped(f)]

LEMMA BackLeaves ==
  ASSUME BackendInv, NEW f \in Fibers, NEW o, NEW p \in {"wait", "snooze"}, NEW s \in States,
         s.open = 0, s.block = fs[f].block, BackRaises(f, o, p, s) \/ BackReturns(f, o, p, s)
  PROVE  BackendInv'
  <1>1. Resumes(f, o, p) /\ Cleared(f) /\ UNCHANGED loop
    BY DEF BackRaises, BackReturns, Comeback, Unscheduled, Cleared
  <1>2. Leavable(s, Stopped(f)) /\ Controls(f)
    BY <1>1, AtResume DEF Leavable
  <1>3. CASE BackRaises(f, o, p, s)
    <2>1. Raise(f, s, Stopped(f))
      BY <1>3 DEF BackRaises
    <2>. QED
      BY <1>1, <1>2, <2>1, RaiseKeeps
  <1>4. CASE BackReturns(f, o, p, s)
    <2>1. Return(f, s, Stopped(f)) /\ ~IS_EXCEPTION(sched[f])
      BY <1>4 DEF BackReturns
    <2>2. Stopped(f).timer # "fired"
      BY <1>1, <2>1, AtResume
    <2>. QED
      BY <1>1, <1>2, <2>1, <2>2, ReturnKeeps
  <1>. QED
    BY <1>3, <1>4

LEMMA BackCallsKeeps ==
  ASSUME BackendInv, NEW f \in Fibers, NEW o, NEW p \in {"wait", "snooze"}, NEW s,
         BackCalls(f, o, p, s), CallInv([s EXCEPT !.pc = "call"], Stopped(f), io[f]),
         Opens([s EXCEPT !.pc = "call"])
  PROVE  BackendInv'
  <1>1. Resumes(f, o, p) /\ Cleared(f) /\ UNCHANGED loop
    BY DEF BackCalls, Comeback, Unscheduled, Cleared
  <1>2. GoOn(f, s, io[f]) /\ ws' = [ws EXCEPT ![f] = Stopped(f)] /\ Controls(f)
    BY <1>1, AtResume DEF BackCalls
  <1>. QED
    BY <1>1, <1>2, GoOnKeeps

LEMMA CallsAgain ==
  ASSUME BackendInv, NEW f \in Fibers, NEW o, NEW p \in {"wait", "snooze"},
         BackCalls(f, o, p, fs[f]), fs[f].held = 0, fs[f].open = 0 \/ o = "splice_chunks"
  PROVE  BackendInv'
  <1>1. Resumes(f, o, p) /\ ~IS_EXCEPTION(sched[f])
    BY DEF BackCalls, Comeback
  <1>2. CallInv([fs[f] EXCEPT !.pc = "call"], Stopped(f), io[f])
    BY <1>1, AtResume, ResumedInv DEF Stopped
  <1>3. Opens([fs[f] EXCEPT !.pc = "call"])
    BY <1>1, AtResume DEF Opens, States
  <1>. QED
    BY <1>2, <1>3, BackCallsKeeps

LEMMA AgainKeeps ==
  ASSUME BackendInv, NEW f \in Fibers, NEW o, Again(f, o), o \notin {"waitpid", "splice_chunks"}
  PROVE  BackendInv'
  <1>1. BackRaises(f, o, "wait", fs[f]) \/ BackCalls(f, o, "wait", fs[f])
    BY DEF Again, Comes, BackRaises, BackCalls, Comeback
  <1>2. Resumes(f, o, "wait")
    BY <1>1 DEF BackRaises, BackCalls, Comeback
  <1>3. fs[f].open = 0 /\ fs[f].held = 0 /\ fs[f] \in States
    BY <1>2, AtResume DEF FiberInv, Opens, Accounts
  <1>. QED
    BY <1>1, <1>3, BackLeaves, CallsAgain

LEMMA FinalSnoozeKeeps ==
  ASSUME BackendInv, NEW f \in Fibers, NEW o, FinalSnooze(f, o)
  PROVE  BackendInv'
  <1>1. \/ BackRaises(f, o, "snooze", Closed(fs[f]))
        \/ BackReturns(f, o, "snooze", Closed(fs[f]))
    BY DEF FinalSnooze, Comes, BackRaises, BackReturns, Comeback
  <1>2. Closed(fs[f]) \in States /\ Closed(fs[f]).open = 0 /\ Closed(fs[f]).block = fs[f].block
    BY Unpacked, ClosedFields
  <1>. QED
    BY <1>1, <1>2, BackLeaves

\* Operations that return when they have waited.
LEMMA ReturnsAfter ==
  ASSUME BackendInv, NEW f \in Fibers, NEW o, NEW p \in {"wait", "snooze"},
         BackRaises(f, o, p, fs[f]) \/ BackReturns(f, o, p, fs[f]),
         o \notin {"splice_chunks", "waitpid"}, o \notin AcceptOps
  PROVE  BackendInv'
  <1>1. Resumes(f, o, p)
    BY DEF BackRaises, BackReturns, Comeback
  <1>2. fs[f].open = 0 /\ fs[f] \in States
    BY <1>1, AtResume DEF FiberInv, Opens
  <1>. QED
    BY <1>2, BackLeaves

----------------------------------------------------------------------------
(* Reading and accepting *)

LEMMA ReadOutcome ==
  ASSUME NEW f, io[f] \in Descriptors, NEW len \in Nat
  PROVE  \/ ReadResult(f, len) = EAGAIN
         \/ ReadResult(f, len) \in Nat /\ ReadResult(f, len) <= len
            /\ ReadResult(f, len) <= io[f].src
  <1>1. io[f].src \in Nat
    BY DescriptorFields
  <1>. QED
    BY <1>1, SetMinOfTwo DEF ReadResult

LEMMA EagainIsNegative == EAGAIN = -1
  BY DEF EAGAIN

\* What was taken from the source is held while the fiber snoozes.
LEMMA HeldInv ==
  ASSUME NEW s, NEW w, NEW i, CallInv(s, w, i), NEW n \in Nat,
         s.op \in ReadOps \cup AcceptOps, s.op \in AcceptOps => n = 1,
         s.op \in {"read", "read_to_eof", "recvmsg"} => s.total + n <= BufLen,
         NEW t \in States, NEW j \in Descriptors,
         t.pc = "snooze", t.op = s.op, t.held = n, t.total = s.total, t.stage = s.stage,
         t.left = s.left, t.block = s.block, Opens(t),
         j.src = i.src - n, j.in = i.in, j.room = i.room, j.out = i.out, j.pipe = i.pipe,
         j.text = i.text
  PROVE  FiberInv(t, w, j, "nil")
  <1>1. s \in States /\ w \in Watchers /\ i \in Descriptors /\ s.pc = "call" /\ s.held = 0
    BY DEF CallInv, Typed, Accounts
  <1>2. Typed(t, w, j, "nil")
    BY <1>1 DEF Typed, Values
  <1>3. s.op \notin SpliceOps /\ s.op \notin WriteOps /\ s.op # "none" /\ s.op # "tee"
    BY DEF ReadOps, AcceptOps, SpliceOps, WriteOps
  <1>4. Shape(t, w, j)
    BY <1>1, <1>3 DEF CallInv, Shape, Idle, SpliceOps
  <1>5. Accounts(t, j)
    <2>1. i.in = i.src + s.total /\ i.room + i.out <= MaxOut
          /\ (s.op \in {"read", "recvmsg"} => s.total = 0)
      BY <1>1, StateFields, DescriptorFields DEF CallInv, Accounts
    <2>. QED
      BY <1>1, <1>3, <2>1, StateFields, DescriptorFields DEF Accounts, SpliceOps
  <1>6. Watches(t, w, "nil")
    BY <1>1 DEF CallInv, Watches, NoValue
  <1>7. Times(t, w, "nil")
    BY <1>1 DEF CallInv, Times, NoValue, IS_EXCEPTION
  <1>. QED
    BY <1>2, <1>4, <1>5, <1>6, <1>7 DEF FiberInv

\* It is counted when the fiber runs again.
LEMMA CountedInv ==
  ASSUME NEW s, NEW w, NEW i, NEW v, FiberInv(s, w, i, v), s.pc = "snooze", ~IS_EXCEPTION(v),
         s.op \in (ReadOps \cup AcceptOps) \ {"read", "recvmsg"},
         NEW t \in States, t.pc = "call", t.op = s.op, t.held = 0, t.total = s.total + s.held,
         t.stage = s.stage, t.left = s.left, t.block = s.block
  PROVE  CallInv(t, w, i)
  <1>1. s \in States /\ w \in Watchers /\ i \in Descriptors
    BY DEF FiberInv, Typed
  <1>2. Typed(t, w, i, NoValue)
    BY <1>1 DEF Typed
  <1>3. s.op \notin SpliceOps /\ s.op \notin WriteOps /\ s.op # "none" /\ s.op # "tee"
    BY DEF ReadOps, AcceptOps, SpliceOps, WriteOps
  <1>4. Shape(t, w, i)
    BY <1>3 DEF FiberInv, Shape, Idle, SpliceOps
  <1>5. Accounts(t, i)
    <2>1. i.in = i.src + s.total + s.held /\ i.room + i.out <= MaxOut
          /\ (s.op = "read_to_eof" => s.total + s.held <= BufLen)
      BY DEF FiberInv, Accounts
    <2>. QED
      BY <1>1, <1>3, <2>1, StateFields, DescriptorFields DEF Accounts, SpliceOps, AcceptOps
  <1>6. Watches(t, w, NoValue)
    BY DEF FiberInv, Watches, NoValue
  <1>7. Times(t, w, NoValue)
    BY DEF FiberInv, Times, NoValue, IS_EXCEPTION
  <1>. QED
    BY <1>2, <1>4, <1>5, <1>6, <1>7 DEF CallInv

LEMMA TakenFields ==
  ASSUME NEW f, io[f] \in Descriptors, NEW n \in Nat, n <= io[f].src
  PROVE  LET j == Taken(f, n)
         IN  /\ j \in Descriptors /\ j.src = io[f].src - n /\ j.in = io[f].in
             /\ j.room = io[f].room /\ j.out = io[f].out /\ j.pipe = io[f].pipe
             /\ j.text = io[f].text /\ j.eof = io[f].eof
  <1>. DEFINE m == io[f].src - n
  <1>1. m \in Ins
    BY DescriptorFields, Sizes DEF Ins
  <1>2. Taken(f, n) = [io[f] EXCEPT !.src = m]
    BY DEF Taken
  <1>. HIDE DEF m
  <1>3. LET j == Taken(f, n)
        IN  /\ j \in Descriptors /\ j.src = m /\ j.in = io[f].in
            /\ j.room = io[f].room /\ j.out = io[f].out /\ j.pipe = io[f].pipe
            /\ j.text = io[f].text /\ j.eof = io[f].eof
    BY <1>1, <1>2 DEF Descriptors
  <1>. QED
    BY <1>3 DEF m

\* A fiber that holds something and snoozes.
LEMMA HoldKeeps ==
  ASSUME BackendInv, NEW f \in Fibers, NEW o \in ReadOps \cup AcceptOps, Calls(f, o), NEW s,
         NEW n \in Nat, n <= io[f].src, o \in AcceptOps => n = 1,
         o \in {"read", "read_to_eof", "recvmsg"} => fs[f].total + n <= BufLen,
         backend_snooze(f, s, Taken(f, n)),
         s \in States, s.op = o, s.held = n, s.total = fs[f].total, s.stage = fs[f].stage,
         s.left = fs[f].left, s.block = fs[f].block, o \notin AcceptOps => s.open = 0
  PROVE  BackendInv'
  <1>. DEFINE t == [s EXCEPT !.pc = "snooze"]
              j == Taken(f, n)
  <1>1. /\ t \in States /\ t.pc = "snooze" /\ t.op = o /\ t.held = n /\ t.total = fs[f].total
        /\ t.stage = fs[f].stage /\ t.left = fs[f].left /\ t.block = fs[f].block
        /\ t.open = s.open
    BY DEF States, Pcs
  <1>2. /\ j \in Descriptors /\ j.src = io[f].src - n /\ j.in = io[f].in
        /\ j.room = io[f].room /\ j.out = io[f].out /\ j.pipe = io[f].pipe
        /\ j.text = io[f].text
    BY AtCall, TakenFields
  <1>. HIDE DEF t, j
  <1>3. Opens(t)
    BY <1>1 DEF Opens
  <1>4. FiberInv(t, ws[f], j, "nil")
    <2>1. CallInv(fs[f], ws[f], io[f]) /\ fs[f].op = o
      BY AtCall
    <2>. QED
      BY <1>1, <1>2, <1>3, <2>1, HeldInv
  <1>. QED
    BY <1>1, <1>4, AtCall, SnoozeKeeps DEF t, j

\* The first four of what ReadOp allows.
ReadTries(f, o, len) ==
    \/ /\ Calls(f, o) /\ ReadResult(f, len) = EAGAIN
       /\ libev_wait_fd_with_watcher(f, fs[f], "src")
    \/ Calls(f, o) /\ Fails(f)
    \/ /\ Calls(f, o) /\ ReadResult(f, len) >= 0
       /\ backend_snooze(f, [fs[f] EXCEPT !.held = ReadResult(f, len)],
                         Taken(f, ReadResult(f, len)))
    \/ Again(f, o)

LEMMA ReadTriesKeep ==
  ASSUME BackendInv, NEW f \in Fibers, NEW o \in ReadOps, NEW len \in Nat, len <= BufLen,
         o \in {"read", "read_to_eof", "recvmsg"} => fs[f].total + len <= BufLen,
         ReadTries(f, o, len)
  PROVE  BackendInv'
  <1>0. o \notin {"waitpid", "splice_chunks"} /\ o \in SrcOps /\ o \notin AcceptOps
    BY DEF ReadOps, SrcOps, AcceptOps
  <1>1. CASE Calls(f, o) /\ libev_wait_fd_with_watcher(f, fs[f], "src")
    <2>1. Suits(o, "src")
      BY <1>0 DEF Suits
    <2>. QED
      BY <1>0, <1>1, <2>1, WaitFdKeeps
  <1>2. CASE Calls(f, o) /\ Fails(f)
    BY <1>0, <1>2, FailsKeeps
  <1>3. CASE /\ Calls(f, o) /\ ReadResult(f, len) >= 0
             /\ backend_snooze(f, [fs[f] EXCEPT !.held = ReadResult(f, len)],
                               Taken(f, ReadResult(f, len)))
    <2>. DEFINE n == ReadResult(f, len)
                s == [fs[f] EXCEPT !.held = n]
    <2>1. io[f] \in Descriptors /\ fs[f] \in States /\ fs[f].op = o /\ fs[f].open = 0
      BY <1>0, <1>3, AtCall DEF Opens
    <2>2. n \in Nat /\ n <= len /\ n <= io[f].src
      BY <1>3, <2>1, ReadOutcome, EagainIsNegative
    <2>3. n \in Amounts
      BY <2>2, Sizes DEF Amounts
    <2>4. o \in {"read", "read_to_eof", "recvmsg"} => fs[f].total + n <= BufLen
      BY <2>1, <2>2, StateFields, Sizes
    <2>5. backend_snooze(f, s, Taken(f, n))
      BY <1>3
    <2>. HIDE DEF n
    <2>6. /\ s \in States /\ s.op = o /\ s.held = n /\ s.total = fs[f].total
          /\ s.stage = fs[f].stage /\ s.left = fs[f].left /\ s.block = fs[f].block
          /\ s.open = 0
      BY <2>1, <2>3 DEF States
    <2>. HIDE DEF s
    <2>. QED
      BY <1>0, <1>3, <2>2, <2>4, <2>5, <2>6, HoldKeeps
  <1>4. CASE Again(f, o)
    BY <1>0, <1>4, AgainKeeps
  <1>. QED
    BY <1>1, <1>2, <1>3, <1>4 DEF ReadTries

\* What a read has returned is counted.
Counts(s) == [s EXCEPT !.total = @ + s.held, !.held = 0]

LEMMA CountsFields ==
  ASSUME NEW s, NEW w, NEW i, NEW v, FiberInv(s, w, i, v), s.op \in ReadOps
  PROVE  /\ Counts(s) \in States /\ Counts(s).total = s.total + s.held /\ Counts(s).held = 0
         /\ Counts(s).op = s.op /\ Counts(s).pc = s.pc /\ Counts(s).stage = s.stage
         /\ Counts(s).left = s.left /\ Counts(s).block = s.block /\ Counts(s).open = s.open
  <1>. DEFINE n == s.total + s.held
  <1>1. s \in States /\ i \in Descriptors /\ i.in = i.src + s.total + s.held
    BY DEF FiberInv, Typed, Accounts
  <1>2. n \in Ins
    BY <1>1, StateFields, DescriptorFields, Sizes DEF Ins
  <1>3. Counts(s) = [s EXCEPT !.total = n, !.held = 0]
    BY DEF Counts
  <1>. HIDE DEF n
  <1>4. /\ Counts(s) \in States /\ Counts(s).total = n /\ Counts(s).held = 0
        /\ Counts(s).op = s.op /\ Counts(s).pc = s.pc /\ Counts(s).stage = s.stage
        /\ Counts(s).left = s.left /\ Counts(s).block = s.block /\ Counts(s).open = s.open
    BY <1>1, <1>2, <1>3, Zeros DEF States
  <1>. QED
    BY <1>4 DEF n

\* The ways in which a read goes on after its snooze.
ReadEnds(f, o) ==
    \/ BackRaises(f, o, "snooze", fs[f]) \/ BackReturns(f, o, "snooze", fs[f])
    \/ Comeback(f, o, "snooze") /\ ~IS_EXCEPTION(sched[f]) /\ Once(f, Counts(fs[f]))
    \/ /\ Comeback(f, o, "snooze") /\ ~IS_EXCEPTION(sched[f]) /\ Round(f, Counts(fs[f]))
       /\ o \notin {"read", "recvmsg"}

LEMMA ReadEndsKeep ==
  ASSUME BackendInv, NEW f \in Fibers, NEW o \in ReadOps, ReadEnds(f, o)
  PROVE  BackendInv'
  <1>1. Resumes(f, o, "snooze")
    BY DEF ReadEnds, BackRaises, BackReturns, Comeback
  <1>2. /\ FiberInv(fs[f], ws[f], io[f], sched[f]) /\ fs[f].op = o /\ fs[f].pc = "snooze"
        /\ fs[f] \in States /\ Stopped(f) = ws[f]
    BY <1>1, AtResume
  <1>3. o \notin {"waitpid", "splice_chunks"} /\ o \notin AcceptOps /\ fs[f].open = 0
    BY <1>2 DEF ReadOps, AcceptOps, FiberInv, Opens
  <1>. DEFINE t == Counts(fs[f])
              u == [t EXCEPT !.pc = "call"]
  <1>4. /\ t \in States /\ t.total = fs[f].total + fs[f].held /\ t.held = 0 /\ t.op = o
        /\ t.stage = fs[f].stage /\ t.left = fs[f].left /\ t.block = fs[f].block /\ t.open = 0
    BY <1>2, <1>3, CountsFields
  <1>. HIDE DEF t
  <1>5. CASE BackRaises(f, o, "snooze", fs[f]) \/ BackReturns(f, o, "snooze", fs[f])
    BY <1>3, <1>5, ReturnsAfter
  <1>6. CASE Comeback(f, o, "snooze") /\ ~IS_EXCEPTION(sched[f]) /\ Once(f, t)
    <2>1. BackReturns(f, o, "snooze", t)
      BY <1>2, <1>6 DEF BackReturns, Once
    <2>. QED
      BY <1>4, <2>1, BackLeaves
  <1>7. CASE /\ Comeback(f, o, "snooze") /\ ~IS_EXCEPTION(sched[f]) /\ Round(f, t)
             /\ o \notin {"read", "recvmsg"}
    <2>1. BackCalls(f, o, "snooze", t)
      BY <1>2, <1>7, Unchanged DEF BackCalls, Round
    <2>2. /\ u \in States /\ u.pc = "call" /\ u.total = fs[f].total + fs[f].held /\ u.held = 0
          /\ u.op = o /\ u.stage = fs[f].stage /\ u.left = fs[f].left
          /\ u.block = fs[f].block /\ u.open = 0
      BY <1>4 DEF States, Pcs
    <2>. HIDE DEF u
    <2>3. CallInv(u, Stopped(f), io[f])
      BY <1>2, <1>7, <2>2, CountedInv
    <2>4. Opens(u)
      BY <2>2 DEF Opens
    <2>. QED
      BY <2>1, <2>3, <2>4, BackCallsKeeps DEF u
  <1>. QED
    BY <1>5, <1>6, <1>7 DEF ReadEnds, t

LEMMA RoomSize ==
  ASSUME NEW s \in States, s.op \in {"read_expand", "read_to_eof"},
         s.op = "read_to_eof" => s.total <= BufLen
  PROVE  /\ Room(s) \in Nat /\ Room(s) <= BufLen
         /\ s.op = "read_to_eof" => s.total + Room(s) <= BufLen
  <1>1. s.total \in Nat /\ BufLen \in Nat \ {0}
    BY StateFields, Sizes
  <1>2. s.total % BufLen \in 0..(BufLen - 1)
    BY <1>1
  <1>. QED
    BY <1>1, <1>2 DEF Room

LEMMA Backend_readKeeps ==
  ASSUME BackendInv, NEW f \in Fibers, Backend_read(f)
  PROVE  BackendInv'
  <1>. DEFINE len(o) == IF o = "read" THEN BufLen ELSE Room(fs[f])
  <1>1. \E o \in {"read", "read_expand", "read_to_eof"} :
            ReadTries(f, o, IF o = "read" THEN BufLen ELSE Room(fs[f])) \/ ReadEnds(f, o)
    <2>1. CASE ReadOp(f, "read", BufLen, LAMBDA s : Once(f, s))
      <3>1. ReadTries(f, "read", BufLen) \/ ReadEnds(f, "read")
        BY <2>1 DEF ReadOp, Comes, ReadTries, ReadEnds, BackRaises, BackReturns, Comeback, Counts
      <3>. QED
        BY <3>1
    <2>2. CASE ReadOp(f, "read_expand", Room(fs[f]), LAMBDA s : Round(f, s))
      <3>1. ReadTries(f, "read_expand", Room(fs[f])) \/ ReadEnds(f, "read_expand")
        BY <2>2 DEF ReadOp, Comes, ReadTries, ReadEnds, BackRaises, BackReturns, Comeback, Counts
      <3>. QED
        BY <3>1
    <2>3. CASE ReadOp(f, "read_to_eof", Room(fs[f]),
                      LAMBDA s : IF s.total = BufLen THEN Once(f, s) ELSE Round(f, s))
      <3>1. ReadTries(f, "read_to_eof", Room(fs[f])) \/ ReadEnds(f, "read_to_eof")
        BY <2>3 DEF ReadOp, Comes, ReadTries, ReadEnds, BackRaises, BackReturns, Comeback, Counts
      <3>. QED
        BY <3>1
    <2>. QED
      BY <2>1, <2>2, <2>3 DEF Backend_read
  <1>2. PICK o \in {"read", "read_expand", "read_to_eof"} :
            ReadTries(f, o, len(o)) \/ ReadEnds(f, o)
    BY <1>1
  <1>3. o \in ReadOps
    BY DEF ReadOps
  <1>4. CASE ReadTries(f, o, len(o))
    <2>1. Calls(f, o) \/ Again(f, o)
      BY <1>4 DEF ReadTries
    <2>2. CASE Again(f, o)
      <3>1. o \notin {"waitpid", "splice_chunks"}
        OBVIOUS
      <3>. QED
        BY <2>2, <3>1, AgainKeeps
    <2>3. CASE Calls(f, o)
      <3>1. fs[f] \in States /\ fs[f].op = o /\ CallInv(fs[f], ws[f], io[f])
        BY <2>3, AtCall
      <3>2. (o = "read" => fs[f].total = 0) /\ (o = "read_to_eof" => fs[f].total <= BufLen)
        BY <3>1, StateFields DEF CallInv, Accounts
      <3>3. /\ len(o) \in Nat /\ len(o) <= BufLen
            /\ o \in {"read", "read_to_eof", "recvmsg"} => fs[f].total + len(o) <= BufLen
        BY <3>1, <3>2, RoomSize, Sizes
      <3>. HIDE DEF len
      <3>. QED
        BY <1>3, <1>4, <3>3, ReadTriesKeep
    <2>. QED
      BY <2>1, <2>2, <2>3
  <1>5. CASE ReadEnds(f, o)
    BY <1>3, <1>5, ReadEndsKeep
  <1>. QED
    BY <1>2, <1>4, <1>5

LEMMA ReadingKeeps ==
  ASSUME BackendInv, NEW f \in Fibers,
         Backend_recvmsg(f) \/ Backend_read_loop(f) \/ Backend_feed_loop(f)
  PROVE  BackendInv'
  <1>1. \E o \in {"recvmsg", "read_loop", "feed_loop"} : ReadTries(f, o, BufLen) \/ ReadEnds(f, o)
    <2>1. CASE Backend_recvmsg(f)
      <3>1. ReadTries(f, "recvmsg", BufLen) \/ ReadEnds(f, "recvmsg")
        BY <2>1 DEF Backend_recvmsg, ReadOp, Comes, ReadTries, ReadEnds, BackRaises, BackReturns,
           Comeback, Counts
      <3>. QED
        BY <3>1
    <2>2. CASE Backend_read_loop(f)
      <3>1. ReadTries(f, "read_loop", BufLen) \/ ReadEnds(f, "read_loop")
        BY <2>2 DEF Backend_read_loop, ReadOp, Comes, ReadTries, ReadEnds, BackRaises, BackReturns,
           Comeback, Counts
      <3>. QED
        BY <3>1
    <2>3. CASE Backend_feed_loop(f)
      <3>1. ReadTries(f, "feed_loop", BufLen) \/ ReadEnds(f, "feed_loop")
        BY <2>3 DEF Backend_feed_loop, ReadOp, Comes, ReadTries, ReadEnds, BackRaises, BackReturns,
           Comeback, Counts
      <3>. QED
        BY <3>1
    <2>. QED
      BY <2>1, <2>2, <2>3
  <1>2. PICK o \in {"recvmsg", "read_loop", "feed_loop"} :
            ReadTries(f, o, BufLen) \/ ReadEnds(f, o)
    BY <1>1
  <1>3. o \in ReadOps /\ o \notin {"waitpid", "splice_chunks"}
    BY DEF ReadOps
  <1>4. CASE ReadTries(f, o, BufLen)
    <2>1. Calls(f, o) \/ Again(f, o)
      BY <1>4 DEF ReadTries
    <2>2. CASE Again(f, o)
      BY <1>3, <2>2, AgainKeeps
    <2>3. CASE Calls(f, o)
      <3>1. fs[f].op = o /\ CallInv(fs[f], ws[f], io[f])
        BY <2>3, AtCall
      <3>2. o \in {"read", "read_to_eof", "recvmsg"} => fs[f].total + BufLen <= BufLen
        BY <3>1, Sizes DEF CallInv, Accounts
      <3>3. BufLen \in Nat /\ BufLen <= BufLen
        BY Sizes
      <3>. QED
        BY <1>3, <1>4, <3>2, <3>3, ReadTriesKeep
    <2>. QED
      BY <2>1, <2>2, <2>3
  <1>5. CASE ReadEnds(f, o)
    BY <1>3, <1>5, ReadEndsKeep
  <1>. QED
    BY <1>2, <1>4, <1>5

\* The connection that was accepted.
Accepts(f, o, s) ==
    \/ /\ Calls(f, o) /\ io[f].src = 0
       /\ libev_wait_fd_with_watcher(f, fs[f], "src")
    \/ Calls(f, o) /\ Fails(f)
    \/ /\ Calls(f, o) /\ io[f].src > 0
       /\ backend_snooze(f, [fs[f] EXCEPT !.held = 1, !.open = 1], Taken(f, 1))
    \/ Again(f, o)
    \/ BackRaises(f, o, "snooze", Closed(fs[f]))
    \/ Comeback(f, o, "snooze") /\ ~IS_EXCEPTION(sched[f]) /\ Once(f, s)
    \/ /\ Comeback(f, o, "snooze") /\ ~IS_EXCEPTION(sched[f]) /\ Round(f, s)

LEMMA AcceptingKeeps ==
  ASSUME BackendInv, NEW f \in Fibers, Backend_accept(f) \/ Backend_accept_loop(f)
  PROVE  BackendInv'
  <1>. DEFINE t == [Closed(fs[f]) EXCEPT !.total = @ + 1, !.held = 0]
              u == [t EXCEPT !.pc = "call"]
  <1>1. \E o \in AcceptOps : Accepts(f, o, t)
    <2>1. CASE Backend_accept(f)
      <3>1. Accepts(f, "accept", t)
        BY <2>1 DEF Backend_accept, accept, Comes, Accepts, BackRaises, Comeback, GivenUp
      <3>. QED
        BY <3>1 DEF AcceptOps
    <2>2. CASE Backend_accept_loop(f)
      <3>1. Accepts(f, "accept_loop", t)
        BY <2>2 DEF Backend_accept_loop, accept, Comes, Accepts, BackRaises, Comeback, GivenUp
      <3>. QED
        BY <3>1 DEF AcceptOps
    <2>. QED
      BY <2>1, <2>2
  <1>2. PICK o \in AcceptOps : Accepts(f, o, t)
    BY <1>1
  <1>3. o \notin {"waitpid", "splice_chunks"} /\ Suits(o, "src") /\ o \in ReadOps \cup AcceptOps
    BY DEF AcceptOps, Suits, SrcOps
  <1>4. CASE Calls(f, o) /\ libev_wait_fd_with_watcher(f, fs[f], "src")
    BY <1>3, <1>4, WaitFdKeeps
  <1>5. CASE Calls(f, o) /\ Fails(f)
    BY <1>3, <1>5, FailsKeeps
  <1>6. CASE /\ Calls(f, o) /\ io[f].src > 0
             /\ backend_snooze(f, [fs[f] EXCEPT !.held = 1, !.open = 1], Taken(f, 1))
    <2>. DEFINE s == [fs[f] EXCEPT !.held = 1, !.open = 1]
    <2>1. fs[f] \in States /\ io[f] \in Descriptors /\ fs[f].op = o
      BY <1>6, AtCall
    <2>2. 1 \in Nat /\ 1 <= io[f].src /\ 1 \in Amounts /\ 1 \in Opened
      BY <1>6, <2>1, DescriptorFields, Sizes DEF Amounts, Opened
    <2>3. /\ s \in States /\ s.op = o /\ s.held = 1 /\ s.total = fs[f].total
          /\ s.stage = fs[f].stage /\ s.left = fs[f].left /\ s.block = fs[f].block
      BY <2>1, <2>2 DEF States
    <2>4. o \notin {"read", "read_to_eof", "recvmsg"}
      BY DEF AcceptOps
    <2>. HIDE DEF s
    <2>. QED
      BY <1>3, <1>6, <2>2, <2>3, <2>4, HoldKeeps DEF s
  <1>7. CASE Again(f, o)
    BY <1>3, <1>7, AgainKeeps
  <1>8. CASE \/ BackRaises(f, o, "snooze", Closed(fs[f]))
             \/ Comeback(f, o, "snooze") /\ ~IS_EXCEPTION(sched[f]) /\ Once(f, t)
             \/ Comeback(f, o, "snooze") /\ ~IS_EXCEPTION(sched[f]) /\ Round(f, t)
    <2>1. Resumes(f, o, "snooze")
      BY <1>8 DEF BackRaises, Comeback
    <2>2. /\ FiberInv(fs[f], ws[f], io[f], sched[f]) /\ fs[f].op = o /\ fs[f].pc = "snooze"
          /\ fs[f] \in States /\ Stopped(f) = ws[f] /\ io[f] \in Descriptors
      BY <2>1, AtResume, Unpacked
    <2>3. fs[f].held = 1 /\ io[f].in = io[f].src + fs[f].total + fs[f].held
      BY <2>2 DEF FiberInv, Accounts
    <2>. DEFINE n == fs[f].total + 1
    <2>4. n \in Ins
      BY <2>2, <2>3, StateFields, DescriptorFields, Sizes DEF Ins
    <2>. HIDE DEF n
    <2>5. t = [fs[f] EXCEPT !.open = 0, !.total = n, !.held = 0]
      BY <2>2 DEF Closed, States, n
    <2>6. /\ t \in States /\ t.total = n /\ t.held = 0 /\ t.op = o /\ t.open = 0
          /\ t.stage = fs[f].stage /\ t.left = fs[f].left /\ t.block = fs[f].block
      BY <2>2, <2>4, <2>5, Zeros DEF States
    <2>. HIDE DEF t
    <2>7. CASE BackRaises(f, o, "snooze", Closed(fs[f]))
      BY <2>2, <2>7, ClosedFields, BackLeaves
    <2>8. CASE Comeback(f, o, "snooze") /\ ~IS_EXCEPTION(sched[f]) /\ Once(f, t)
      <3>1. BackReturns(f, o, "snooze", t)
        BY <2>2, <2>8 DEF BackReturns, Once
      <3>. QED
        BY <2>6, <3>1, BackLeaves
    <2>9. CASE Comeback(f, o, "snooze") /\ ~IS_EXCEPTION(sched[f]) /\ Round(f, t)
      <3>1. BackCalls(f, o, "snooze", t)
        BY <2>2, <2>9, Unchanged DEF BackCalls, Round
      <3>2. /\ u \in States /\ u.pc = "call" /\ u.total = n /\ u.held = 0
            /\ u.op = o /\ u.stage = fs[f].stage /\ u.left = fs[f].left
            /\ u.block = fs[f].block /\ u.open = 0
        BY <2>6 DEF States, Pcs
      <3>. HIDE DEF u
      <3>3. o \in (ReadOps \cup AcceptOps) \ {"read", "recvmsg"} /\ n = fs[f].total + fs[f].held
        BY <2>3 DEF AcceptOps, n
      <3>4. CallInv(u, Stopped(f), io[f])
        BY <2>2, <2>9, <3>2, <3>3, CountedInv
      <3>5. Opens(u)
        BY <3>2 DEF Opens
      <3>. QED
        BY <3>1, <3>4, <3>5, BackCallsKeeps DEF u
    <2>. QED
      BY <1>8, <2>7, <2>8, <2>9
  <1>. QED
    BY <1>2, <1>4, <1>5, <1>6, <1>7, <1>8 DEF Accepts

----------------------------------------------------------------------------
(* Writing *)

LEMMA WriteOutcome ==
  ASSUME NEW f, io[f] \in Descriptors, NEW len \in Nat
  PROVE  \/ WriteResult(f, len) = EAGAIN
         \/ WriteResult(f, len) \in Nat /\ WriteResult(f, len) <= len
            /\ WriteResult(f, len) <= io[f].room
  <1>1. io[f].room \in Nat
    BY DescriptorFields
  <1>. QED
    BY <1>1, SetMinOfTwo DEF WriteResult

LEMMA GivenFields ==
  ASSUME NEW f, io[f] \in Descriptors, io[f].room + io[f].out <= MaxOut, NEW n \in Nat,
         n <= io[f].room
  PROVE  LET j == Given(f, n)
         IN  /\ j \in Descriptors /\ j.src = io[f].src /\ j.in = io[f].in
             /\ j.room = io[f].room - n /\ j.out = io[f].out + n /\ j.pipe = io[f].pipe
             /\ j.text = io[f].text /\ j.eof = io[f].eof
  <1>. DEFINE m == io[f].room - n
              k == io[f].out + n
  <1>1. m \in Outs /\ k \in Outs
    BY DescriptorFields, Sizes DEF Outs
  <1>2. Given(f, n) = [io[f] EXCEPT !.room = m, !.out = k]
    BY DEF Given
  <1>. HIDE DEF m, k
  <1>3. LET j == Given(f, n)
        IN  /\ j \in Descriptors /\ j.src = io[f].src /\ j.in = io[f].in
            /\ j.room = m /\ j.out = k /\ j.pipe = io[f].pipe
            /\ j.text = io[f].text /\ j.eof = io[f].eof
    BY <1>1, <1>2 DEF Descriptors
  <1>. QED
    BY <1>3 DEF m, k

\* A record with another number of bytes left.
LEMMA LessLeft ==
  ASSUME NEW s \in States, NEW n \in Nat, n <= s.left
  PROVE  LET t == [s EXCEPT !.left = @ - n]
         IN  /\ t \in States /\ t.left = s.left - n /\ t.op = s.op /\ t.pc = s.pc
             /\ t.stage = s.stage /\ t.total = s.total /\ t.held = s.held /\ t.rest = s.rest
             /\ t.block = s.block /\ t.open = s.open
  <1>. DEFINE m == s.left - n
  <1>1. m \in Amounts
    BY StateFields, Sizes DEF Amounts
  <1>. HIDE DEF m
  <1>2. LET t == [s EXCEPT !.left = m]
        IN  /\ t \in States /\ t.left = m /\ t.op = s.op /\ t.pc = s.pc
            /\ t.stage = s.stage /\ t.total = s.total /\ t.held = s.held /\ t.rest = s.rest
            /\ t.block = s.block /\ t.open = s.open
    BY <1>1 DEF States
  <1>. QED
    BY <1>2 DEF m

LEMMA WriteOpKeeps ==
  ASSUME BackendInv, NEW f \in Fibers, NEW o \in WriteOps, WriteOp(f, o)
  PROVE  BackendInv'
  <1>0. /\ o \notin {"waitpid", "splice_chunks"} /\ Suits(o, "dest") /\ o \notin AcceptOps
        /\ o \notin ReadOps /\ o \notin SpliceOps /\ o # "none" /\ o # "tee"
    BY DEF WriteOps, Suits, DestOps, AcceptOps, ReadOps, SpliceOps
  <1>1. CASE Calls(f, o) /\ libev_wait_fd_with_watcher(f, fs[f], "dest")
    BY <1>0, <1>1, WaitFdKeeps
  <1>2. CASE Calls(f, o) /\ Fails(f)
    BY <1>0, <1>2, FailsKeeps
  <1>3. CASE /\ Calls(f, o) /\ fs[f].left > 0 /\ WriteResult(f, fs[f].left) > 0
             /\ GoOn(f, [fs[f] EXCEPT !.left = @ - WriteResult(f, fs[f].left)],
                     Given(f, WriteResult(f, fs[f].left)))
             /\ UNCHANGED <<ws, sched, loop>>
    <2>. DEFINE n == WriteResult(f, fs[f].left)
                s == fs[f]
                i == io[f]
                t == [s EXCEPT !.left = @ - n]
                j == Given(f, n)
    <2>1. s \in States /\ i \in Descriptors /\ s.op = o /\ CallInv(s, ws[f], i) /\ Opens(s)
          /\ s.pc = "call"
      BY <1>3, AtCall
    <2>2. s.left \in Nat
      BY <2>1, StateFields
    <2>3. n \in Nat /\ n <= s.left /\ n <= i.room
      BY <1>3, <2>1, <2>2, WriteOutcome, EagainIsNegative
    <2>4. GoOn(f, t, j)
      BY <1>3
    <2>5. i.room + i.out <= MaxOut /\ i.out = BufLen - s.left
      BY <2>1 DEF CallInv, Accounts
    <2>. HIDE DEF n
    <2>6. /\ t \in States /\ t.left = s.left - n /\ t.op = s.op /\ t.pc = s.pc
          /\ t.stage = s.stage /\ t.total = s.total /\ t.held = s.held /\ t.rest = s.rest
          /\ t.block = s.block /\ t.open = s.open
      BY <2>1, <2>3, LessLeft
    <2>7. /\ j \in Descriptors /\ j.src = i.src /\ j.in = i.in
          /\ j.room = i.room - n /\ j.out = i.out + n /\ j.pipe = i.pipe /\ j.text = i.text
      BY <2>1, <2>3, <2>5, GivenFields
    <2>. HIDE DEF t, j, s, i
    <2>8. Shape(t, ws[f], j)
      BY <1>0, <2>1, <2>6, <2>7 DEF CallInv, Shape, Idle, WriteOps
    <2>9. Accounts(t, j)
      <3>1. /\ s.held = 0 /\ s.total = 0
        BY <1>0, <2>1 DEF CallInv, Accounts, WriteOps
      <3>2. /\ i.out \in Nat /\ i.room \in Nat /\ s.left \in Nat /\ BufLen \in Nat /\ MaxOut \in Nat
        BY <2>1, StateFields, DescriptorFields, Sizes
      <3>3. j.room + j.out <= MaxOut /\ j.out = BufLen - t.left
        BY <2>3, <2>5, <2>6, <2>7, <3>2
      <3>. QED
        BY <1>0, <2>1, <2>6, <3>1, <3>3, Sizes DEF Accounts, ReadOps, SpliceOps
    <2>10. CallInv(t, ws[f], j)
      BY <2>1, <2>6, <2>7, <2>8, <2>9, CallKept
    <2>11. Opens(t)
      BY <2>1, <2>6 DEF Opens
    <2>. QED
      BY <1>3, <2>4, <2>10, <2>11, ProgressKeeps
  <1>4. CASE Calls(f, o) /\ Finishes(f, fs[f], io[f])
    BY <1>0, <1>4, AtCall, FinishesKeeps
  <1>5. CASE Again(f, o)
    BY <1>0, <1>5, AgainKeeps
  <1>6. CASE FinalSnooze(f, o)
    BY <1>6, FinalSnoozeKeeps
  <1>. QED
    BY <1>1, <1>2, <1>3, <1>4, <1>5, <1>6 DEF WriteOp

LEMMA WritingKeeps ==
  ASSUME BackendInv, NEW f \in Fibers,
         Backend_write(f) \/ Backend_writev(f) \/ Backend_send(f) \/ Backend_sendmsg(f)
  PROVE  BackendInv'
  BY WriteOpKeeps DEF Backend_write, Backend_writev, Backend_send, Backend_sendmsg, WriteOps

\* connect and close.
LEMMA SocketKeeps ==
  ASSUME BackendInv, NEW f \in Fibers, Backend_connect(f) \/ Backend_close(f)
  PROVE  BackendInv'
  <1>. DEFINE Ops == {"connect", "close"}
  <1>1. \E o \in Ops :
            \/ Calls(f, o) /\ Fails(f)
            \/ o = "connect" /\ Calls(f, o) /\ libev_wait_fd_with_watcher(f, fs[f], "dest")
            \/ Calls(f, o) /\ backend_snooze(f, fs[f], io[f])
            \/ \E p \in {"wait", "snooze"} :
                  BackRaises(f, o, p, fs[f]) \/ BackReturns(f, o, p, fs[f])
    <2>1. CASE Backend_connect(f)
      BY <2>1 DEF Backend_connect, Comes, BackRaises, BackReturns, Comeback
    <2>2. CASE Backend_close(f)
      BY <2>2 DEF Backend_close, Comes, BackRaises, BackReturns, Comeback
    <2>. QED
      BY <2>1, <2>2
  <1>2. PICK o \in Ops :
            \/ Calls(f, o) /\ Fails(f)
            \/ o = "connect" /\ Calls(f, o) /\ libev_wait_fd_with_watcher(f, fs[f], "dest")
            \/ Calls(f, o) /\ backend_snooze(f, fs[f], io[f])
            \/ \E p \in {"wait", "snooze"} :
                  BackRaises(f, o, p, fs[f]) \/ BackReturns(f, o, p, fs[f])
    BY <1>1
  <1>3. /\ o \notin {"waitpid", "splice_chunks"} /\ o \notin AcceptOps
        /\ o = "connect" => Suits(o, "dest")
    BY DEF AcceptOps, Suits, DestOps
  <1>4. CASE Calls(f, o) /\ Fails(f)
    BY <1>3, <1>4, FailsKeeps
  <1>5. CASE o = "connect" /\ Calls(f, o) /\ libev_wait_fd_with_watcher(f, fs[f], "dest")
    BY <1>3, <1>5, WaitFdKeeps
  <1>6. CASE Calls(f, o) /\ backend_snooze(f, fs[f], io[f])
    BY <1>3, <1>6, AtCall, YieldKeeps
  <1>7. CASE \E p \in {"wait", "snooze"} :
                  BackRaises(f, o, p, fs[f]) \/ BackReturns(f, o, p, fs[f])
    BY <1>3, <1>7, ReturnsAfter
  <1>. QED
    BY <1>2, <1>4, <1>5, <1>6, <1>7

----------------------------------------------------------------------------
(* Splicing *)

LEMMA SpliceOutcome ==
  ASSUME NEW f, io[f] \in Descriptors, NEW len \in Nat
  PROVE  \/ SpliceResult(f, len) = EAGAIN
         \/ SpliceResult(f, len) \in Nat /\ SpliceResult(f, len) <= len
            /\ SpliceResult(f, len) <= io[f].src /\ SpliceResult(f, len) <= io[f].room
  <1>1. io[f].src \in Nat /\ io[f].room \in Nat
    BY DescriptorFields
  <1>2. \/ ReadResult(f, len) = EAGAIN
        \/ ReadResult(f, len) \in Nat /\ ReadResult(f, len) <= len
           /\ ReadResult(f, len) <= io[f].src
    BY ReadOutcome
  <1>. QED
    BY <1>1, <1>2, SetMinOfThree, EagainIsNegative DEF SpliceResult

\* What a step of a splice must keep.
SpliceAccounts(t, j) ==
    /\ j.in = j.src + t.total /\ j.out = (t.total - t.left) + j.text
    /\ j.room + j.out <= MaxOut

LEMMA SpliceKept ==
  ASSUME NEW s, NEW w, NEW i, CallInv(s, w, i), s.op \in SpliceOps,
         NEW t \in States, NEW j \in Descriptors,
         t.op = s.op, t.pc = "call", t.block = s.block, t.held = 0, SpliceAccounts(t, j),
         s.op \in {"splice", "splice_to_eof"} => t.left = 0,
         s.op # "splice_chunks" => t.stage = "none" /\ j.pipe = 0 /\ j.text = 0,
         s.op = "splice_chunks" => j.pipe = t.left,
         s.op = "splice_chunks" /\ t.stage \notin {"cprefix", "out"} => t.left = 0
  PROVE  CallInv(t, w, j)
  <1>1. /\ s.op \notin ReadOps /\ s.op \notin AcceptOps /\ s.op \notin WriteOps /\ s.op # "none"
        /\ s.op # "tee"
    BY DEF SpliceOps, ReadOps, AcceptOps, WriteOps
  <1>2. Shape(t, w, j)
    BY <1>1 DEF Shape, Idle
  <1>3. Accounts(t, j)
    <2>1. t.total \in Nat /\ t.left \in Nat /\ j.text \in Nat /\ j.out \in Nat
      BY StateFields, DescriptorFields
    <2>2. j.out = t.total - t.left + j.text
      BY <2>1 DEF SpliceAccounts
    <2>. QED
      BY <1>1, <2>2 DEF Accounts, SpliceAccounts, ReadOps
  <1>. QED
    BY <1>2, <1>3, CallKept

LEMMA AtSplice ==
  ASSUME NEW s, NEW w, NEW i, CallInv(s, w, i), s.op \in SpliceOps
  PROVE  /\ SpliceAccounts(s, i) /\ s.held = 0
         /\ s.op \in {"splice", "splice_to_eof"} => s.left = 0
         /\ s.op # "splice_chunks" => s.stage = "none" /\ i.pipe = 0 /\ i.text = 0
         /\ s.op = "splice_chunks" => i.pipe = s.left
         /\ s.op = "splice_chunks" /\ s.stage \notin {"cprefix", "out"} => s.left = 0
  <1>1. s \in States /\ i \in Descriptors
    BY DEF CallInv, Typed
  <1>2. s.total \in Nat /\ s.left \in Nat /\ i.text \in Nat /\ i.out \in Nat
    BY <1>1, StateFields, DescriptorFields
  <1>3. /\ i.in = i.src + s.total /\ i.out = s.total - s.left + i.text
        /\ i.room + i.out <= MaxOut
    BY DEF CallInv, Accounts
  <1>4. SpliceAccounts(s, i)
    BY <1>2, <1>3 DEF SpliceAccounts
  <1>. QED
    BY <1>4 DEF CallInv, Accounts, Shape

LEMMA MovedFields ==
  ASSUME NEW f, io[f] \in Descriptors, io[f].room + io[f].out <= MaxOut, NEW n \in Nat,
         n <= io[f].room, n <= io[f].src
  PROVE  LET j == Moved(f, n)
         IN  /\ j \in Descriptors /\ j.src = io[f].src - n /\ j.in = io[f].in
             /\ j.room = io[f].room - n /\ j.out = io[f].out + n /\ j.pipe = io[f].pipe
             /\ j.text = io[f].text
  <1>. DEFINE m == io[f].src - n
              g == Given(f, n)
  <1>1. m \in Ins
    BY DescriptorFields, Sizes DEF Ins
  <1>2. /\ g \in Descriptors /\ g.src = io[f].src /\ g.in = io[f].in
        /\ g.room = io[f].room - n /\ g.out = io[f].out + n /\ g.pipe = io[f].pipe
        /\ g.text = io[f].text
    BY GivenFields
  <1>3. Moved(f, n) = [g EXCEPT !.src = m]
    BY <1>2 DEF Moved
  <1>. HIDE DEF m, g
  <1>4. LET j == Moved(f, n)
        IN  /\ j \in Descriptors /\ j.src = m /\ j.in = g.in
            /\ j.room = g.room /\ j.out = g.out /\ j.pipe = g.pipe /\ j.text = g.text
    BY <1>1, <1>2, <1>3 DEF Descriptors
  <1>. QED
    BY <1>2, <1>4 DEF m

\* A record that has counted n more bytes.
LEMMA MoreTotal ==
  ASSUME NEW s \in States, NEW n \in Nat, s.total + n <= MaxIn
  PROVE  LET t == [s EXCEPT !.total = @ + n]
         IN  /\ t \in States /\ t.total = s.total + n /\ t.left = s.left /\ t.op = s.op
             /\ t.pc = s.pc /\ t.stage = s.stage /\ t.held = s.held
             /\ t.block = s.block /\ t.open = s.open
  <1>. DEFINE m == s.total + n
  <1>1. m \in Ins
    BY StateFields, Sizes DEF Ins
  <1>. HIDE DEF m
  <1>2. LET t == [s EXCEPT !.total = m]
        IN  /\ t \in States /\ t.total = m /\ t.left = s.left /\ t.op = s.op
            /\ t.pc = s.pc /\ t.stage = s.stage /\ t.held = s.held
            /\ t.block = s.block /\ t.open = s.open
    BY <1>1 DEF States
  <1>. QED
    BY <1>2 DEF m

LEMMA Backend_spliceKeeps ==
  ASSUME BackendInv, NEW f \in Fibers, Backend_splice(f)
  PROVE  BackendInv'
  <1>1. PICK o \in {"splice", "splice_to_eof"} :
        \/ Calls(f, o) /\ libev_wait_rw_fd_with_watcher(f, fs[f], {"r", "w"})
        \/ Calls(f, o) /\ Fails(f)
        \/ /\ Calls(f, o) /\ SpliceResult(f, BufLen) >= 0
           /\ LET n == SpliceResult(f, BufLen)
                  s == [fs[f] EXCEPT !.total = @ + n]
              IN  \/ Finishes(f, s, Moved(f, n))
                  \/ GoOn(f, s, Moved(f, n)) /\ UNCHANGED <<ws, sched, loop>>
        \/ Again(f, o)
        \/ FinalSnooze(f, o)
    BY DEF Backend_splice
  <1>2. /\ o \notin {"waitpid", "splice_chunks"} /\ o \notin AcceptOps /\ o \in PairOps
        /\ o \in SpliceOps
    BY DEF AcceptOps, PairOps, SpliceOps
  <1>3. CASE Calls(f, o) /\ libev_wait_rw_fd_with_watcher(f, fs[f], {"r", "w"})
    <2>1. {"r", "w"} = SidesOf(fs[f])
      BY <1>2, <1>3, AtCall DEF SidesOf
    <2>. QED
      BY <1>2, <1>3, <2>1, WaitPairKeeps
  <1>4. CASE Calls(f, o) /\ Fails(f)
    BY <1>2, <1>4, FailsKeeps
  <1>5. CASE /\ Calls(f, o) /\ SpliceResult(f, BufLen) >= 0
             /\ LET n == SpliceResult(f, BufLen)
                    s == [fs[f] EXCEPT !.total = @ + n]
                IN  \/ Finishes(f, s, Moved(f, n))
                    \/ GoOn(f, s, Moved(f, n)) /\ UNCHANGED <<ws, sched, loop>>
    <2>. DEFINE n == SpliceResult(f, BufLen)
                s == fs[f]
                i == io[f]
                t == [s EXCEPT !.total = @ + n]
                j == Moved(f, n)
    <2>1. s \in States /\ i \in Descriptors /\ s.op = o /\ CallInv(s, ws[f], i) /\ Opens(s)
          /\ s.pc = "call"
      BY <1>5, AtCall
    <2>2. n \in Nat /\ n <= i.src /\ n <= i.room
      BY <1>5, <2>1, Sizes, SpliceOutcome, EagainIsNegative
    <2>3. \/ Finishes(f, t, j)
          \/ GoOn(f, t, j) /\ UNCHANGED <<ws, sched, loop>>
      BY <1>5
    <2>4. /\ SpliceAccounts(s, i) /\ s.left = 0 /\ s.held = 0 /\ s.stage = "none"
          /\ i.pipe = 0 /\ i.text = 0
      BY <1>2, <2>1, AtSplice
    <2>5. /\ i.out \in Nat /\ i.room \in Nat /\ i.src \in Nat /\ i.in \in Nat /\ i.in <= MaxIn
          /\ s.total \in Nat /\ MaxIn \in Nat /\ MaxOut \in Nat
      BY <2>1, StateFields, DescriptorFields, Sizes
    <2>6. s.total + n <= MaxIn /\ i.room + i.out <= MaxOut
      BY <2>2, <2>4, <2>5 DEF SpliceAccounts
    <2>. HIDE DEF n
    <2>7. /\ t \in States /\ t.total = s.total + n /\ t.left = s.left /\ t.op = s.op
          /\ t.pc = s.pc /\ t.stage = s.stage /\ t.held = s.held
          /\ t.block = s.block /\ t.open = s.open
      BY <2>1, <2>2, <2>6, MoreTotal
    <2>8. /\ j \in Descriptors /\ j.src = i.src - n /\ j.in = i.in
          /\ j.room = i.room - n /\ j.out = i.out + n /\ j.pipe = i.pipe /\ j.text = i.text
      BY <2>1, <2>2, <2>6, MovedFields
    <2>. HIDE DEF t, j, s, i
    <2>9. SpliceAccounts(t, j)
      BY <2>2, <2>4, <2>5, <2>7, <2>8 DEF SpliceAccounts
    <2>10. CallInv(t, ws[f], j)
      BY <1>2, <2>1, <2>4, <2>7, <2>8, <2>9, SpliceKept
    <2>11. Opens(t)
      BY <2>1, <2>7 DEF Opens
    <2>12. t.block = fs[f].block /\ t.op \notin AcceptOps
      BY <1>2, <2>1, <2>7 DEF s
    <2>. QED
      BY <1>5, <2>3, <2>10, <2>11, <2>12, ProgressKeeps, FinishesKeeps
  <1>6. CASE Again(f, o)
    BY <1>2, <1>6, AgainKeeps
  <1>7. CASE FinalSnooze(f, o)
    BY <1>7, FinalSnoozeKeeps
  <1>. QED
    BY <1>1, <1>3, <1>4, <1>5, <1>6, <1>7

LEMMA Backend_teeKeeps ==
  ASSUME BackendInv, NEW f \in Fibers, Backend_tee(f)
  PROVE  BackendInv'
  <1>. DEFINE o == "tee"
  <1>1. /\ o \notin {"waitpid", "splice_chunks"} /\ o \notin AcceptOps /\ o \in PairOps
        /\ o \notin SpliceOps /\ o \notin ReadOps /\ o \notin WriteOps
    BY DEF AcceptOps, PairOps, SpliceOps, ReadOps, WriteOps
  <1>2. CASE Calls(f, o) /\ libev_wait_rw_fd_with_watcher(f, fs[f], {"r", "w"})
    <2>1. {"r", "w"} = SidesOf(fs[f])
      BY <1>2, AtCall DEF SidesOf
    <2>. QED
      BY <1>1, <1>2, <2>1, WaitPairKeeps
  <1>3. CASE Calls(f, o) /\ Fails(f)
    BY <1>3, FailsKeeps
  <1>4. CASE /\ Calls(f, o) /\ SpliceResult(f, BufLen) >= 0
             /\ Finishes(f, fs[f], Given(f, SpliceResult(f, BufLen)))
    <2>. DEFINE n == SpliceResult(f, BufLen)
                s == fs[f]
                i == io[f]
                j == Given(f, n)
    <2>1. s \in States /\ i \in Descriptors /\ s.op = o /\ CallInv(s, ws[f], i) /\ Opens(s)
          /\ s.pc = "call"
      BY <1>4, AtCall
    <2>2. n \in Nat /\ n <= i.room
      BY <1>4, <2>1, Sizes, SpliceOutcome, EagainIsNegative
    <2>3. Finishes(f, s, j)
      BY <1>4
    <2>4. i.room + i.out <= MaxOut /\ i.room \in Nat /\ i.out \in Nat /\ MaxOut \in Nat
      BY <2>1, DescriptorFields, Sizes DEF CallInv, Accounts
    <2>. HIDE DEF n
    <2>5. /\ j \in Descriptors /\ j.src = i.src /\ j.in = i.in
          /\ j.room = i.room - n /\ j.out = i.out + n /\ j.pipe = i.pipe /\ j.text = i.text
      BY <2>1, <2>2, <2>4, GivenFields
    <2>. HIDE DEF j, s, i
    <2>6. Shape(s, ws[f], j)
      BY <2>1, <2>5 DEF CallInv, Shape
    <2>7. Accounts(s, j)
      <3>1. j.room + j.out <= MaxOut
        BY <2>2, <2>4, <2>5
      <3>. QED
        BY <1>1, <2>1, <2>5, <3>1 DEF CallInv, Accounts
    <2>8. CallInv(s, ws[f], j)
      BY <2>1, <2>5, <2>6, <2>7, CallKept
    <2>9. s.block = fs[f].block /\ s.op \notin AcceptOps
      BY <1>1, <2>1 DEF s
    <2>. QED
      BY <1>4, <2>1, <2>3, <2>8, <2>9, FinishesKeeps
  <1>5. CASE Again(f, o)
    BY <1>1, <1>5, AgainKeeps
  <1>6. CASE FinalSnooze(f, o)
    BY <1>6, FinalSnoozeKeeps
  <1>. QED
    BY <1>2, <1>3, <1>4, <1>5, <1>6 DEF Backend_tee

\* What a copy or a chunked splice has read is counted, and left to be written.
LEMMA ReadInto ==
  ASSUME NEW s \in States, NEW n \in Nat, s.total + n <= MaxIn, n <= BufLen
  PROVE  LET t == [s EXCEPT !.total = @ + n, !.left = n]
         IN  /\ t \in States /\ t.total = s.total + n /\ t.left = n /\ t.op = s.op
             /\ t.pc = s.pc /\ t.stage = s.stage /\ t.held = s.held
             /\ t.block = s.block /\ t.open = s.open
  <1>. DEFINE m == s.total + n
  <1>1. m \in Ins /\ n \in Amounts
    BY StateFields, Sizes DEF Ins, Amounts
  <1>. HIDE DEF m
  <1>2. LET t == [s EXCEPT !.total = m, !.left = n]
        IN  /\ t \in States /\ t.total = m /\ t.left = n /\ t.op = s.op
            /\ t.pc = s.pc /\ t.stage = s.stage /\ t.held = s.held
            /\ t.block = s.block /\ t.open = s.open
    BY <1>1 DEF States
  <1>. QED
    BY <1>2 DEF m

LEMMA copyKeeps ==
  ASSUME BackendInv, NEW f \in Fibers, copy(f)
  PROVE  BackendInv'
  <1>. DEFINE s == fs[f]
              i == io[f]
              n == IF s.left = 0 THEN ReadResult(f, BufLen) ELSE WriteResult(f, s.left)
              t == [s EXCEPT !.total = @ + n, !.left = n]
              u == [s EXCEPT !.left = @ - n]
  <1>1. PICK o \in CopyOps :
            \/ \E want \in {"src", "dest"} :
                  Calls(f, o) /\ libev_wait_fd_with_watcher(f, s, want)
            \/ Calls(f, o) /\ Fails(f)
            \/ Calls(f, o) /\ Finishes(f, s, i)
            \/ /\ Calls(f, o) /\ s.left = 0 /\ n > 0 /\ GoOn(f, t, Taken(f, n))
               /\ UNCHANGED <<ws, sched, loop>>
            \/ /\ Calls(f, o) /\ s.left > 0 /\ n > 0
               /\ \/ Finishes(f, u, Given(f, n))
                  \/ GoOn(f, u, Given(f, n)) /\ UNCHANGED <<ws, sched, loop>>
            \/ Again(f, o)
            \/ FinalSnooze(f, o)
    BY DEF copy, CopyOps
  <1>2. /\ o \notin {"waitpid", "splice_chunks"} /\ o \notin AcceptOps
        /\ o \in SpliceOps /\ o \notin {"splice", "splice_to_eof"}
        /\ \A want \in {"src", "dest"} : Suits(o, want)
    BY DEF AcceptOps, SpliceOps, CopyOps, Suits
  <1>3. CASE \E want \in {"src", "dest"} :
                 Calls(f, o) /\ libev_wait_fd_with_watcher(f, s, want)
    BY <1>2, <1>3, WaitFdKeeps
  <1>4. CASE Calls(f, o) /\ Fails(f)
    BY <1>2, <1>4, FailsKeeps
  <1>5. CASE Calls(f, o) /\ Finishes(f, s, i)
    BY <1>2, <1>5, AtCall, FinishesKeeps
  <1>6. ASSUME Calls(f, o), n > 0
        PROVE  /\ s \in States /\ i \in Descriptors /\ s.op = o /\ CallInv(s, ws[f], i) /\ Opens(s)
               /\ s.pc = "call" /\ SpliceAccounts(s, i) /\ s.held = 0 /\ s.stage = "none"
               /\ i.pipe = 0 /\ i.text = 0
               /\ i.out \in Nat /\ i.room \in Nat /\ i.src \in Nat /\ i.in \in Nat /\ i.in <= MaxIn
               /\ s.total \in Nat /\ s.left \in Nat /\ MaxIn \in Nat /\ MaxOut \in Nat
               /\ n \in Nat /\ n <= BufLen
               /\ s.left = 0 => n <= i.src /\ s.total + n <= MaxIn
               /\ s.left > 0 => n <= s.left /\ n <= i.room
    <2>1. s \in States /\ i \in Descriptors /\ s.op = o /\ CallInv(s, ws[f], i) /\ Opens(s)
          /\ s.pc = "call"
      BY <1>6, AtCall
    <2>2. /\ SpliceAccounts(s, i) /\ s.held = 0 /\ s.stage = "none" /\ i.pipe = 0 /\ i.text = 0
      BY <1>2, <2>1, AtSplice
    <2>3. /\ i.out \in Nat /\ i.room \in Nat /\ i.src \in Nat /\ i.in \in Nat /\ i.in <= MaxIn
          /\ s.total \in Nat /\ s.left \in Nat /\ s.left <= BufLen /\ BufLen \in Nat
          /\ MaxIn \in Nat /\ MaxOut \in Nat
      BY <2>1, StateFields, DescriptorFields, Sizes
    <2>4. CASE s.left = 0
      <3>1. n \in Nat /\ n <= BufLen /\ n <= i.src
        BY <1>6, <2>1, <2>3, <2>4, ReadOutcome, EagainIsNegative
      <3>2. s.total + n <= MaxIn
        BY <3>1, <2>2, <2>3 DEF SpliceAccounts
      <3>. QED
        BY <2>1, <2>2, <2>3, <2>4, <3>1, <3>2
    <2>5. CASE s.left > 0
      <3>1. n \in Nat /\ n <= s.left /\ n <= i.room
        BY <1>6, <2>1, <2>3, <2>5, WriteOutcome, EagainIsNegative
      <3>. QED
        BY <2>1, <2>2, <2>3, <2>5, <3>1
    <2>. QED
      BY <2>3, <2>4, <2>5
  <1>. HIDE DEF n, s, i
  <1>7. CASE /\ Calls(f, o) /\ s.left = 0 /\ n > 0 /\ GoOn(f, t, Taken(f, n))
             /\ UNCHANGED <<ws, sched, loop>>
    <2>. DEFINE j == Taken(f, n)
    <2>1. /\ t \in States /\ t.total = s.total + n /\ t.left = n /\ t.op = s.op
          /\ t.pc = s.pc /\ t.stage = s.stage /\ t.held = s.held
          /\ t.block = s.block /\ t.open = s.open
      BY <1>6, <1>7, ReadInto
    <2>2. /\ j \in Descriptors /\ j.src = i.src - n /\ j.in = i.in
          /\ j.room = i.room /\ j.out = i.out /\ j.pipe = i.pipe /\ j.text = i.text
      BY <1>6, <1>7, TakenFields DEF i
    <2>. HIDE DEF t, j
    <2>3. SpliceAccounts(t, j)
      BY <1>6, <1>7, <2>1, <2>2 DEF SpliceAccounts
    <2>4. CallInv(t, ws[f], j)
      BY <1>2, <1>6, <1>7, <2>1, <2>2, <2>3, SpliceKept
    <2>5. Opens(t)
      BY <1>6, <1>7, <2>1 DEF Opens
    <2>. QED
      BY <1>7, <2>4, <2>5, ProgressKeeps DEF j
  <1>8. CASE /\ Calls(f, o) /\ s.left > 0 /\ n > 0
             /\ \/ Finishes(f, u, Given(f, n))
                \/ GoOn(f, u, Given(f, n)) /\ UNCHANGED <<ws, sched, loop>>
    <2>. DEFINE j == Given(f, n)
    <2>1. /\ u \in States /\ u.left = s.left - n /\ u.op = s.op /\ u.pc = s.pc
          /\ u.stage = s.stage /\ u.total = s.total /\ u.held = s.held
          /\ u.block = s.block /\ u.open = s.open
      BY <1>6, <1>8, LessLeft
    <2>2. /\ j \in Descriptors /\ j.src = i.src /\ j.in = i.in
          /\ j.room = i.room - n /\ j.out = i.out + n /\ j.pipe = i.pipe /\ j.text = i.text
      <3>1. i.room + i.out <= MaxOut
        BY <1>6, <1>8 DEF SpliceAccounts
      <3>. QED
        BY <1>6, <1>8, <3>1, GivenFields DEF i
    <2>. HIDE DEF u, j
    <2>3. SpliceAccounts(u, j)
      BY <1>6, <1>8, <2>1, <2>2 DEF SpliceAccounts
    <2>4. CallInv(u, ws[f], j)
      BY <1>2, <1>6, <1>8, <2>1, <2>2, <2>3, SpliceKept
    <2>5. Opens(u) /\ u.op \notin AcceptOps /\ u.block = fs[f].block
      BY <1>2, <1>6, <1>8, <2>1 DEF Opens, s
    <2>. QED
      BY <1>8, <2>4, <2>5, ProgressKeeps, FinishesKeeps DEF j
  <1>9. CASE Again(f, o)
    BY <1>2, <1>9, AgainKeeps
  <1>10. CASE FinalSnooze(f, o)
    BY <1>10, FinalSnoozeKeeps
  <1>. QED
    BY <1>1, <1>3, <1>4, <1>5, <1>7, <1>8, <1>9, <1>10

\* A step of splice_chunks, in terms of its record and its descriptors.
LEMMA ChunkProgress ==
  ASSUME BackendInv, NEW f \in Fibers, Calls(f, "splice_chunks"),
         NEW t \in States, NEW j \in Descriptors,
         t.op = "splice_chunks", t.pc = "call", t.block = fs[f].block, t.held = 0,
         SpliceAccounts(t, j), j.pipe = t.left, t.stage \notin {"cprefix", "out"} => t.left = 0,
         \/ GoOn(f, t, j) /\ UNCHANGED <<ws, sched, loop>>
         \/ Finishes(f, t, j)
  PROVE  BackendInv'
  <1>1. "splice_chunks" \in SpliceOps /\ "splice_chunks" \notin AcceptOps
    BY DEF SpliceOps, AcceptOps
  <1>2. CallInv(fs[f], ws[f], io[f]) /\ fs[f].op = "splice_chunks"
    BY AtCall
  <1>3. CallInv(t, ws[f], j)
    BY <1>1, <1>2, SpliceKept
  <1>4. Opens(t)
    BY DEF Opens
  <1>. QED
    BY <1>1, <1>3, <1>4, ProgressKeeps, FinishesKeeps

LEMMA AtChunk ==
  ASSUME BackendInv, NEW f \in Fibers, Calls(f, "splice_chunks")
  PROVE  LET s == fs[f]
             i == io[f]
         IN  /\ s \in States /\ i \in Descriptors /\ s.op = "splice_chunks"
             /\ s.pc = "call" /\ SpliceAccounts(s, i) /\ s.held = 0 /\ i.pipe = s.left
             /\ s.stage \notin {"cprefix", "out"} => s.left = 0
             /\ i.out \in Nat /\ i.room \in Nat /\ i.src \in Nat /\ i.in \in Nat /\ i.in <= MaxIn
             /\ i.text \in Nat /\ s.total \in Nat /\ s.left \in Nat /\ s.left <= BufLen
             /\ MaxIn \in Nat /\ MaxOut \in Nat /\ BufLen \in Nat /\ i.room + i.out <= MaxOut
  <1>1. "splice_chunks" \in SpliceOps
    BY DEF SpliceOps
  <1>2. /\ fs[f] \in States /\ io[f] \in Descriptors /\ fs[f].op = "splice_chunks"
        /\ CallInv(fs[f], ws[f], io[f]) /\ fs[f].pc = "call"
    BY AtCall
  <1>3. /\ SpliceAccounts(fs[f], io[f]) /\ fs[f].held = 0 /\ io[f].pipe = fs[f].left
        /\ fs[f].stage \notin {"cprefix", "out"} => fs[f].left = 0
    BY <1>1, <1>2, AtSplice
  <1>4. io[f].room + io[f].out <= MaxOut
    BY <1>3 DEF SpliceAccounts
  <1>. QED
    BY <1>2, <1>3, <1>4, StateFields, DescriptorFields, Sizes

LEMMA splice_chunks_writeKeeps ==
  ASSUME BackendInv, NEW f \in Fibers, Calls(f, "splice_chunks"), splice_chunks_write(f)
  PROVE  BackendInv'
  <1>. DEFINE s == fs[f]
              i == io[f]
              j == [Given(f, 1) EXCEPT !.text = @ + 1]
  <1>1. s.stage \in {"prefix", "cprefix", "cpostfix", "postfix"}
    BY DEF splice_chunks_write
  <1>2. CASE libev_wait_rw_fd_with_watcher(f, s, {"w"})
    <2>1. {"w"} = SidesOf(s) /\ "splice_chunks" \in PairOps
      BY <1>1, AtChunk DEF SidesOf, PairOps
    <2>. QED
      BY <1>2, <2>1, WaitPairKeeps
  <1>3. ASSUME i.room > 0
        PROVE  /\ j \in Descriptors /\ j.src = i.src /\ j.in = i.in
               /\ j.room = i.room - 1 /\ j.out = i.out + 1 /\ j.pipe = i.pipe
               /\ j.text = i.text + 1
    <2>. DEFINE g == Given(f, 1)
                m == g.text + 1
    <2>1. /\ g \in Descriptors /\ g.src = i.src /\ g.in = i.in
          /\ g.room = i.room - 1 /\ g.out = i.out + 1 /\ g.pipe = i.pipe
          /\ g.text = i.text
      BY <1>3, AtChunk, GivenFields
    <2>2. m \in Nat
      BY <2>1, AtChunk
    <2>3. j = [g EXCEPT !.text = m]
      OBVIOUS
    <2>. HIDE DEF g, m, j
    <2>4. /\ j \in Descriptors /\ j.src = g.src /\ j.in = g.in
          /\ j.room = g.room /\ j.out = g.out /\ j.pipe = g.pipe /\ j.text = m
      BY <2>1, <2>2, <2>3 DEF Descriptors
    <2>. QED
      BY <2>1, <2>4 DEF m
  <1>4. ASSUME i.room > 0, NEW t \in States, t.op = "splice_chunks", t.pc = "call",
               t.block = s.block, t.held = s.held, t.left = s.left, t.total = s.total,
               t.stage \notin {"cprefix", "out"} => s.left = 0,
               \/ GoOn(f, t, j) /\ UNCHANGED <<ws, sched, loop>>
               \/ Finishes(f, t, j)
        PROVE  BackendInv'
    <2>1. SpliceAccounts(t, j) /\ j.pipe = t.left /\ t.held = 0
      BY <1>3, <1>4, AtChunk DEF SpliceAccounts
    <2>. HIDE DEF j
    <2>. QED
      BY <1>3, <1>4, <2>1, ChunkProgress
  <1>5. CASE i.room > 0 /\ s.stage = "postfix" /\ Finishes(f, [s EXCEPT !.stage = "end"], j)
    <2>. DEFINE t == [s EXCEPT !.stage = "end"]
    <2>1. /\ t \in States /\ t.op = "splice_chunks" /\ t.pc = "call"
          /\ t.block = s.block /\ t.held = s.held /\ t.left = s.left /\ t.total = s.total
          /\ t.stage = "end"
      BY AtChunk DEF States, Stages
    <2>2. s.left = 0
      BY <1>5, AtChunk
    <2>. HIDE DEF j, t
    <2>. QED
      BY <1>4, <1>5, <2>1, <2>2 DEF t
  <1>6. CASE /\ i.room > 0 /\ s.stage # "postfix" /\ GoOn(f, [s EXCEPT !.stage = Following[@]], j)
             /\ UNCHANGED <<ws, sched, loop>>
    <2>. DEFINE h == Following[s.stage]
                t == [s EXCEPT !.stage = h]
    <2>1. h \in Stages /\ (h = "in" => s.left = 0) /\ h \in {"in", "out"}
      BY <1>1, <1>6, AtChunk DEF Following, Stages
    <2>2. GoOn(f, t, j)
      BY <1>6
    <2>. HIDE DEF h
    <2>3. /\ t \in States /\ t.op = "splice_chunks" /\ t.pc = "call"
          /\ t.block = s.block /\ t.held = s.held /\ t.left = s.left /\ t.total = s.total
          /\ t.stage = h
      BY <2>1, AtChunk DEF States
    <2>. HIDE DEF j, t
    <2>. QED
      BY <1>4, <1>6, <2>1, <2>2, <2>3
  <1>. QED
    BY <1>2, <1>5, <1>6 DEF splice_chunks_write

LEMMA splice_chunks_spliceKeeps ==
  ASSUME BackendInv, NEW f \in Fibers, Calls(f, "splice_chunks"), splice_chunks_splice(f)
  PROVE  BackendInv'
  <1>. DEFINE s == fs[f]
              i == io[f]
              n == IF s.stage = "in" THEN ReadResult(f, BufLen) ELSE WriteResult(f, s.left)
  <1>1. s.stage \in {"in", "out"}
    BY DEF splice_chunks_splice
  <1>2. CASE libev_wait_rw_fd_with_watcher(f, s, {"r", "w"})
    <2>1. {"r", "w"} = SidesOf(s) /\ "splice_chunks" \in PairOps
      BY <1>1, AtChunk DEF SidesOf, PairOps
    <2>. QED
      BY <1>2, <2>1, WaitPairKeeps
  <1>3. CASE /\ s.stage = "in" /\ GoOn(f, [s EXCEPT !.stage = "postfix"], i)
             /\ UNCHANGED <<ws, sched, loop>>
    <2>. DEFINE t == [s EXCEPT !.stage = "postfix"]
    <2>1. /\ t \in States /\ t.op = "splice_chunks" /\ t.pc = "call"
          /\ t.block = s.block /\ t.held = s.held /\ t.left = s.left /\ t.total = s.total
          /\ t.stage = "postfix"
      BY AtChunk DEF States, Stages
    <2>. HIDE DEF t
    <2>2. SpliceAccounts(t, i) /\ i.pipe = t.left /\ t.left = 0 /\ t.held = 0
      BY <1>3, <2>1, AtChunk DEF SpliceAccounts
    <2>. QED
      BY <1>3, <2>1, <2>2, AtChunk, ChunkProgress DEF t
  <1>4. CASE /\ s.stage = "in" /\ n > 0
             /\ GoOn(f, [s EXCEPT !.stage = "cprefix", !.total = @ + n, !.left = n],
                     [Taken(f, n) EXCEPT !.pipe = n])
             /\ UNCHANGED <<ws, sched, loop>>
    <2>. DEFINE r == [s EXCEPT !.total = @ + n, !.left = n]
                t == [s EXCEPT !.stage = "cprefix", !.total = @ + n, !.left = n]
                k == Taken(f, n)
                j == [k EXCEPT !.pipe = n]
    <2>1. n \in Nat /\ n <= BufLen /\ n <= i.src
      BY <1>4, AtChunk, ReadOutcome, EagainIsNegative
    <2>2. s.total + n <= MaxIn /\ s.left = 0
      BY <1>4, <2>1, AtChunk DEF SpliceAccounts
    <2>3. GoOn(f, t, j)
      BY <1>4
    <2>. HIDE DEF n
    <2>4. n \in Amounts
      BY <2>1, Sizes DEF Amounts
    <2>5. /\ r \in States /\ r.total = s.total + n /\ r.left = n /\ r.op = s.op
          /\ r.pc = s.pc /\ r.held = s.held /\ r.block = s.block
      <3>1. s \in States
        BY AtChunk
      <3>. HIDE DEF s
      <3>. QED
        BY <2>1, <2>2, <3>1, ReadInto
    <2>6. t = [r EXCEPT !.stage = "cprefix"]
      BY AtChunk DEF States
    <2>7. /\ k \in Descriptors /\ k.src = i.src - n /\ k.in = i.in
          /\ k.room = i.room /\ k.out = i.out /\ k.text = i.text
      BY <2>1, AtChunk, TakenFields
    <2>. HIDE DEF t, r, k
    <2>8. /\ t \in States /\ t.total = r.total /\ t.left = r.left /\ t.op = r.op
          /\ t.pc = r.pc /\ t.held = r.held /\ t.block = r.block /\ t.stage = "cprefix"
      BY <2>5, <2>6 DEF States, Stages
    <2>9. /\ j \in Descriptors /\ j.src = k.src /\ j.in = k.in /\ j.room = k.room
          /\ j.out = k.out /\ j.text = k.text /\ j.pipe = n
      BY <2>4, <2>7 DEF Descriptors
    <2>. HIDE DEF j
    <2>10. SpliceAccounts(t, j)
      BY <2>1, <2>2, <2>5, <2>7, <2>8, <2>9, AtChunk DEF SpliceAccounts
    <2>. QED
      BY <1>4, <2>3, <2>5, <2>8, <2>9, <2>10, AtChunk, ChunkProgress
  <1>5. CASE /\ s.stage = "out" /\ n > 0
             /\ GoOn(f, [s EXCEPT !.left = @ - n, !.stage = IF s.left = n THEN "cpostfix" ELSE @],
                     [Given(f, n) EXCEPT !.pipe = @ - n])
             /\ UNCHANGED <<ws, sched, loop>>
    <2>. DEFINE g == IF s.left = n THEN "cpostfix" ELSE s.stage
                r == [s EXCEPT !.left = @ - n]
                t == [s EXCEPT !.left = @ - n, !.stage = g]
                k == Given(f, n)
                m == k.pipe - n
                j == [k EXCEPT !.pipe = m]
    <2>1. n \in Nat /\ n <= s.left /\ n <= i.room
      BY <1>5, AtChunk, WriteOutcome, EagainIsNegative
    <2>2. GoOn(f, t, j)
      BY <1>5
    <2>. HIDE DEF n
    <2>3. /\ r \in States /\ r.left = s.left - n /\ r.op = s.op /\ r.pc = s.pc
          /\ r.total = s.total /\ r.held = s.held /\ r.block = s.block
      BY <2>1, AtChunk, LessLeft
    <2>4. t = [r EXCEPT !.stage = g]
      BY AtChunk DEF States
    <2>5. g \in Stages /\ (g \notin {"cprefix", "out"} => s.left = n)
      BY <1>5 DEF Stages
    <2>6. /\ k \in Descriptors /\ k.src = i.src /\ k.in = i.in /\ k.pipe = i.pipe
          /\ k.room = i.room - n /\ k.out = i.out + n /\ k.text = i.text
      BY <2>1, AtChunk, GivenFields
    <2>. HIDE DEF t, r, k, g
    <2>7. m \in Amounts /\ m = s.left - n
      BY <2>1, <2>6, AtChunk DEF Amounts
    <2>8. /\ t \in States /\ t.total = r.total /\ t.left = r.left /\ t.op = r.op
          /\ t.pc = r.pc /\ t.held = r.held /\ t.block = r.block /\ t.stage = g
      BY <2>3, <2>4, <2>5 DEF States
    <2>. HIDE DEF m
    <2>9. /\ j \in Descriptors /\ j.src = k.src /\ j.in = k.in /\ j.room = k.room
          /\ j.out = k.out /\ j.text = k.text /\ j.pipe = m
      BY <2>6, <2>7 DEF Descriptors
    <2>. HIDE DEF j
    <2>10. SpliceAccounts(t, j) /\ j.pipe = t.left /\ (t.stage \notin {"cprefix", "out"} => t.left = 0)
      BY <2>1, <2>3, <2>5, <2>6, <2>7, <2>8, <2>9, AtChunk DEF SpliceAccounts
    <2>. QED
      BY <1>5, <2>2, <2>3, <2>8, <2>9, <2>10, AtChunk, ChunkProgress
  <1>. QED
    BY <1>2, <1>3, <1>4, <1>5 DEF splice_chunks_splice

LEMMA Backend_splice_chunksKeeps ==
  ASSUME BackendInv, NEW f \in Fibers, Backend_splice_chunks(f)
  PROVE  BackendInv'
  <1>. DEFINE o == "splice_chunks"
              s == fs[f]
  <1>1. CASE /\ Calls(f, o) /\ s.stage = "none"
             /\ GoOn(f, [s EXCEPT !.stage = "prefix", !.open = 2], io[f])
             /\ UNCHANGED <<ws, sched, loop>>
    <2>. DEFINE t == [s EXCEPT !.stage = "prefix", !.open = 2]
    <2>1. 2 \in Opened
      BY DEF Opened
    <2>2. /\ t \in States /\ t.op = "splice_chunks" /\ t.pc = "call"
          /\ t.block = s.block /\ t.held = s.held /\ t.left = s.left /\ t.total = s.total
          /\ t.stage = "prefix"
      BY <1>1, <2>1, AtChunk DEF States, Stages
    <2>. HIDE DEF t
    <2>3. SpliceAccounts(t, io[f]) /\ io[f].pipe = t.left /\ t.left = 0 /\ t.held = 0
      BY <1>1, <2>2, AtChunk DEF SpliceAccounts
    <2>. QED
      BY <1>1, <2>2, <2>3, AtChunk, ChunkProgress DEF t
  <1>2. CASE Calls(f, o) /\ Raise(f, Closed(s), ws[f]) /\ UNCHANGED <<sched, loop>>
    <2>1. Leavable(Closed(s), ws[f])
      BY <1>2, AtCall, ClosedFields DEF Leavable
    <2>2. Cleared(f) /\ Controls(f) /\ UNCHANGED loop
      BY <1>2, AtCall, RunningCleared
    <2>. QED
      BY <1>2, <2>1, <2>2, RaiseKeeps
  <1>3. CASE Calls(f, o) /\ splice_chunks_write(f)
    BY <1>3, splice_chunks_writeKeeps
  <1>4. CASE Calls(f, o) /\ splice_chunks_splice(f)
    BY <1>4, splice_chunks_spliceKeeps
  <1>5. CASE BackRaises(f, o, "wait", Closed(s)) \/ BackCalls(f, o, "wait", s)
    <2>1. Resumes(f, o, "wait")
      BY <1>5 DEF BackRaises, BackCalls, Comeback
    <2>2. s \in States /\ s.held = 0
      BY <2>1, AtResume DEF FiberInv, Accounts
    <2>3. CASE BackRaises(f, o, "wait", Closed(s))
      BY <2>2, <2>3, ClosedFields, BackLeaves
    <2>4. CASE BackCalls(f, o, "wait", s)
      BY <2>2, <2>4, CallsAgain
    <2>. QED
      BY <1>5, <2>3, <2>4
  <1>6. CASE FinalSnooze(f, o)
    BY <1>6, FinalSnoozeKeeps
  <1>7. Comes(f, "splice_chunks", "wait", Closed(fs[f]),
              LAMBDA w : GoOn(f, fs[f], io[f]) /\ ws' = [ws EXCEPT ![f] = w])
        => BackRaises(f, o, "wait", Closed(s)) \/ BackCalls(f, o, "wait", s)
    BY DEF Comes, BackRaises, BackCalls, Comeback
  <1>. QED
    BY <1>1, <1>2, <1>3, <1>4, <1>5, <1>6, <1>7 DEF Backend_splice_chunks

----------------------------------------------------------------------------
(* The other operations *)

\* Operations that wait once and return: a descriptor, a timer, a child, an
\* event, a snooze.
LEMMA WaitingKeeps ==
  ASSUME BackendInv, NEW f \in Fibers,
         \/ libev_wait_fd(f) \/ Backend_sleep(f) \/ waitpid_child(f) \/ Backend_wait_event(f)
         \/ Backend_snooze(f)
  PROVE  BackendInv'
  <1>. DEFINE Ops == {"wait_io", "sleep", "waitpid_child", "wait_event", "snooze"}
  <1>0. pipe \in BOOLEAN
    BY DEF BackendInv, Functions
  <1>1. ASSUME NEW o \in Ops, NEW p \in {"wait", "snooze"},
               BackRaises(f, o, p, fs[f]) \/ BackReturns(f, o, p, fs[f])
        PROVE  BackendInv'
    <2>1. o \notin {"splice_chunks", "waitpid"} /\ o \notin AcceptOps
      BY DEF AcceptOps
    <2>. QED
      BY <1>1, <2>1, ReturnsAfter
  <1>2. CASE libev_wait_fd(f)
    <2>1. CASE Calls(f, "wait_io") /\ libev_wait_fd_with_watcher(f, fs[f], "src")
      <3>1. Suits("wait_io", "src")
        BY DEF Suits, SrcOps
      <3>. QED
        BY <2>1, <3>1, WaitFdKeeps
    <2>2. CASE \/ BackRaises(f, "wait_io", "wait", fs[f])
               \/ BackReturns(f, "wait_io", "wait", fs[f])
      BY <1>1, <2>2
    <2>. QED
      BY <1>2, <2>1, <2>2 DEF libev_wait_fd, Comes, BackRaises, BackReturns, Comeback
  <1>3. CASE Backend_sleep(f)
    <2>1. CASE Calls(f, "sleep") /\ WaitsOn(f, "timer") /\ UNCHANGED pipe
      BY <1>0, <2>1, WaitsOnKeeps
    <2>2. CASE BackRaises(f, "sleep", "wait", fs[f]) \/ BackReturns(f, "sleep", "wait", fs[f])
      BY <1>1, <2>2
    <2>. QED
      BY <1>3, <2>1, <2>2 DEF Backend_sleep, WaitsOnce, Comes, BackRaises, BackReturns, Comeback
  <1>4. CASE waitpid_child(f)
    <2>1. CASE Calls(f, "waitpid_child") /\ WaitsOn(f, "child") /\ UNCHANGED pipe
      BY <1>0, <2>1, WaitsOnKeeps
    <2>2. CASE \/ BackRaises(f, "waitpid_child", "wait", fs[f])
               \/ BackReturns(f, "waitpid_child", "wait", fs[f])
      BY <1>1, <2>2
    <2>. QED
      BY <1>4, <2>1, <2>2 DEF waitpid_child, WaitsOnce, Comes, BackRaises, BackReturns, Comeback
  <1>5. CASE Backend_wait_event(f)
    <2>1. CASE Calls(f, "wait_event") /\ WaitsOn(f, "async") /\ pipe' = TRUE
      BY <2>1, WaitsOnKeeps
    <2>2. CASE \/ BackRaises(f, "wait_event", "wait", fs[f])
               \/ BackReturns(f, "wait_event", "wait", fs[f])
      BY <1>1, <2>2
    <2>. QED
      BY <1>5, <2>1, <2>2 DEF Backend_wait_event, Comes, BackRaises, BackReturns, Comeback
  <1>6. CASE Backend_snooze(f)
    <2>1. CASE Calls(f, "snooze") /\ backend_snooze(f, fs[f], io[f])
      <3>1. "snooze" \notin AcceptOps
        BY DEF AcceptOps
      <3>. QED
        BY <2>1, <3>1, AtCall, YieldKeeps
    <2>2. CASE BackRaises(f, "snooze", "snooze", fs[f]) \/ BackReturns(f, "snooze", "snooze", fs[f])
      BY <1>1, <2>2
    <2>. QED
      BY <1>6, <2>1, <2>2 DEF Backend_snooze, Comes, BackRaises, BackReturns, Comeback
  <1>. QED
    BY <1>2, <1>3, <1>4, <1>5, <1>6

LEMMA Backend_waitpidKeeps ==
  ASSUME BackendInv, NEW f \in Fibers, Backend_waitpid(f)
  PROVE  BackendInv'
  <1>. DEFINE s == [fs[f] EXCEPT !.open = 1]
              t == [s EXCEPT !.pc = "wait"]
              x == FdWatch(ws[f], "src")
  <1>1. CASE Calls(f, "waitpid") /\ libev_wait_fd_with_watcher(f, s, "src")
    <2>1. fs[f] \in States /\ io[f] \in Descriptors /\ fs[f].op = "waitpid" /\ fs[f].pc = "call"
          /\ CallInv(fs[f], ws[f], io[f])
      BY <1>1, AtCall
    <2>2. 1 \in Opened
      BY DEF Opened
    <2>3. /\ s \in States /\ s.op = "waitpid" /\ s.pc = "call" /\ s.block = fs[f].block
          /\ s.stage = fs[f].stage /\ s.left = fs[f].left /\ s.total = fs[f].total
          /\ s.held = fs[f].held /\ s.rest = fs[f].rest
      BY <2>1, <2>2 DEF States
    <2>4. t.pc = "wait" /\ t.op = "waitpid"
      BY <2>3 DEF States
    <2>. HIDE DEF s
    <2>5. Shape(s, ws[f], io[f])
      BY <2>1, <2>3 DEF CallInv, Shape, Idle
    <2>6. Accounts(s, io[f])
      BY <2>1, <2>3 DEF CallInv, Accounts
    <2>7. CallInv(s, ws[f], io[f])
      BY <2>1, <2>3, <2>5, <2>6, CallKept
    <2>8. Opens(t) /\ Suits("waitpid", "src")
      BY <2>4 DEF Opens, Suits, SrcOps
    <2>9. FiberInv(t, x, io[f], NoValue)
      BY <2>3, <2>7, <2>8, WaitFdInv
    <2>10. cur = f /\ backend_await(f, s, x) /\ UNCHANGED <<polling, woken>> /\ pipe' \in BOOLEAN
      BY <1>1, AtCall DEF libev_wait_fd_with_watcher, FdWatch, loop, BackendInv, Functions
    <2>. HIDE DEF x
    <2>. QED
      BY <2>4, <2>9, <2>10, AwaitKeeps
  <1>2. CASE Calls(f, "waitpid") /\ Fails(f)
    BY <1>2, FailsKeeps
  <1>3. CASE \/ BackRaises(f, "waitpid", "wait", Closed(fs[f]))
             \/ BackReturns(f, "waitpid", "wait", Closed(fs[f]))
    BY <1>3, Unpacked, ClosedFields, BackLeaves
  <1>. QED
    BY <1>1, <1>2, <1>3 DEF Backend_waitpid, Comes, BackRaises, BackReturns, Comeback

LEMMA Backend_timer_loopKeeps ==
  ASSUME BackendInv, NEW f \in Fibers, Backend_timer_loop(f)
  PROVE  BackendInv'
  <1>. DEFINE o == "timer_loop"
              t == [fs[f] EXCEPT !.total = 1]
              u == [t EXCEPT !.pc = "call"]
  <1>0. pipe \in BOOLEAN /\ o \notin AcceptOps
    BY DEF BackendInv, Functions, AcceptOps
  <1>1. CASE Calls(f, o) /\ WaitsOn(f, "timer") /\ UNCHANGED pipe
    BY <1>0, <1>1, WaitsOnKeeps
  <1>2. CASE Calls(f, o) /\ backend_snooze(f, fs[f], io[f])
    BY <1>0, <1>2, AtCall, YieldKeeps
  <1>3. ASSUME NEW p \in {"wait", "snooze"}, BackRaises(f, o, p, fs[f]) \/ BackCalls(f, o, p, t)
        PROVE  BackendInv'
    <2>1. CASE BackRaises(f, o, p, fs[f])
      BY <1>0, <2>1, ReturnsAfter
    <2>2. CASE BackCalls(f, o, p, t)
      <3>. DEFINE s == fs[f]
                  r == [s EXCEPT !.pc = "call"]
      <3>1. Resumes(f, o, p) /\ ~IS_EXCEPTION(sched[f])
        BY <2>2 DEF BackCalls, Comeback
      <3>2. s \in States /\ s.op = o /\ FiberInv(s, ws[f], io[f], sched[f]) /\ s.pc = p
        BY <3>1, AtResume
      <3>3. s.held = 0 /\ s.open = 0
        <4>1. o \notin ReadOps /\ o \notin AcceptOps
          BY DEF ReadOps, AcceptOps
        <4>2. s.open = 0
          BY <1>0, <3>2 DEF FiberInv, Opens
        <4>3. s.held = 0
          BY <3>2, <4>1 DEF FiberInv, Accounts
        <4>. QED
          BY <4>2, <4>3
      <3>4. 1 \in Ins
        BY Sizes DEF Ins
      <3>5. CallInv(r, Stopped(f), io[f])
        BY <3>1, <3>2, <3>3, ResumedInv DEF Stopped
      <3>6. /\ u \in States /\ u.op = o /\ u.pc = "call" /\ u.total = 1 /\ u.held = s.held
            /\ u.block = s.block /\ u.open = s.open /\ u.stage = s.stage /\ u.left = s.left
            /\ r.op = o /\ r.block = s.block /\ r.stage = s.stage /\ r.left = s.left
            /\ r.held = s.held /\ r.pc = "call"
        BY <3>2, <3>4 DEF States, Pcs
      <3>. HIDE DEF u, r, t
      <3>7. Shape(u, Stopped(f), io[f])
        BY <3>5, <3>6 DEF CallInv, Shape, Idle
      <3>8. Accounts(u, io[f])
        BY <3>3, <3>5, <3>6 DEF CallInv, Accounts, ReadOps, AcceptOps, SpliceOps, WriteOps
      <3>9. io[f] \in Descriptors
        BY Unpacked
      <3>10. CallInv(u, Stopped(f), io[f])
        BY <3>5, <3>6, <3>7, <3>8, <3>9, CallKept
      <3>11. Opens(u)
        BY <3>3, <3>6 DEF Opens
      <3>. QED
        BY <2>2, <3>10, <3>11, BackCallsKeeps DEF u
    <2>. QED
      BY <1>3, <2>1, <2>2
  <1>4. \/ Calls(f, o) /\ WaitsOn(f, "timer") /\ UNCHANGED pipe
        \/ Calls(f, o) /\ backend_snooze(f, fs[f], io[f])
        \/ \E p \in {"wait", "snooze"} : BackRaises(f, o, p, fs[f]) \/ BackCalls(f, o, p, t)
    BY DEF Backend_timer_loop, Comes, BackRaises, BackCalls, Comeback
  <1>. QED
    BY <1>1, <1>2, <1>3, <1>4

\* Beginning an operation, alone or as the first of a chain.
LEMMA StartKeeps ==
  ASSUME BackendInv, NEW f \in Fibers, NEW o \in OpNames, NEW r \in Rests,
         cur = f, fs[f].pc = "app",
         fs' = [fs EXCEPT ![f] = [Entered(Stepped(f), o) EXCEPT !.rest = r]],
         UNCHANGED <<ws, io, sched, cur, loop>>
  PROVE  BackendInv'
  <1>. DEFINE s == Stepped(f)
              t == [Entered(s, o) EXCEPT !.rest = r]
              n == fs[f].step + 1
  <1>1. /\ FiberInv(fs[f], ws[f], io[f], sched[f]) /\ fs[f] \in States /\ ws[f] \in Watchers
        /\ sched[f] = NoValue
    BY Unpacked
  <1>2. n \in Nat
    BY <1>1 DEF States
  <1>. HIDE DEF n
  <1>3. s = [fs[f] EXCEPT !.step = n]
    BY DEF Stepped, n
  <1>4. /\ s \in States /\ s.stage = fs[f].stage /\ s.left = fs[f].left /\ s.total = fs[f].total
        /\ s.held = fs[f].held /\ s.open = fs[f].open /\ s.block = fs[f].block
    BY <1>1, <1>2, <1>3 DEF States
  <1>5. /\ fs[f].op = "none" /\ fs[f].stage = "none" /\ fs[f].left = 0 /\ fs[f].total = 0
        /\ fs[f].held = 0 /\ ws[f].aim = "none" /\ io[f] = NoIo
    BY <1>1 DEF FiberInv, Shape, Idle
  <1>6. fs[f].open = 0
    BY <1>1, <1>5 DEF FiberInv, Opens, AcceptOps
  <1>7. /\ ws[f].on = {} /\ ws[f].timer # "fired" /\ (ws[f].timer # "off" <=> fs[f].block)
    BY <1>1 DEF FiberInv, Watches, Times, IS_EXCEPTION, NoValue
  <1>8. o \in OpNames \cup {"invalid"}
    OBVIOUS
  <1>. HIDE DEF s
  <1>9. FiberInv(t, ws[f], NoIo, NoValue) /\ t.pc = "call"
    BY <1>1, <1>4, <1>5, <1>6, <1>7, <1>8, EnteredInv
  <1>10. Updates(f, t, ws[f], NoIo, NoValue, f)
    BY <1>1, <1>5, Unchanged DEF Updates, s
  <1>. HIDE DEF t
  <1>11. RunInv(f, t, NoValue, f)
    BY <1>9 DEF RunInv
  <1>12. Controls(f) /\ UNCHANGED <<polling, woken>> /\ pipe' \in BOOLEAN
    BY DEF Controls, loop, BackendInv, Functions
  <1>. QED
    BY <1>9, <1>10, <1>11, <1>12, ControlKeeps

LEMMA StartingKeeps ==
  ASSUME BackendInv, NEW f \in Fibers, Start(f) \/ Backend_chain(f)
  PROVE  BackendInv'
  <1>1. CASE Start(f)
    <2>1. PICK o \in OpNames : /\ Running(f, o)
                               /\ fs' = [fs EXCEPT ![f] = Entered(Stepped(f), o)]
                               /\ UNCHANGED <<ws, io, sched, cur, loop>>
      BY <1>1 DEF Start
    <2>2. cur = f /\ fs[f].pc = "app"
      BY <2>1 DEF Running
    <2>3. fs[f] \in States /\ fs[f].rest = <<>>
      BY <2>2, Unpacked DEF FiberInv, Shape, Idle
    <2>4. [Entered(Stepped(f), o) EXCEPT !.rest = <<>>] = Entered(Stepped(f), o)
      BY <2>3 DEF Entered, Stepped, States
    <2>5. fs' = [fs EXCEPT ![f] = [Entered(Stepped(f), o) EXCEPT !.rest = <<>>]]
      BY <2>1, <2>4
    <2>. QED
      BY <2>1, <2>2, <2>5, NoRest, StartKeeps
  <1>2. CASE Calls(f, "invalid") /\ Fails(f)
    BY <1>2, FailsKeeps
  <1>3. CASE \E second \in {<<"chain", "splice">>, <<"chain_invalid", "invalid">>} :
                /\ Running(f, second[1])
                /\ fs' = [fs EXCEPT ![f] = [Entered(Stepped(f), "write") EXCEPT
                                                !.rest = <<second[2]>>]]
                /\ UNCHANGED <<ws, io, sched, cur, loop>>
    <2>1. "write" \in OpNames
      BY DEF OpNames, WriteOps
    <2>2. PICK second \in {<<"chain", "splice">>, <<"chain_invalid", "invalid">>} :
              /\ Running(f, second[1])
              /\ fs' = [fs EXCEPT ![f] = [Entered(Stepped(f), "write") EXCEPT
                                              !.rest = <<second[2]>>]]
              /\ UNCHANGED <<ws, io, sched, cur, loop>>
      BY <1>3
    <2>3. second[2] \in {"splice", "invalid"}
      OBVIOUS
    <2>4. <<second[2]>> \in Rests
      BY <2>3 DEF Rests
    <2>5. cur = f /\ fs[f].pc = "app"
      BY <2>2 DEF Running
    <2>. QED
      BY <2>1, <2>2, <2>4, <2>5, StartKeeps
  <1>. QED
    BY <1>1, <1>2, <1>3 DEF Backend_chain

\* The beginning and the end of a timeout block, the start and the end of a
\* fiber: it is in no operation.
LEMMA IdleRecord ==
  ASSUME BackendInv, NEW f \in Fibers, fs[f].pc \in {"app", "raise"}
  PROVE  /\ fs[f] \in States /\ ws[f] \in Watchers /\ fs[f].op = "none"
         /\ fs[f].stage = "none" /\ fs[f].left = 0 /\ fs[f].total = 0 /\ fs[f].held = 0
         /\ fs[f].rest = <<>> /\ fs[f].open = 0 /\ ws[f].aim = "none" /\ ws[f].on = {}
         /\ io[f] = NoIo /\ (ws[f].timer # "off" <=> fs[f].block)
         /\ ws[f].timer = "fired" => fs[f].pc = "raise" \/ IS_EXCEPTION(sched[f])
  <1>1. FiberInv(fs[f], ws[f], io[f], sched[f]) /\ fs[f] \in States /\ ws[f] \in Watchers
    BY Unpacked
  <1>2. /\ fs[f].op = "none" /\ fs[f].stage = "none" /\ fs[f].left = 0 /\ fs[f].total = 0
        /\ fs[f].held = 0 /\ fs[f].rest = <<>> /\ ws[f].aim = "none" /\ io[f] = NoIo
    BY <1>1 DEF FiberInv, Shape, Idle
  <1>3. fs[f].open = 0
    BY <1>1, <1>2 DEF FiberInv, Opens, AcceptOps
  <1>4. /\ ws[f].on = {} /\ (ws[f].timer # "off" <=> fs[f].block)
        /\ ws[f].timer = "fired" => fs[f].pc = "raise" \/ IS_EXCEPTION(sched[f])
    BY <1>1 DEF FiberInv, Watches, Times
  <1>. QED
    BY <1>1, <1>2, <1>3, <1>4

LEMMA BlocksKeep ==
  ASSUME BackendInv, NEW f \in Fibers,
         Backend_timeout(f) \/ Backend_timeout_ensure(f) \/ Finish(f) \/ Run(f)
  PROVE  BackendInv'
  <1>0. /\ pipe \in BOOLEAN
        /\ fs = [g \in Fibers |-> fs[g]] /\ ws = [g \in Fibers |-> ws[g]]
    BY DEF BackendInv, Functions
  <1>1. ASSUME NEW t \in States, NEW x \in Watchers, NEW c \in {f, NoFiber},
               Controls(f), Updates(f, t, x, NoIo, NoValue, c), UNCHANGED loop,
               fs[f].pc \in {"app", "raise"}, t.pc \in {"app", "dead"},
               t.pc = "app" /\ t.block => c = f, t.pc = "dead" => c = NoFiber /\ ~t.block,
               t.op = fs[f].op, t.stage = fs[f].stage, t.left = fs[f].left,
               t.total = fs[f].total, t.held = fs[f].held, t.rest = fs[f].rest,
               t.open = fs[f].open, x.aim = ws[f].aim, x.on = ws[f].on,
               x.timer # "off" <=> t.block, x.timer # "fired"
        PROVE  BackendInv'
    <2>1. t.pc \in Idle
      BY <1>1 DEF Idle
    <2>2. FiberInv(t, x, NoIo, NoValue)
      BY <1>1, <2>1, IdleRecord, IdleInv
    <2>3. RunInv(f, t, NoValue, c)
      BY <1>1, Unpacked DEF RunInv
    <2>4. UNCHANGED <<polling, woken>> /\ pipe' \in BOOLEAN
      BY <1>0, <1>1 DEF loop
    <2>. QED
      BY <1>1, <2>2, <2>3, <2>4, ControlKeeps
  <1>2. CASE Backend_timeout(f)
    <2>. DEFINE n == fs[f].step + 1
                t == [Stepped(f) EXCEPT !.block = TRUE]
                x == [ws[f] EXCEPT !.timer = "on"]
    <2>1. cur = f /\ fs[f].pc = "app" /\ sched[f] = NoValue
      BY <1>2, Unpacked DEF Backend_timeout, Running
    <2>2. n \in Nat /\ fs[f] \in States /\ ws[f] \in Watchers
      BY Unpacked DEF States
    <2>. HIDE DEF n
    <2>3. t = [fs[f] EXCEPT !.step = n, !.block = TRUE]
      BY <2>2 DEF Stepped, States, n
    <2>4. /\ t \in States /\ t.pc = "app" /\ t.block = TRUE /\ t.op = fs[f].op
          /\ t.stage = fs[f].stage /\ t.left = fs[f].left /\ t.total = fs[f].total
          /\ t.held = fs[f].held /\ t.rest = fs[f].rest /\ t.open = fs[f].open
      BY <2>1, <2>2, <2>3 DEF States
    <2>5. x \in Watchers /\ x.aim = ws[f].aim /\ x.on = ws[f].on /\ x.timer = "on"
      BY <2>2 DEF Watchers
    <2>6. Updates(f, t, x, NoIo, NoValue, f) /\ UNCHANGED loop /\ Controls(f)
      <3>1. ws' = [ws EXCEPT ![f] = x]
        BY <1>0, <1>2 DEF Backend_timeout
      <3>2. io[f] = NoIo
        BY <2>1, IdleRecord
      <3>3. UNCHANGED io /\ UNCHANGED sched /\ UNCHANGED cur
        BY <1>2 DEF Backend_timeout
      <3>4. fs' = [fs EXCEPT ![f] = t]
        BY <1>2 DEF Backend_timeout
      <3>. HIDE DEF t, x
      <3>5. io' = [io EXCEPT ![f] = NoIo] /\ sched' = [sched EXCEPT ![f] = NoValue]
        BY <2>1, <3>2, <3>3, Unchanged
      <3>. QED
        BY <1>2, <2>1, <3>1, <3>3, <3>4, <3>5 DEF Backend_timeout, Updates, Controls
    <2>. HIDE DEF t, x
    <2>. QED
      BY <1>1, <2>1, <2>4, <2>5, <2>6
  <1>3. CASE Backend_timeout_ensure(f)
    <2>. DEFINE t == [fs[f] EXCEPT !.block = FALSE, !.pc = "app"]
                x == [ws[f] EXCEPT !.timer = "off"]
    <2>1. cur = f /\ fs[f].pc \in {"app", "raise"} /\ sched[f] = NoValue
      BY <1>3, Unpacked DEF Backend_timeout_ensure
    <2>2. fs[f] \in States /\ ws[f] \in Watchers
      BY Unpacked
    <2>4. /\ t \in States /\ t.pc = "app" /\ t.block = FALSE /\ t.op = fs[f].op
          /\ t.stage = fs[f].stage /\ t.left = fs[f].left /\ t.total = fs[f].total
          /\ t.held = fs[f].held /\ t.rest = fs[f].rest /\ t.open = fs[f].open
      BY <2>2 DEF States, Pcs
    <2>5. x \in Watchers /\ x.aim = ws[f].aim /\ x.on = ws[f].on /\ x.timer = "off"
      BY <2>2 DEF Watchers
    <2>6. Updates(f, t, x, NoIo, NoValue, f) /\ UNCHANGED loop /\ Controls(f)
      <3>1. ws' = [ws EXCEPT ![f] = x]
        BY <1>0, <1>3 DEF Backend_timeout_ensure
      <3>2. io[f] = NoIo
        BY <2>1, IdleRecord
      <3>3. UNCHANGED io /\ UNCHANGED sched /\ UNCHANGED cur
        BY <1>3 DEF Backend_timeout_ensure
      <3>4. fs' = [fs EXCEPT ![f] = t]
        <4>1. fs' = [fs EXCEPT ![f].block = FALSE, ![f].pc = "app"]
          BY <1>3 DEF Backend_timeout_ensure
        <4>. QED
          BY <1>0, <4>1
      <3>. HIDE DEF t, x
      <3>5. io' = [io EXCEPT ![f] = NoIo] /\ sched' = [sched EXCEPT ![f] = NoValue]
        BY <2>1, <3>2, <3>3, Unchanged
      <3>. QED
        BY <1>3, <2>1, <3>1, <3>3, <3>4, <3>5 DEF Backend_timeout_ensure, Updates, Controls
    <2>. HIDE DEF t, x
    <2>. QED
      BY <1>1, <2>1, <2>4, <2>5, <2>6
  <1>4. CASE Finish(f)
    <2>. DEFINE t == [fs[f] EXCEPT !.pc = "dead"]
    <2>1. cur = f /\ fs[f].pc = "app" /\ ~fs[f].block /\ sched[f] = NoValue
      BY <1>4, Unpacked DEF Finish
    <2>2. fs[f] \in States /\ ws[f] \in Watchers
      BY Unpacked
    <2>3. ws[f].timer = "off"
      BY <2>1, IdleRecord
    <2>4. /\ t \in States /\ t.pc = "dead" /\ t.block = fs[f].block /\ t.op = fs[f].op
          /\ t.stage = fs[f].stage /\ t.left = fs[f].left /\ t.total = fs[f].total
          /\ t.held = fs[f].held /\ t.rest = fs[f].rest /\ t.open = fs[f].open
      BY <2>2 DEF States, Pcs
    <2>5. Updates(f, t, ws[f], NoIo, NoValue, NoFiber) /\ UNCHANGED loop /\ Controls(f)
      <3>1. fs' = [fs EXCEPT ![f] = t]
        BY <1>0, <1>4 DEF Finish
      <3>2. io[f] = NoIo
        BY <2>1, IdleRecord
      <3>3. UNCHANGED io /\ UNCHANGED sched /\ UNCHANGED ws /\ cur' = NoFiber /\ UNCHANGED loop
        BY <1>4 DEF Finish
      <3>. HIDE DEF t
      <3>4. /\ io' = [io EXCEPT ![f] = NoIo] /\ sched' = [sched EXCEPT ![f] = NoValue]
            /\ ws' = [ws EXCEPT ![f] = ws[f]]
        BY <2>1, <3>2, <3>3, Unchanged
      <3>. QED
        BY <2>1, <3>1, <3>3, <3>4 DEF Updates, Controls
    <2>. HIDE DEF t
    <2>. QED
      BY <1>1, <2>1, <2>2, <2>3, <2>4, <2>5
  <1>5. CASE Run(f)
    <2>1. cur = NoFiber /\ ~polling /\ fs[f].pc = "app"
      BY <1>5 DEF Run
    <2>2. fs[f] \in States /\ ws[f] \in Watchers
      BY Unpacked
    <2>3. ~fs[f].block
      BY <2>1, Unpacked DEF RunInv
    <2>4. ws[f].timer = "off" /\ io[f] = NoIo
      BY <2>1, <2>3, IdleRecord
    <2>5. Updates(f, fs[f], ws[f], NoIo, NoValue, f) /\ UNCHANGED loop /\ Controls(f)
      BY <1>5, <2>1, <2>4, Unchanged DEF Run, Unscheduled, Updates, Controls
    <2>. QED
      BY <1>1, <2>1, <2>2, <2>3, <2>4, <2>5
  <1>. QED
    BY <1>2, <1>3, <1>4, <1>5

----------------------------------------------------------------------------
(* The fork, the event loop and the world outside *)

LEMMA DeadTyped ==
  LET d == [NoOp EXCEPT !.pc = "dead"]
  IN  FiberInv(d, NoWatchers, NoIo, NoValue) /\ d.pc = "dead" /\ ~d.block
  <1>. DEFINE d == [NoOp EXCEPT !.pc = "dead"]
  <1>1. /\ d \in States /\ d.pc = "dead" /\ d.op = "none" /\ d.stage = "none" /\ d.left = 0
        /\ d.total = 0 /\ d.held = 0 /\ d.rest = <<>> /\ d.open = 0 /\ d.block = FALSE
    BY Zeros, NoRest DEF NoOp, States, Pcs, Stages
  <1>2. /\ NoWatchers \in Watchers /\ NoWatchers.aim = "none" /\ NoWatchers.on = {}
        /\ NoWatchers.timer = "off"
    BY Zeros DEF NoWatchers, Watchers
  <1>3. d.pc \in Idle
    BY <1>1 DEF Idle
  <1>. HIDE DEF d
  <1>. QED
    BY <1>1, <1>2, <1>3, IdleInv DEF d

LEMMA Backend_post_forkKeeps ==
  ASSUME BackendInv, NEW f \in Fibers, Backend_post_fork(f)
  PROVE  BackendInv'
  <1>. DEFINE d == [NoOp EXCEPT !.pc = "dead"]
              t == Stepped(f)
              n == fs[f].step + 1
  <1>1. /\ cur = f /\ fs[f].pc = "app" /\ ~fs[f].block /\ UNCHANGED <<cur, polling>>
        /\ woken' = FALSE /\ pipe' = FALSE
    BY DEF Backend_post_fork, Running
  <1>2. /\ fs' = [g \in Fibers |-> IF g = f THEN t ELSE d]
        /\ ws' = [g \in Fibers |-> NoWatchers] /\ io' = [g \in Fibers |-> NoIo]
        /\ sched' = [g \in Fibers |-> NoValue]
    BY DEF Backend_post_fork
  <1>3. /\ fs[f] \in States /\ ~polling /\ f # NoFiber
    BY <1>1, Unpacked
  <1>4. n \in Nat
    BY <1>3 DEF States
  <1>5. t = [fs[f] EXCEPT !.step = n]
    BY DEF Stepped
  <1>. HIDE DEF n
  <1>6. /\ t \in States /\ t.pc = "app" /\ t.op = fs[f].op /\ t.stage = fs[f].stage
        /\ t.left = fs[f].left /\ t.total = fs[f].total /\ t.held = fs[f].held
        /\ t.rest = fs[f].rest /\ t.open = fs[f].open /\ t.block = fs[f].block
    BY <1>1, <1>3, <1>4, <1>5 DEF States
  <1>. HIDE DEF t
  <1>7. FiberInv(t, NoWatchers, NoIo, NoValue)
    <2>1. /\ NoWatchers \in Watchers /\ NoWatchers.aim = "none" /\ NoWatchers.on = {}
          /\ NoWatchers.timer = "off"
      BY Zeros DEF NoWatchers, Watchers
    <2>2. t.pc \in Idle
      BY <1>6 DEF Idle
    <2>. QED
      BY <1>1, <1>6, <2>1, <2>2, IdleRecord, IdleInv
  <1>8. FiberInv(d, NoWatchers, NoIo, NoValue) /\ d.pc = "dead" /\ ~d.block
    BY DeadTyped
  <1>. HIDE DEF d
  <1>9. ASSUME NEW g \in Fibers
        PROVE  FiberInv(fs'[g], ws'[g], io'[g], sched'[g]) /\ RunInv(g, fs'[g], sched'[g], cur')
    <2>1. ws'[g] = NoWatchers /\ io'[g] = NoIo /\ sched'[g] = NoValue /\ cur' = f
      BY <1>1, <1>2
    <2>2. CASE g = f
      <3>1. fs'[g] = t
        BY <1>2, <2>2
      <3>2. RunInv(g, t, NoValue, f)
        BY <1>1, <1>6, <2>2 DEF RunInv
      <3>. QED
        BY <1>7, <2>1, <3>1, <3>2
    <2>3. CASE g # f
      <3>1. fs'[g] = d
        BY <1>2, <2>3
      <3>2. RunInv(g, d, NoValue, f)
        BY <1>8, <2>3 DEF RunInv
      <3>. QED
        BY <1>8, <2>1, <3>1, <3>2
    <2>. QED
      BY <2>2, <2>3
  <1>10. Functions'
    BY <1>1, <1>2, <1>3 DEF Functions, BackendInv
  <1>11. PollInv'
    BY <1>1, <1>3 DEF PollInv, NoStuckPoll
  <1>. QED
    BY <1>9, <1>10, <1>11 DEF BackendInv

\* A fiber that is switched out is scheduled: nothing else of it changes, but
\* the watchers that have called back.
LEMMA ScheduledInv ==
  ASSUME NEW s, NEW w, NEW i, NEW v, FiberInv(s, w, i, v), NEW x \in Watchers,
         NEW u \in Values, s.pc \in {"wait", "snooze"},
         x.on = w.on \/ (x.on = {} /\ s.pc = "wait"), x.aim = w.aim,
         x.timer = w.timer \/ (w.timer = "on" /\ x.timer = "fired" /\ IS_EXCEPTION(u)),
         w.timer = "fired" => IS_EXCEPTION(u), u = "timeout" => s.block
  PROVE  FiberInv(s, x, i, u)
  <1>1. s \in States /\ i \in Descriptors
    BY DEF FiberInv, Typed
  <1>2. Typed(s, x, i, u)
    BY <1>1 DEF Typed
  <1>3. Shape(s, x, i)
    BY DEF FiberInv, Shape
  <1>4. Watches(s, x, u)
    BY DEF FiberInv, Watches, NoValue, Values
  <1>5. Times(s, x, u)
    BY DEF FiberInv, Times
  <1>. QED
    BY <1>2, <1>3, <1>4, <1>5 DEF FiberInv

\* The value a fiber is scheduled with after Fiber_make_runnable.
NewValue(f, v) == IF IS_EXCEPTION(sched[f]) /\ ~IS_EXCEPTION(v) THEN sched[f] ELSE v

LEMMA MadeRunnable ==
  ASSUME BackendInv, NEW f \in Fibers, NEW v \in Values, Fiber_make_runnable(f, v)
  PROVE  /\ sched' = [sched EXCEPT ![f] = NewValue(f, v)]
         /\ NewValue(f, v) \in Values
         /\ ws[f].timer = "fired" /\ fs[f].pc # "raise" => IS_EXCEPTION(NewValue(f, v))
         /\ IS_EXCEPTION(v) => IS_EXCEPTION(NewValue(f, v))
         /\ NewValue(f, v) = "timeout" => fs[f].block \/ v = "timeout"
  <1>1. sched' = [sched EXCEPT ![f] = NewValue(f, v)]
    BY DEF Fiber_make_runnable, NewValue, BackendInv, Functions
  <1>2. NewValue(f, v) \in Values
    BY DEF NewValue, IS_EXCEPTION, Values
  <1>3. FiberInv(fs[f], ws[f], io[f], sched[f])
    BY Unpacked
  <1>4. /\ ws[f].timer = "fired" /\ fs[f].pc # "raise" => IS_EXCEPTION(NewValue(f, v))
        /\ IS_EXCEPTION(v) => IS_EXCEPTION(NewValue(f, v))
        /\ NewValue(f, v) = "timeout" => fs[f].block \/ v = "timeout"
    BY <1>3 DEF NewValue, FiberInv, Times
  <1>. QED
    BY <1>1, <1>2, <1>4

\* The event loop calls back while no fiber runs, and the poll ends.
LEMMA CallbackKeeps ==
  ASSUME BackendInv, NEW f \in Fibers, NEW x \in Watchers, NEW u \in Values, Polls,
         ws' = [ws EXCEPT ![f] = x], sched' = [sched EXCEPT ![f] = u],
         FiberInv(fs[f], x, io[f], u), fs[f].pc \in {"wait", "snooze"}
  PROVE  BackendInv'
  <1>1. cur = NoFiber /\ polling' = FALSE /\ UNCHANGED <<fs, io, cur, woken, pipe>>
    BY DEF Polls
  <1>2. Updates(f, fs[f], x, io[f], u, NoFiber)
    BY <1>1, Unchanged DEF Updates
  <1>3. RunInv(f, fs[f], u, NoFiber)
    BY Unpacked DEF RunInv
  <1>4. PollInv' /\ {polling, woken, pipe}' \subseteq BOOLEAN
    BY <1>1 DEF PollInv, NoStuckPoll, BackendInv, Functions
  <1>. QED
    BY <1>1, <1>2, <1>3, <1>4, StepKeeps

LEMMA CallbacksKeep ==
  ASSUME BackendInv, NEW f \in Fibers, Callback(f)
  PROVE  BackendInv'
  <1>0. /\ FiberInv(fs[f], ws[f], io[f], sched[f]) /\ RunInv(f, fs[f], sched[f], cur)
        /\ ws[f] \in Watchers /\ f # NoFiber
    BY Unpacked
  <1>1. ws[f].on # {} => fs[f].pc = "wait"
    BY <1>0 DEF FiberInv, Watches
  <1>2. ws = [g \in Fibers |-> ws[g]]
    BY DEF BackendInv, Functions
  <1>3. ASSUME NEW v \in Values, v # "timeout", Fiber_make_runnable(f, v), Polls, ws[f].on # {},
               NEW x \in Watchers, ws' = [ws EXCEPT ![f] = x],
               x.on = ws[f].on \/ x.on = {}, x.aim = ws[f].aim, x.timer = ws[f].timer
        PROVE  BackendInv'
    <2>1. fs[f].pc = "wait"
      BY <1>1, <1>3
    <2>2. /\ sched' = [sched EXCEPT ![f] = NewValue(f, v)] /\ NewValue(f, v) \in Values
          /\ ws[f].timer = "fired" => IS_EXCEPTION(NewValue(f, v))
          /\ NewValue(f, v) = "timeout" => fs[f].block
      BY <1>3, <2>1, MadeRunnable
    <2>3. FiberInv(fs[f], x, io[f], NewValue(f, v))
      BY <1>0, <1>3, <2>1, <2>2, ScheduledInv
    <2>. QED
      BY <1>3, <2>1, <2>2, <2>3, CallbackKeeps
  <1>4. CASE Backend_io_callback(f)
    <2>1. "nil" \in Values /\ "nil" # "timeout"
      BY DEF Values
    <2>2. Fiber_make_runnable(f, "nil") /\ Polls /\ ws[f].on # {} /\ UNCHANGED ws
      BY <1>4 DEF Backend_io_callback
    <2>3. ws' = [ws EXCEPT ![f] = ws[f]]
      BY <2>2, Unchanged
    <2>. QED
      BY <1>0, <1>3, <2>1, <2>2, <2>3
  <1>5. CASE Backend_child_callback(f)
    <2>1. "status" \in Values /\ "status" # "timeout"
      BY DEF Values
    <2>2. Fiber_make_runnable(f, "status") /\ Polls /\ ws[f].on # {} /\ UNCHANGED ws
      BY <1>5 DEF Backend_child_callback
    <2>3. ws' = [ws EXCEPT ![f] = ws[f]]
      BY <2>2, Unchanged
    <2>. QED
      BY <1>0, <1>3, <2>1, <2>2, <2>3
  <1>6. CASE Backend_timer_callback(f)
    <2>. DEFINE x == [ws[f] EXCEPT !.on = {}]
    <2>1. "nil" \in Values /\ "nil" # "timeout"
      BY DEF Values
    <2>2. Fiber_make_runnable(f, "nil") /\ Polls /\ ws[f].on # {} /\ ws' = [ws EXCEPT ![f].on = {}]
      BY <1>6 DEF Backend_timer_callback
    <2>3. ws' = [ws EXCEPT ![f] = x]
      BY <1>2, <2>2
    <2>4. x \in Watchers /\ x.on = {} /\ x.aim = ws[f].aim /\ x.timer = ws[f].timer
      BY <1>0 DEF Watchers
    <2>. HIDE DEF x
    <2>. QED
      BY <1>3, <2>1, <2>2, <2>3, <2>4
  <1>7. CASE Backend_timeout_callback(f)
    <2>. DEFINE x == [ws[f] EXCEPT !.timer = "fired"]
                u == NewValue(f, "timeout")
    <2>1. "timeout" \in Values /\ IS_EXCEPTION("timeout")
      BY DEF Values, IS_EXCEPTION
    <2>2. /\ Fiber_make_runnable(f, "timeout") /\ Polls /\ ws[f].timer = "on"
          /\ ws' = [ws EXCEPT ![f].timer = "fired"]
      BY <1>7 DEF Backend_timeout_callback
    <2>3. ws' = [ws EXCEPT ![f] = x]
      BY <1>2, <2>2
    <2>4. x \in Watchers /\ x.on = ws[f].on /\ x.aim = ws[f].aim /\ x.timer = "fired"
      BY <1>0 DEF Watchers
    <2>5. sched' = [sched EXCEPT ![f] = u] /\ u \in Values /\ IS_EXCEPTION(u)
      BY <2>1, <2>2, MadeRunnable
    <2>. HIDE DEF x, u
    <2>6. fs[f].block /\ cur = NoFiber
      BY <1>0, <2>2 DEF FiberInv, Times, Polls
    <2>7. fs[f].pc \in {"wait", "snooze"}
      BY <1>0, <2>6 DEF RunInv, FiberInv, Typed, States, Pcs
    <2>8. FiberInv(fs[f], x, io[f], u)
      BY <1>0, <2>2, <2>4, <2>5, <2>6, <2>7, ScheduledInv
    <2>. QED
      BY <2>2, <2>3, <2>4, <2>5, <2>7, <2>8, CallbackKeeps
  <1>8. CASE Backend_rw_io_callback(f)
    <2>. DEFINE n == IF ws[f].ref < 0 THEN ws[f].ref ELSE ws[f].ref - 1
                x == [ws[f] EXCEPT !.ref = n]
    <2>1. /\ Polls /\ ws[f].on # {}
          /\ ws' = [ws EXCEPT ![f].ref = IF @ < 0 THEN @ ELSE @ - 1]
          /\ IF ws[f].ref = 0 THEN Fiber_make_runnable(f, "nil") ELSE UNCHANGED sched
      BY <1>8 DEF Backend_rw_io_callback
    <2>2. ws' = [ws EXCEPT ![f] = x]
      BY <1>2, <2>1
    <2>3. ws[f].ref \in Refs
      BY <1>0 DEF Watchers
    <2>4. n \in Refs /\ (ws[f].ref >= 0 /\ ws[f].ref # 0 => n >= 0)
      BY <2>3 DEF Refs
    <2>. HIDE DEF n
    <2>5. x \in Watchers /\ x.on = ws[f].on /\ x.aim = ws[f].aim /\ x.timer = ws[f].timer
          /\ x.ref = n
      BY <1>0, <2>4 DEF Watchers
    <2>. HIDE DEF x
    <2>6. CASE ws[f].ref = 0
      <3>1. "nil" \in Values /\ "nil" # "timeout"
        BY DEF Values
      <3>. QED
        BY <1>3, <2>1, <2>2, <2>5, <2>6, <3>1
    <2>7. CASE ws[f].ref # 0
      <3>1. UNCHANGED sched
        BY <2>1, <2>7
      <3>2. sched' = [sched EXCEPT ![f] = sched[f]]
        BY <3>1, Unchanged
      <3>3. Watches(fs[f], x, sched[f])
        <4>1. fs[f].pc = "wait" /\ sched[f] = NoValue /\ fs[f].op \in PairOps => x.ref >= 0
          BY <1>0, <2>4, <2>5, <2>7 DEF FiberInv, Watches
        <4>. QED
          BY <1>0, <2>5, <4>1 DEF FiberInv, Watches
      <3>4. FiberInv(fs[f], x, io[f], sched[f])
        BY <1>0, <2>5, <3>3 DEF FiberInv, Typed, Shape, Times
      <3>5. /\ cur = NoFiber /\ polling' = FALSE /\ UNCHANGED <<fs, io, cur, woken, pipe>>
        BY <2>1 DEF Polls
      <3>6. Updates(f, fs[f], x, io[f], sched[f], NoFiber)
        BY <2>2, <3>2, <3>5, Unchanged DEF Updates
      <3>7. PollInv' /\ {polling, woken, pipe}' \subseteq BOOLEAN
        BY <3>5 DEF PollInv, NoStuckPoll, BackendInv, Functions
      <3>8. RunInv(f, fs[f], sched[f], NoFiber)
        BY <1>0, <3>5
      <3>. QED
        BY <3>4, <3>5, <3>6, <3>7, <3>8, StepKeeps
    <2>. QED
      BY <2>6, <2>7
  <1>. QED
    BY <1>4, <1>5, <1>6, <1>7, <1>8 DEF Callback

\* Scheduling from outside wakes the poll.
LEMMA ScheduleKeeps ==
  ASSUME BackendInv, NEW f \in Fibers, Schedule(f)
  PROVE  BackendInv'
  <1>1. /\ cur # f /\ fs[f].pc \in {"wait", "snooze"}
        /\ woken' = (woken \/ (polling /\ pipe /\ sched[f] = NoValue))
        /\ UNCHANGED <<fs, ws, io, cur, polling, pipe>>
    BY DEF Schedule, Backend_wakeup
  <1>2. PICK v \in {"exception", "value"} : Fiber_make_runnable(f, v)
    BY DEF Schedule
  <1>3. v \in Values /\ v # "timeout"
    BY DEF Values
  <1>. DEFINE u == NewValue(f, v)
  <1>4. /\ FiberInv(fs[f], ws[f], io[f], sched[f]) /\ RunInv(f, fs[f], sched[f], cur)
        /\ ws[f] \in Watchers /\ sched[f] \in Values \cup {NoValue}
    BY Unpacked
  <1>5. /\ sched' = [sched EXCEPT ![f] = u] /\ u \in Values
        /\ ws[f].timer = "fired" => IS_EXCEPTION(u)
        /\ u = "timeout" => fs[f].block
    BY <1>1, <1>2, <1>3, MadeRunnable
  <1>. HIDE DEF u
  <1>6. FiberInv(fs[f], ws[f], io[f], u)
    BY <1>1, <1>4, <1>5, ScheduledInv
  <1>7. Updates(f, fs[f], ws[f], io[f], u, cur)
    BY <1>1, <1>5, Unchanged DEF Updates
  <1>8. RunInv(f, fs[f], u, cur)
    BY <1>1, <1>4 DEF RunInv
  <1>9. {polling, woken, pipe}' \subseteq BOOLEAN
    BY <1>1 DEF BackendInv, Functions
  <1>10. PollInv'
    <2>1. polling' => cur' = NoFiber
      BY <1>1 DEF BackendInv, PollInv
    <2>2. polling /\ pipe => woken'
      <3>1. CASE sched[f] = NoValue
        BY <1>1, <3>1
      <3>2. CASE sched[f] # NoValue
        BY <1>1, <3>2 DEF BackendInv, PollInv, NoStuckPoll
      <3>. QED
        BY <3>1, <3>2
    <2>. QED
      BY <1>1, <2>1, <2>2 DEF PollInv, NoStuckPoll
  <1>. QED
    BY <1>6, <1>7, <1>8, <1>9, <1>10, StepKeeps

\* The peers of a fiber's descriptors change nothing but what is there to read
\* and what room there is.
LEMMA PeerKeeps ==
  ASSUME BackendInv, NEW f \in Fibers, Blocks(f), NEW j \in Descriptors,
         io' = [io EXCEPT ![f] = j], UNCHANGED <<fs, ws, sched, cur, loop>>,
         fs[f].op # "none", Accounts(fs[f], j), j.pipe = io[f].pipe, j.text = io[f].text
  PROVE  BackendInv'
  <1>1. FiberInv(fs[f], ws[f], io[f], sched[f]) /\ RunInv(f, fs[f], sched[f], cur)
    BY Unpacked
  <1>2. Typed(fs[f], ws[f], j, sched[f])
    BY <1>1 DEF FiberInv, Typed
  <1>3. Shape(fs[f], ws[f], j)
    BY <1>1 DEF FiberInv, Shape
  <1>4. FiberInv(fs[f], ws[f], j, sched[f])
    BY <1>1, <1>2, <1>3 DEF FiberInv
  <1>5. Updates(f, fs[f], ws[f], j, sched[f], cur)
    BY Unchanged DEF Updates
  <1>6. PollInv' /\ {polling, woken, pipe}' \subseteq BOOLEAN
    BY DEF BackendInv, PollInv, NoStuckPoll, Functions, loop
  <1>. QED
    BY <1>1, <1>4, <1>5, <1>6, StepKeeps

LEMMA PeersKeep ==
  ASSUME BackendInv, NEW f \in Fibers, PeerSends(f) \/ PeerEnds(f) \/ PeerTakes(f)
  PROVE  BackendInv'
  <1>. DEFINE s == fs[f]
              i == io[f]
  <1>1. /\ FiberInv(s, ws[f], i, sched[f]) /\ s \in States /\ i \in Descriptors
    BY Unpacked
  <1>2. Accounts(s, i)
    BY <1>1 DEF FiberInv
  <1>3. /\ i.src \in Nat /\ i.in \in Nat /\ i.in <= MaxIn /\ i.room \in Nat /\ i.out \in Nat
        /\ s.total \in Nat /\ s.held \in Nat /\ MaxIn \in Nat /\ MaxOut \in Nat
    BY <1>1, StateFields, DescriptorFields, Sizes
  <1>4. io = [g \in Fibers |-> io[g]]
    BY DEF BackendInv, Functions
  <1>5. CASE PeerSends(f)
    <2>. DEFINE m == i.src + 1
                n == i.in + 1
                j == [i EXCEPT !.src = m, !.in = n]
    <2>1. /\ Blocks(f) /\ s.op \in ReadOps \cup SpliceOps \cup {"tee", "accept", "accept_loop"}
          /\ i.in < MaxIn /\ UNCHANGED <<fs, ws, sched, cur, loop>>
          /\ io' = [io EXCEPT ![f].src = @ + 1, ![f].in = @ + 1]
      BY <1>5 DEF PeerSends
    <2>2. i.src <= i.in
      BY <1>2, <1>3, <2>1 DEF Accounts, AcceptOps
    <2>3. m \in Ins /\ n \in Ins
      BY <1>3, <2>1, <2>2 DEF Ins
    <2>4. io' = [io EXCEPT ![f] = j]
      BY <1>1, <1>4, <2>1 DEF Descriptors
    <2>. HIDE DEF m, n
    <2>5. /\ j \in Descriptors /\ j.src = m /\ j.in = n /\ j.room = i.room /\ j.out = i.out
          /\ j.pipe = i.pipe /\ j.text = i.text
      BY <1>1, <2>3 DEF Descriptors
    <2>. HIDE DEF j, s, i
    <2>6. Accounts(s, j)
      BY <1>2, <1>3, <2>5 DEF Accounts, m, n
    <2>7. s.op # "none"
      BY <2>1 DEF ReadOps, SpliceOps
    <2>. QED
      BY <2>1, <2>4, <2>5, <2>6, <2>7, PeerKeeps DEF s, i
  <1>6. CASE PeerEnds(f)
    <2>. DEFINE j == [i EXCEPT !.eof = TRUE]
    <2>1. /\ Blocks(f) /\ UNCHANGED <<fs, ws, sched, cur, loop>>
          /\ s.op \in ReadOps \cup SpliceOps \cup {"tee", "wait_io", "waitpid", "waitpid_child"}
          /\ io' = [io EXCEPT ![f].eof = TRUE]
      BY <1>6 DEF PeerEnds
    <2>2. io' = [io EXCEPT ![f] = j]
      BY <1>4, <2>1
    <2>3. /\ j \in Descriptors /\ j.src = i.src /\ j.in = i.in /\ j.room = i.room /\ j.out = i.out
          /\ j.pipe = i.pipe /\ j.text = i.text
      BY <1>1 DEF Descriptors
    <2>. HIDE DEF j, s, i
    <2>4. Accounts(s, j)
      BY <1>2, <2>3 DEF Accounts
    <2>5. s.op # "none"
      BY <2>1 DEF ReadOps, SpliceOps
    <2>. QED
      BY <2>1, <2>2, <2>3, <2>4, <2>5, PeerKeeps DEF s, i
  <1>7. CASE PeerTakes(f)
    <2>. DEFINE m == i.room + 1
                j == [i EXCEPT !.room = m]
    <2>1. /\ Blocks(f) /\ s.op \in WriteOps \cup SpliceOps \cup {"tee", "connect"}
          /\ i.room + i.out < MaxOut /\ UNCHANGED <<fs, ws, sched, cur, loop>>
          /\ io' = [io EXCEPT ![f].room = @ + 1]
      BY <1>7 DEF PeerTakes
    <2>2. m \in Outs /\ m + i.out <= MaxOut
      BY <1>3, <2>1 DEF Outs
    <2>3. io' = [io EXCEPT ![f] = j]
      BY <1>4, <2>1
    <2>. HIDE DEF m
    <2>4. /\ j \in Descriptors /\ j.src = i.src /\ j.in = i.in /\ j.room = m /\ j.out = i.out
          /\ j.pipe = i.pipe /\ j.text = i.text
      BY <1>1, <2>2 DEF Descriptors
    <2>. HIDE DEF j, s, i
    <2>5. Accounts(s, j)
      BY <1>2, <2>2, <2>4 DEF Accounts
    <2>6. s.op # "none"
      BY <2>1 DEF WriteOps, SpliceOps
    <2>. QED
      BY <2>1, <2>3, <2>4, <2>5, <2>6, PeerKeeps DEF s, i
  <1>. QED
    BY <1>5, <1>6, <1>7

LEMMA PollingKeeps ==
  ASSUME BackendInv, Backend_poll \/ break_async_callback
  PROVE  BackendInv'
  <1>1. UNCHANGED <<fs, ws, io, sched, cur, pipe>> /\ polling' \in BOOLEAN /\ woken' \in BOOLEAN
    BY DEF Backend_poll, break_async_callback, BackendInv, Functions
  <1>2. PollInv'
    <2>1. CASE Backend_poll
      BY <2>1 DEF Backend_poll, PollInv, NoStuckPoll
    <2>2. CASE break_async_callback
      BY <2>2 DEF break_async_callback, PollInv, NoStuckPoll
    <2>. QED
      BY <2>1, <2>2
  <1>3. Functions'
    BY <1>1 DEF BackendInv, Functions
  <1>. QED
    BY <1>1, <1>2, <1>3 DEF BackendInv

----------------------------------------------------------------------------
(* The invariant *)

LEMMA BackendInvInit == Init => BackendInv
  <1>. SUFFICES ASSUME Init PROVE BackendInv
    OBVIOUS
  <1>1. FiberInv(NoOp, NoWatchers, NoIo, "nil")
    <2>1. Typed(NoOp, NoWatchers, NoIo, "nil")
      <3>1. NoWatchers \in Watchers
        BY Zeros DEF NoWatchers, Watchers
      <3>. QED
        BY <3>1, NoOpTyped, NoIoTyped DEF Typed, Values
    <2>2. Shape(NoOp, NoWatchers, NoIo)
      BY DEF NoOp, NoWatchers, NoIo, Shape, Idle
    <2>3. Accounts(NoOp, NoIo)
      BY Sizes DEF NoOp, NoIo, Accounts, ReadOps, WriteOps, SpliceOps, AcceptOps
    <2>4. Watches(NoOp, NoWatchers, "nil")
      BY DEF NoOp, NoWatchers, Watches, ReadOps, WriteOps, SrcOps, DestOps, PairOps, CopyOps,
         AcceptOps
    <2>5. Opens(NoOp) /\ Times(NoOp, NoWatchers, "nil")
      BY DEF NoOp, NoWatchers, Opens, Times
    <2>. QED
      BY <2>1, <2>2, <2>3, <2>4, <2>5 DEF FiberInv
  <1>2. ASSUME NEW f \in Fibers
        PROVE  FiberInv(fs[f], ws[f], io[f], sched[f]) /\ RunInv(f, fs[f], sched[f], cur)
    <2>1. fs[f] = NoOp /\ ws[f] = NoWatchers /\ io[f] = NoIo /\ sched[f] = "nil" /\ cur = NoFiber
      BY DEF Init
    <2>2. f # NoFiber
      BY LibevAssumption DEF LibevAssumption
    <2>3. RunInv(f, NoOp, "nil", NoFiber)
      BY <2>2 DEF RunInv, NoOp
    <2>. QED
      BY <1>1, <2>1, <2>3
  <1>3. Functions
    BY DEF Init, Functions
  <1>4. PollInv
    BY DEF Init, PollInv, NoStuckPoll
  <1>. QED
    BY <1>2, <1>3, <1>4 DEF BackendInv

LEMMA BackendInvNext == BackendInv /\ [Next]_vars => BackendInv'
  <1>. SUFFICES ASSUME BackendInv, [Next]_vars PROVE BackendInv'
    OBVIOUS
  <1>1. CASE Backend_poll \/ break_async_callback
    BY <1>1, PollingKeeps
  <1>2. ASSUME NEW f \in Fibers, Operation(f)
        PROVE  BackendInv'
    <2>1. CASE \/ Backend_read(f) \/ Backend_recvmsg(f) \/ Backend_read_loop(f)
               \/ Backend_feed_loop(f)
      BY <2>1, Backend_readKeeps, ReadingKeeps
    <2>2. CASE Backend_write(f) \/ Backend_writev(f) \/ Backend_send(f) \/ Backend_sendmsg(f)
      BY <2>2, WritingKeeps
    <2>3. CASE \/ Backend_accept(f) \/ Backend_accept_loop(f) \/ Backend_connect(f)
               \/ Backend_close(f)
      BY <2>3, AcceptingKeeps, SocketKeeps
    <2>4. CASE Backend_splice(f) \/ Backend_tee(f) \/ copy(f) \/ Backend_splice_chunks(f)
      BY <2>4, Backend_spliceKeeps, Backend_teeKeeps, copyKeeps, Backend_splice_chunksKeeps
    <2>5. CASE \/ libev_wait_fd(f) \/ Backend_waitpid(f) \/ waitpid_child(f)
               \/ Backend_wait_event(f) \/ Backend_sleep(f) \/ Backend_timer_loop(f)
               \/ Backend_snooze(f)
      BY <2>5, WaitingKeeps, Backend_waitpidKeeps, Backend_timer_loopKeeps
    <2>6. CASE Backend_chain(f)
      BY <2>6, StartingKeeps
    <2>7. CASE Backend_timeout_ensure(f) \/ Run(f)
      BY <2>7, BlocksKeep
    <2>. QED
      BY <1>2, <2>1, <2>2, <2>3, <2>4, <2>5, <2>6, <2>7 DEF Operation
  <1>3. ASSUME NEW f \in Fibers,
               \/ Callback(f) \/ Start(f) \/ Backend_timeout(f) \/ Backend_post_fork(f)
               \/ Finish(f) \/ Schedule(f) \/ PeerSends(f) \/ PeerEnds(f) \/ PeerTakes(f)
        PROVE  BackendInv'
    BY <1>3, CallbacksKeep, StartingKeeps, BlocksKeep, Backend_post_forkKeeps, ScheduleKeeps,
       PeersKeep
  <1>4. CASE UNCHANGED vars
    <2>1. /\ UNCHANGED fs /\ UNCHANGED ws /\ UNCHANGED io /\ UNCHANGED sched /\ UNCHANGED cur
          /\ UNCHANGED polling /\ UNCHANGED woken /\ UNCHANGED pipe
      BY <1>4 DEF vars
    <2>2. Functions' /\ PollInv'
      BY <2>1 DEF BackendInv, Functions, PollInv, NoStuckPoll
    <2>. QED
      BY <2>1, <2>2 DEF BackendInv
  <1>. QED
    BY <1>1, <1>2, <1>3, <1>4 DEF Next

\* BackendInv is an invariant of the libev backend: what the functions of
\* backend_libev.c keep of the records of every fiber.
THEOREM BackendInvHolds == Spec => []BackendInv
  <1>1. Init => BackendInv
    BY BackendInvInit
  <1>2. BackendInv /\ [Next]_vars => BackendInv'
    BY BackendInvNext
  <1>. QED
    BY <1>1, <1>2, PTL DEF Spec

----------------------------------------------------------------------------
(* What it says of the backend *)

\* Types; a buffer that cannot grow holds no more than its length
\* (backend_read, backend_recvmsg); and no watcher that the loop knows is in
\* the frame of a function that has returned: every way out of a wait stops
\* what the wait has started.
THEOREM BackendIsWellFormed == Spec => []WellFormed
  <1>1. BackendInv => WellFormed
    <2>. SUFFICES ASSUME BackendInv PROVE WellFormed
      OBVIOUS
    <2>1. /\ cur \in Fibers \cup {NoFiber} /\ {polling, woken, pipe} \subseteq BOOLEAN
          /\ sched = [f \in Fibers |-> sched[f]]
      BY DEF BackendInv, Functions
    <2>2. sched \in [Fibers -> Values \cup {NoValue}]
      BY <2>1, Unpacked
    <2>3. ASSUME NEW f \in Fibers
          PROVE  /\ fs[f].pc \in {"app", "call", "wait", "snooze", "raise", "dead"}
                 /\ fs[f].left \in 0..BufLen /\ fs[f].held \in 0..BufLen
                 /\ fs[f].total \in 0..MaxIn
                 /\ fs[f].op \in {"read", "read_to_eof", "recvmsg"} =>
                        fs[f].total + fs[f].held <= BufLen
                 /\ ws[f].on \in SUBSET {"io", "r", "w", "timer", "child", "async"}
                 /\ ws[f].ref \in -1..2 /\ ws[f].timer \in {"off", "on", "fired"}
                 /\ io[f].src \in 0..MaxIn /\ io[f].room \in 0..MaxOut /\ io[f].pipe \in 0..BufLen
                 /\ ws[f].on # {} => fs[f].pc = "wait"
                 /\ ws[f].timer = "on" => fs[f].block
      <3>1. /\ FiberInv(fs[f], ws[f], io[f], sched[f]) /\ fs[f] \in States
            /\ ws[f] \in Watchers /\ io[f] \in Descriptors
        BY Unpacked
      <3>2. fs[f].pc \in {"app", "call", "wait", "snooze", "raise", "dead"}
        BY <3>1 DEF States, Pcs
      <3>3. /\ fs[f].left \in 0..BufLen /\ fs[f].held \in 0..BufLen /\ fs[f].total \in 0..MaxIn
        BY <3>1 DEF States, Amounts, Ins
      <3>4. /\ ws[f].on \in SUBSET {"io", "r", "w", "timer", "child", "async"}
            /\ ws[f].ref \in -1..2 /\ ws[f].timer \in {"off", "on", "fired"}
        BY <3>1 DEF Watchers, Refs
      <3>5. /\ io[f].src \in 0..MaxIn /\ io[f].room \in 0..MaxOut /\ io[f].pipe \in 0..BufLen
        BY <3>1 DEF Descriptors, Ins, Outs, Amounts
      <3>6. /\ fs[f].op \in {"read", "read_to_eof", "recvmsg"} =>
                  fs[f].total + fs[f].held <= BufLen
            /\ ws[f].on # {} => fs[f].pc = "wait"
            /\ ws[f].timer = "on" => fs[f].block
        BY <3>1 DEF FiberInv, Accounts, Watches, Times
      <3>. QED
        BY <3>2, <3>3, <3>4, <3>5, <3>6
    <2>4. TypeOK
      BY <2>1, <2>2, <2>3 DEF TypeOK
    <2>5. WatchersDoNotOutlive
      BY <2>3 DEF WatchersDoNotOutlive
    <2>. QED
      BY <2>4, <2>5 DEF WellFormed
  <1>. QED
    BY <1>1, BackendInvHolds, PTL

\* Every byte is counted once: the totals of the C functions, and what is under
\* way in them, are what the kernel has moved, whatever short reads and
\* writes, spurious wakeups and interruptions there were.
THEOREM TransferIsAccounted == Spec => []TransferAccounted
  <1>1. BackendInv => TransferAccounted
    <2>. SUFFICES ASSUME BackendInv, NEW f \in Fibers
                  PROVE  /\ fs[f].op \in ReadOps \cup {"accept", "accept_loop"} =>
                                io[f].in = io[f].src + fs[f].total + fs[f].held
                         /\ fs[f].op \in WriteOps => io[f].out = BufLen - fs[f].left
                         /\ fs[f].op \in SpliceOps =>
                                /\ io[f].in = io[f].src + fs[f].total
                                /\ io[f].out = fs[f].total - fs[f].left + io[f].text
                         /\ fs[f].op = "splice_chunks" => io[f].pipe = fs[f].left
      BY DEF TransferAccounted
    <2>1. Accounts(fs[f], io[f])
      BY Unpacked DEF FiberInv
    <2>. QED
      BY <2>1 DEF Accounts, AcceptOps
  <1>. QED
    BY <1>1, BackendInvHolds, PTL

\* The pidfd of waitpid, an accepted connection and the pipe of splice_chunks
\* are closed or given away when the operation is over, however it ended.
THEOREM DescriptorsAreClosed == Spec => []DescriptorsClosed
  <1>1. BackendInv => DescriptorsClosed
    <2>. SUFFICES ASSUME BackendInv, NEW f \in Fibers, fs[f].pc \in {"app", "raise", "dead"}
                  PROVE  fs[f].open = 0
      BY DEF DescriptorsClosed
    <2>1. FiberInv(fs[f], ws[f], io[f], sched[f])
      BY Unpacked
    <2>2. fs[f].op = "none"
      BY <2>1 DEF FiberInv, Shape, Idle
    <2>. QED
      BY <2>1, <2>2 DEF FiberInv, Opens, AcceptOps
  <1>. QED
    BY <1>1, BackendInvHolds, PTL

\* The exception of Backend_timeout is not delivered outside of its block, and
\* once the timer has fired only another exception takes its place.
THEOREM TimeoutIsAlwaysExact == Spec => []TimeoutIsExact
  <1>1. BackendInv => TimeoutIsExact
    <2>. SUFFICES ASSUME BackendInv, NEW f \in Fibers
                  PROVE  /\ sched[f] = "timeout" => fs[f].block
                         /\ ws[f].timer = "fired" => fs[f].pc = "raise" \/ IS_EXCEPTION(sched[f])
      BY DEF TimeoutIsExact
    <2>. QED
      BY Unpacked DEF FiberInv, Times
  <1>. QED
    BY <1>1, BackendInvHolds, PTL

\* Backend_wakeup ends every blocking poll under which a fiber was scheduled,
\* as long as the loop has its evpipe.
THEOREM NoPollIsStuck == Spec => []NoStuckPoll
  <1>1. BackendInv => NoStuckPoll
    BY DEF BackendInv, PollInv
  <1>. QED
    BY <1>1, BackendInvHolds, PTL

\* A fiber that waits is scheduled or has a watcher, and the watcher is one
\* that the loop calls back when what the operation needs is there, but for
\* the copy that waits on the wrong side.
THEOREM NobodyIsForgotten == Spec => []NobodyForgotten
  <1>1. BackendInv => NobodyForgotten
    <2>. SUFFICES ASSUME BackendInv, NEW f \in Fibers, fs[f].pc = "wait", sched[f] = NoValue
                  PROVE  /\ ws[f].on # {}
                         /\ ws[f].aim = "both" => ws[f].ref >= 0
                         /\ NeedIsMet(f) => Misaimed(f) \/ \E w \in ws[f].on : Ready(f, w)
      BY DEF NobodyForgotten
    <2>1. FiberInv(fs[f], ws[f], io[f], sched[f]) /\ io[f] \in Descriptors
      BY Unpacked
    <2>2. Watches(fs[f], ws[f], NoValue) /\ Shape(fs[f], ws[f], io[f])
      BY <2>1 DEF FiberInv
    <2>3. ws[f].on # {}
      BY <2>2 DEF Watches
    <2>4. ws[f].aim = "both" => ws[f].ref >= 0
      BY <2>2 DEF Watches, SrcOps, DestOps, PairOps, CopyOps
    <2>5. ASSUME NeedIsMet(f)
          PROVE  Misaimed(f) \/ \E w \in ws[f].on : Ready(f, w)
      <3>0. /\ Ready(f, "io") = (IF ws[f].aim = "src" THEN SrcReady(f) ELSE DestReady(f))
            /\ Ready(f, "r") = (IF fs[f].stage = "out" THEN io[f].pipe > 0 ELSE SrcReady(f))
            /\ Ready(f, "w") = (fs[f].stage = "in" \/ DestReady(f))
            /\ Ready(f, "child") = io[f].eof
        BY DEF Ready
      <3>1. CASE fs[f].op \in ReadOps \cup AcceptOps
        <4>1. NeedIsMet(f) = SrcReady(f)
          <5>1. fs[f].op \in ReadOps \cup {"accept", "accept_loop"}
            BY <3>1 DEF AcceptOps
          <5>2. fs[f].op \notin WriteOps \cup {"connect"}
            BY <5>1 DEF ReadOps, WriteOps
          <5>3. fs[f].op \notin {"waitpid", "waitpid_child", "splice", "splice_to_eof", "tee",
                                 "copy", "copy_to_eof", "splice_chunks"}
            BY <5>1 DEF ReadOps
          <5>. QED
            BY <5>1, <5>2, <5>3 DEF NeedIsMet
        <4>2. ws[f].on = {"io"} /\ ws[f].aim = "src"
          BY <2>2, <3>1 DEF Watches, SrcOps
        <4>. QED
          BY <2>5, <3>0, <4>1, <4>2
      <3>2. CASE fs[f].op \in DestOps
        <4>1. NeedIsMet(f) = DestReady(f)
          BY <3>2 DEF NeedIsMet, DestOps, ReadOps, WriteOps
        <4>2. ws[f].on = {"io"} /\ ws[f].aim = "dest"
          BY <2>2, <3>2 DEF Watches
        <4>. QED
          BY <2>5, <3>0, <4>1, <4>2
      <3>3. CASE fs[f].op = "waitpid"
        <4>1. NeedIsMet(f) = io[f].eof
          BY <3>3 DEF NeedIsMet, ReadOps, WriteOps
        <4>2. ws[f].on = {"io"} /\ ws[f].aim = "src"
          BY <2>2, <3>3 DEF Watches, SrcOps
        <4>. QED
          BY <2>5, <3>0, <4>1, <4>2 DEF SrcReady
      <3>4. CASE fs[f].op = "waitpid_child"
        <4>1. NeedIsMet(f) = io[f].eof
          BY <3>4 DEF NeedIsMet, ReadOps, WriteOps
        <4>2. ws[f].on = {"child"}
          BY <2>2, <3>4 DEF Watches
        <4>. QED
          BY <2>5, <3>0, <4>1, <4>2
      <3>5. CASE fs[f].op \in {"splice", "splice_to_eof", "tee"}
        <4>1. NeedIsMet(f) = (SpliceResult(f, BufLen) # EAGAIN)
          BY <3>5 DEF NeedIsMet, ReadOps, WriteOps
        <4>2. ws[f].on = {"r", "w"} /\ fs[f].stage = "none"
          BY <2>2, <3>5 DEF Watches, PairOps, Shape
        <4>3. SrcReady(f)
          <5>1. SpliceResult(f, BufLen) # EAGAIN
            BY <2>5, <4>1
          <5>2. ReadResult(f, BufLen) # EAGAIN
            BY <5>1, EagainIsNegative DEF SpliceResult
          <5>. QED
            BY <5>2 DEF ReadResult, SrcReady
        <4>. QED
          BY <3>0, <4>2, <4>3
      <3>6. CASE fs[f].op \in CopyOps
        <4>1. NeedIsMet(f) = (IF fs[f].left = 0 THEN SrcReady(f) ELSE DestReady(f))
          BY <3>6 DEF NeedIsMet, ReadOps, WriteOps, CopyOps
        <4>2. ws[f].on = {"io"} /\ ws[f].aim \in {"src", "dest"}
          BY <2>2, <3>6 DEF Watches
        <4>3. CASE ws[f].aim = IF fs[f].left = 0 THEN "src" ELSE "dest"
          BY <2>5, <3>0, <4>1, <4>2, <4>3
        <4>4. CASE ws[f].aim # IF fs[f].left = 0 THEN "src" ELSE "dest"
          BY <3>6, <4>4 DEF Misaimed, CopyOps
        <4>. QED
          BY <4>3, <4>4
      <3>7. CASE fs[f].op = "splice_chunks"
        <4>1. NeedIsMet(f) = (IF fs[f].stage = "in" THEN SrcReady(f) ELSE DestReady(f))
          BY <3>7 DEF NeedIsMet, ReadOps, WriteOps
        <4>2. ws[f].on = IF fs[f].stage \in {"in", "out"} THEN {"r", "w"} ELSE {"w"}
          BY <2>2, <3>7 DEF Watches
        <4>. QED
          BY <2>5, <3>0, <4>1, <4>2
      <3>8. CASE ~(\/ fs[f].op \in ReadOps \cup AcceptOps \/ fs[f].op \in DestOps
                   \/ fs[f].op \in {"waitpid", "waitpid_child", "splice", "splice_to_eof", "tee",
                                    "splice_chunks"}
                   \/ fs[f].op \in CopyOps)
        <4>1. NeedIsMet(f) = FALSE
          BY <3>8 DEF NeedIsMet, AcceptOps, DestOps, CopyOps
        <4>. QED
          BY <2>5, <4>1
      <3>. QED
        BY <3>1, <3>2, <3>3, <3>4, <3>5, <3>6, <3>7, <3>8
    <2>. QED
      BY <2>3, <2>4, <2>5
  <1>. QED
    BY <1>1, BackendInvHolds, PTL
=============================================================================
