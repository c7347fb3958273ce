--------------------------- MODULE UringOpsProofs ---------------------------
(***************************************************************************)
(* The references of operation contexts are counted exactly, and so are    *)
(* the bytes of every transfer, whatever the fibers do and however late    *)
(* the kernel completes what they gave up.                                 *)
(*                                                                         *)
(* The invariant UInv is stated of a backend b and the states F of the     *)
(* fibers, not of the variables, so that an action can be followed through *)
(* the states between its calls.  It has three parts: what holds of every  *)
(* context, given the number of fibers that hold it (ContextOK); what      *)
(* holds of every fiber and the contexts it holds (FiberOK); and what      *)
(* holds of the shared context of the event waits (EventOK).               *)
(*                                                                         *)
(* TallyInv, about bytes, rests on it: a transfer in flight has its own    *)
(* context, and what was moved is what was counted before the request or   *)
(* that and the result the completion wrote.  It is kept because a fiber   *)
(* leaves the contexts of the other transfers alone.                       *)
(***************************************************************************)
EXTENDS UringOps, UringBackendProofs, DequeProofs, SequenceTheorems

ChainOps == {"chain", "splice_chunks"}
ReadWriteOps == ReadOps \cup WriteOps
PlainOps == {"accept", "accept_each", "splice", "splice_to_eof", "tee", "connect",
             "wait_io", "waitpid", "close", "sleep"}
OneRequestOps == ReadWriteOps \cup PlainOps

FiberStates ==
    [op : OpNames \cup {"none"}, pc : {"app", "await", "raise", "dead"},
     ctx : Contexts \cup {NoCtx}, aux : Contexts \cup {NoCtx}, left : Int,
     total : Nat, moved : 0..MaxMoved, timer : Contexts \cup {NoCtx},
     queue : Fibers \cup {NoFiber}, step : Nat]

----------------------------------------------------------------------------
(* Contexts *)

\* The buffers of c are kept: by the n fibers that hold c, or with c.
KeptOK(b, c, n) ==
    /\ b.ctx[c].type \notin BufferKinds \cup {"CHAIN"} =>
          \A i \in DOMAIN ReqsOf(b, c) : ReqsOf(b, c)[i].kind \notin BufferKinds
    /\ b.ctx[c].type \in BufferKinds \cup {"CHAIN"} /\ ReqsOf(b, c) # <<>> =>
          b.ctx[c].buffers # "none" \/ n > 0

ContextOK(b, c, n) ==
    /\ b.ctx[c].ref = 0 => FreeOK(b, c, n)
    /\ b.ctx[c].ref \notin {0, MULTISHOT_REFCOUNT} => CountOK(b, c, n)
    /\ b.ctx[c].ref = MULTISHOT_REFCOUNT => MultishotOK(b, c, n)
    /\ b.ctx[c].ref # 0 => b.ctx[c].fiber \in Fibers
    /\ KeptOK(b, c, n)
    /\ b.ctx[c].resume = "timeout" => b.ctx[c].type = "TIMEOUT"

Good(b, h) == Wf(b) /\ \A c \in Contexts : ContextOK(b, c, h[c])

----------------------------------------------------------------------------
(* Fibers *)

AwaitOK(b, f, s) ==
    /\ s.op \in OneRequestOps =>
          s.aux = NoCtx /\ s.ctx # NoCtx /\ WaitsForOne(b, f, s.ctx)
    /\ s.op \in ReadWriteOps => b.ctx[s.ctx].type \in BufferKinds
    /\ s.op \in PlainOps => b.ctx[s.ctx].type \notin BufferKinds \cup {"CHAIN"}
    /\ s.op \in WriteOps => s.left <= BufLen
    /\ s.op = "timer_loop" =>
          /\ s.aux = NoCtx
          /\ s.ctx = NoCtx => b.sched[f] # NoValue
          /\ s.ctx # NoCtx =>
                WaitsForOne(b, f, s.ctx) /\ b.ctx[s.ctx].type = "TIMEOUT"
    /\ s.op \in ChainOps => s.aux = NoCtx /\ s.ctx # NoCtx /\ Waits(b, f, s.ctx)
    /\ s.op = "chain" => b.ctx[s.ctx].type = "CHAIN"
    /\ s.op = "splice_chunks" => b.ctx[s.ctx].type = "SPLICE"
    /\ s.op = "double_splice" =>
          /\ s.aux # NoCtx /\ WaitsForOne(b, f, s.aux) /\ b.ctx[s.aux].type = "SPLICE"
          /\ s.ctx # NoCtx => WaitsForOne(b, f, s.ctx) /\ b.ctx[s.ctx].type = "SPLICE"
          /\ s.aux # s.ctx /\ Drains(b, s.aux, s.ctx # NoCtx)
    /\ s.op \in EventOps => s.ctx = NoCtx /\ b.event # NoCtx
    /\ s.op = "accept_queued" => s.queue \in Fibers
    /\ s.op \in EventOps \ {"accept_loop"} => s.aux = NoCtx
    /\ s.op = "accept_loop" =>
          s.aux # NoCtx /\ Mine(b, f, s.aux) /\ b.ctx[s.aux].ref = MULTISHOT_REFCOUNT
    /\ s.op = "snooze" => s.ctx = NoCtx /\ s.aux = NoCtx /\ b.sched[f] # NoValue
    /\ s.op \in OneRequestOps \cup ChainOps \cup EventOps
                  \cup {"timer_loop", "double_splice", "snooze"}

FiberOK(b, f, s) ==
    /\ s \in FiberStates
    /\ s.pc # "await" => s.ctx = NoCtx /\ s.aux = NoCtx
    /\ s.pc = "await" => AwaitOK(b, f, s)
    /\ s.timer # NoCtx =>
          /\ Mine(b, f, s.timer) /\ b.ctx[s.timer].ref # MULTISHOT_REFCOUNT
          /\ b.ctx[s.timer].type = "TIMEOUT" /\ s.timer \notin {s.ctx, s.aux}
    /\ s.timer = NoCtx => b.sched[f] # "timeout"

----------------------------------------------------------------------------
(* The invariant *)

EventWaiters(F) == {f \in Fibers : F[f].pc = "await" /\ F[f].op \in EventOps}
HoldersOf(F, e, c) ==
    Cardinality(Users(F, c)) + Cardinality(Timed(F, c))
    + (IF c = e THEN Cardinality(EventWaiters(F)) ELSE 0)
Held(F, e) == [c \in Contexts |-> HoldersOf(F, e, c)]

BackendOK(b, F) ==
    /\ Good(b, Held(F, b.event)) /\ Dooms(b) /\ EventOK(b)
    /\ F \in [Fibers -> FiberStates]
    /\ \A f \in Fibers : FiberOK(b, f, F[f])

UInv ==
    /\ BackendOK(bk, fs) /\ SqOK(bk)
    /\ cur \in Fibers \cup {NoFiber}
    /\ cur \in Fibers => fs[cur].pc # "await" /\ bk.sched[cur] = NoValue

----------------------------------------------------------------------------
(* What goes on when nothing happens to a context *)

LEMMA UntouchedContext ==
  ASSUME NEW b \in Backends, NEW b2 \in Backends, NEW c, Untouched(b, b2, c), NEW n,
         ContextOK(b, c, n)
  PROVE  ContextOK(b2, c, n)
<1>1. /\ ReqsOf(b2, c) = ReqsOf(b, c) /\ Out(b2, c) = Out(b, c) /\ b2.ctx[c] = b.ctx[c]
      /\ Doomed(b2, c) => Doomed(b, c)
      /\ Answers(b, c) = {} <=> Answers(b2, c) = {}
  BY UntouchedOut
<1>2. FreeOK(b, c, n) => FreeOK(b2, c, n)
  BY <1>1 DEF FreeOK
<1>3. CountOK(b, c, n) => CountOK(b2, c, n)
  <2>1. (\A i \in Answers(b, c) : ~b.cq[i].more) => \A i \in Answers(b2, c) : ~b2.cq[i].more
    BY UntouchedAnswers
  <2>2. QED
    BY <1>1, <2>1 DEF CountOK
<1>4. MultishotOK(b, c, n) => MultishotOK(b2, c, n)
  BY <1>1, UntouchedGoesOn, UntouchedHasEnded DEF MultishotOK
<1>5. KeptOK(b, c, n) => KeptOK(b2, c, n)
  BY <1>1 DEF KeptOK
<1>6. QED
  BY <1>1, <1>2, <1>3, <1>4, <1>5 DEF ContextOK

----------------------------------------------------------------------------
(* What a call leaves alone *)

IsWaiter(s) == s.pc = "await" /\ s.op \in EventOps

LEMMA UntouchedFiber ==
  ASSUME NEW b \in Backends, NEW b2 \in Backends, NEW f, NEW s, FiberOK(b, f, s),
         \A c \in Claims(s) : Untouched(b, b2, c) /\ c # b2.event,
         IsWaiter(s) => b2.event # NoCtx, SchedKept(b, b2, f, s)
  PROVE  FiberOK(b2, f, s)
<1>1. b2.sched[f] = NoValue => b.sched[f] = NoValue
  BY DEF SchedKept
<1>2. \A c \in Claims(s) :
        /\ b2.ctx[c] = b.ctx[c]
        /\ Mine(b, f, c) => Mine(b2, f, c)
        /\ Waits(b, f, c) => Waits(b2, f, c)
        /\ WaitsForOne(b, f, c) => WaitsForOne(b2, f, c)
        /\ \A o \in BOOLEAN : Drains(b, c, o) => Drains(b2, c, o)
  BY <1>1, UntouchedWaits, UntouchedOut
<1>3. /\ s.ctx # NoCtx => s.ctx \in Claims(s)
      /\ s.aux # NoCtx => s.aux \in Claims(s)
      /\ s.timer # NoCtx => s.timer \in Claims(s)
  BY DEF Claims
<1>4. ASSUME s.pc = "await", AwaitOK(b, f, s)
      PROVE  AwaitOK(b2, f, s)
  <2>1. s.op \in EventOps => b2.event # NoCtx
    BY <1>4 DEF IsWaiter
  <2>2. s.op \in ReadWriteOps \cup PlainOps => s.op \in OneRequestOps
    BY DEF OneRequestOps
  <2>3. s.op \in {"chain", "splice_chunks"} => s.op \in ChainOps
    BY DEF ChainOps
  <2>4. s.op \in OneRequestOps => WaitsForOne(b2, f, s.ctx) /\ b2.ctx[s.ctx] = b.ctx[s.ctx]
    BY <1>2, <1>3, <1>4 DEF AwaitOK
  <2>5. s.op \in ChainOps => Waits(b2, f, s.ctx) /\ b2.ctx[s.ctx] = b.ctx[s.ctx]
    BY <1>2, <1>3, <1>4 DEF AwaitOK
  <2>6. s.op = "timer_loop" /\ s.ctx # NoCtx =>
          WaitsForOne(b2, f, s.ctx) /\ b2.ctx[s.ctx] = b.ctx[s.ctx]
    BY <1>2, <1>3, <1>4 DEF AwaitOK
  <2>7. s.op = "double_splice" =>
          /\ WaitsForOne(b2, f, s.aux) /\ b2.ctx[s.aux] = b.ctx[s.aux]
          /\ s.ctx # NoCtx => WaitsForOne(b2, f, s.ctx) /\ b2.ctx[s.ctx] = b.ctx[s.ctx]
          /\ Drains(b2, s.aux, s.ctx # NoCtx)
    BY <1>2, <1>3, <1>4 DEF AwaitOK
  <2>8. s.op = "accept_loop" => Mine(b2, f, s.aux) /\ b2.ctx[s.aux] = b.ctx[s.aux]
    BY <1>2, <1>3, <1>4 DEF AwaitOK
  <2>9. QED
    BY <1>1, <1>4, <2>1, <2>2, <2>3, <2>4, <2>5, <2>6, <2>7, <2>8 DEF AwaitOK
<1>5. s.timer # NoCtx => Mine(b2, f, s.timer) /\ b2.ctx[s.timer] = b.ctx[s.timer]
  BY <1>2, <1>3 DEF FiberOK
<1>6. QED
  BY <1>4, <1>5 DEF FiberOK, SchedKept

\* All is well but for fiber f, which is running through its calls; h[c] is
\* the number of fibers that hold context c.
Between(b, F, f, h) ==
    /\ Good(b, h) /\ EventOK(b) /\ h \in [Contexts -> Nat]
    /\ F \in [Fibers -> FiberStates]
    /\ \A g \in Fibers : g # f => FiberOK(b, g, F[g])

\* What is claimed is typed, and the fiber's own.
LEMMA ClaimsMine ==
  ASSUME NEW b \in Backends, NEW g, NEW s, FiberOK(b, g, s), NEW c \in Claims(s)
  PROVE  Mine(b, g, c)
<1>1. CASE s.pc # "await"
  BY <1>1 DEF FiberOK, Claims
<1>2. CASE s.pc = "await"
  <2>1. c = s.timer => Mine(b, g, c)
    BY DEF FiberOK, Claims
  <2>2. AwaitOK(b, g, s)
    BY <1>2 DEF FiberOK
  <2>3. ASSUME c = s.ctx PROVE Mine(b, g, c)
    BY <2>2, <2>3 DEF AwaitOK, Claims, WaitsForOne, Waits
  <2>4. ASSUME c = s.aux PROVE Mine(b, g, c)
    BY <2>2, <2>4 DEF AwaitOK, Claims, WaitsForOne, Waits
  <2>5. QED
    BY <2>1, <2>3, <2>4 DEF Claims
<1>3. QED
  BY <1>1, <1>2

LEMMA PrivateContexts ==
  ASSUME NEW b, NEW F, NEW f \in Fibers, NEW h, Between(b, F, f, h), NEW c \in Contexts,
         Mine(b, f, c) \/ b.ctx[c].ref = 0 \/ c = b.event
  PROVE  Private(F, f, c)
<1>1. SUFFICES ASSUME NEW g \in Fibers, g # f, c \in Claims(F[g]) PROVE FALSE
  BY DEF Private
<1>2. b \in Backends /\ FiberOK(b, g, F[g])
  BY <1>1 DEF Between, Good, Wf
<1>3. Mine(b, g, c)
  BY <1>1, <1>2, ClaimsMine
<1>4. QED
  BY <1>1, <1>3 DEF Mine

\* A call that touches context c only, and the event if that is c.
EventMoves(b, b2, F, f, c) ==
    /\ b2.event \in {b.event, c, NoCtx} /\ EventOK(b2)
    /\ \A g \in Fibers : g # f /\ IsWaiter(F[g]) => b2.event # NoCtx
Settles(b2, c, n) == n \in Nat /\ ContextOK(b2, c, n)

\* What happens to one context c leaves all well that has nothing to do with it.
LEMMA UntouchedBetween ==
  ASSUME NEW b, NEW F, NEW f, NEW h, Between(b, F, f, h), NEW c \in Contexts, Private(F, f, c),
         NEW b2, Wf(b2), \A d \in Contexts : d # c => Untouched(b, b2, d),
         \A g \in Fibers : g # f => SchedKept(b, b2, g, F[g]),
         EventMoves(b, b2, F, f, c), NEW n, Settles(b2, c, n)
  PROVE  Between(b2, F, f, [h EXCEPT ![c] = n])
<1>1. b \in Backends /\ b2 \in Backends
  BY DEF Between, Good, Wf
<1>3. \A d \in Contexts : ContextOK(b2, d, [h EXCEPT ![c] = n][d])
  <2>1. SUFFICES ASSUME NEW d \in Contexts PROVE ContextOK(b2, d, [h EXCEPT ![c] = n][d])
    OBVIOUS
  <2>2. CASE d = c
    <3>1. [h EXCEPT ![c] = n][d] = n
      BY <2>2 DEF Between
    <3>2. QED
      BY <2>2, <3>1 DEF Settles
  <2>3. CASE d # c
    <3>1. [h EXCEPT ![c] = n][d] = h[d]
      BY <2>3 DEF Between
    <3>2. ContextOK(b, d, h[d])
      BY DEF Between, Good
    <3>3. ContextOK(b2, d, h[d])
      BY <1>1, <2>3, <3>2, UntouchedContext
    <3>4. QED
      BY <3>1, <3>3
  <2>4. QED
    BY <2>2, <2>3
<1>5. ASSUME NEW g \in Fibers, g # f
      PROVE  FiberOK(b2, g, F[g])
  <2>1. FiberOK(b, g, F[g])
    BY <1>5 DEF Between
  <2>2. \A d \in Claims(F[g]) : d \in Contexts /\ d # c /\ d # b.event /\ d # NoCtx
    BY <1>1, <1>5, <2>1, ClaimsMine DEF Private, Mine, Claims
  <2>3. \A d \in Claims(F[g]) : Untouched(b, b2, d) /\ d # b2.event
    BY <2>2 DEF EventMoves
  <2>4. SchedKept(b, b2, g, F[g])
    BY <1>5
  <2>5. IsWaiter(F[g]) => b2.event # NoCtx
    BY <1>5 DEF EventMoves
  <2>6. QED
    BY <1>1, <2>1, <2>3, <2>4, <2>5, UntouchedFiber
<1>6. [h EXCEPT ![c] = n] \in [Contexts -> Nat]
  BY DEF Between, Settles
<1>7. QED
  BY <1>3, <1>5, <1>6 DEF Between, Good, EventMoves

LEMMA TouchedBetween ==
  ASSUME NEW b, NEW F, NEW f \in Fibers, NEW h, Between(b, F, f, h),
         NEW c \in Contexts, Private(F, f, c), NEW b2, Touches(b, b2, c),
         EventMoves(b, b2, F, f, c), NEW n, Settles(b2, c, n)
  PROVE  Between(b2, F, f, [h EXCEPT ![c] = n])
<1>1. b \in Backends /\ Wf(b2) /\ b.cq \in Seq(Completions)
  BY BackendFields DEF Between, Good, Wf, Touches
<1>2. \A d \in Contexts : d # c => Untouched(b, b2, d)
  BY <1>1, TouchedUntouched
<1>3. \A g \in Fibers : g # f => SchedKept(b, b2, g, F[g])
  BY DEF Between, SchedKept, FiberOK, Touches, OthersKept, SameRest
<1>4. QED
  BY <1>1, <1>2, <1>3, UntouchedBetween

LEMMA AllUntouched ==
  ASSUME NEW b, NEW F, NEW f, NEW h, Between(b, F, f, h), NEW b2, Wf(b2),
         \A c \in Contexts : Untouched(b, b2, c), b2.event = b.event,
         \A g \in Fibers : g # f => SchedKept(b, b2, g, F[g])
  PROVE  Between(b2, F, f, h)
<1>1. b \in Backends /\ b2 \in Backends
  BY DEF Between, Good, Wf
<1>2. \A c \in Contexts : ContextOK(b2, c, h[c])
  BY <1>1, UntouchedContext DEF Between, Good
<1>3. EventOK(b2)
  <2>1. b.event # NoCtx => Untouched(b, b2, b.event)
    BY DEF Between, EventOK
  <2>2. b.event # NoCtx => /\ ReqsOf(b2, b.event) = ReqsOf(b, b.event)
                           /\ b2.ctx[b.event] = b.ctx[b.event]
                           /\ Doomed(b2, b.event) => Doomed(b, b.event)
    BY <1>1, <2>1, UntouchedOut
  <2>3. QED
    BY <2>2 DEF Between, EventOK
<1>4. ASSUME NEW g \in Fibers, g # f
      PROVE  FiberOK(b2, g, F[g])
  <2>1. FiberOK(b, g, F[g])
    BY <1>4 DEF Between
  <2>2. \A d \in Claims(F[g]) : d \in Contexts /\ d # b.event
    BY <1>1, <2>1, ClaimsMine DEF Mine
  <2>3. \A d \in Claims(F[g]) : Untouched(b, b2, d) /\ d # b2.event
    BY <2>2
  <2>4. IsWaiter(F[g]) => b2.event # NoCtx
    BY <2>1 DEF IsWaiter, FiberOK, AwaitOK
  <2>5. SchedKept(b, b2, g, F[g])
    BY <1>4
  <2>6. QED
    BY <1>1, <2>1, <2>3, <2>4, <2>5, UntouchedFiber
<1>5. QED
  BY <1>2, <1>3, <1>4 DEF Between, Good

LEMMA SameUringBetween ==
  ASSUME NEW b, NEW F, NEW f \in Fibers, NEW h, Between(b, F, f, h), NEW b2, SameUring(b, b2),
         \A g \in Fibers : g # f => SchedKept(b, b2, g, F[g])
  PROVE  Between(b2, F, f, h)
<1>1. Wf(b) /\ Wf(b2)
  BY SameUringUntouched DEF Between, Good
<1>2. \A c \in Contexts : Untouched(b, b2, c)
  BY <1>1, SameUringUntouched
<1>3. b2.event = b.event
  BY DEF SameUring, SameContexts
<1>4. QED
  BY <1>1, <1>2, <1>3, AllUntouched

LEMMA QuietBetween ==
  ASSUME NEW b, NEW F, NEW f, NEW h, Between(b, F, f, h), NEW b2, Quiet(b, b2)
  PROVE  Between(b2, F, f, h)
<1>1. Wf(b) /\ Wf(b2)
  BY DEF Between, Good, Quiet
<1>2. /\ \A c \in Contexts : Untouched(b, b2, c)
      /\ b2.event = b.event /\ b2.sched = b.sched
  BY <1>1, QuietUntouched
<1>3. \A g \in Fibers : g # f => SchedKept(b, b2, g, F[g])
  BY <1>2 DEF Between, SchedKept, FiberOK
<1>4. QED
  BY <1>1, <1>2, <1>3, AllUntouched

----------------------------------------------------------------------------
(* Who holds what *)

Uses(s, c, e) ==
    One(s.pc = "await" /\ c \in {s.ctx, s.aux}) + One(s.timer = c)
    + One(c = e /\ IsWaiter(s))

\* The holders when the state of f becomes s.
Recount(F, f, s, e, c) ==
    /\ HoldersOf(F, e, c) \in Nat /\ Uses(s, c, e) \in Nat
    /\ HoldersOf(F, e, c) >= Uses(F[f], c, e)
    /\ HoldersOf([F EXCEPT ![f] = s], e, c)
         = HoldersOf(F, e, c) - Uses(F[f], c, e) + Uses(s, c, e)

LEMMA Reheld ==
  ASSUME NEW F \in [Fibers -> FiberStates], NEW f \in Fibers, NEW s \in FiberStates,
         NEW e, NEW c
  PROVE  Recount(F, f, s, e, c)
<1> DEFINE G == [F EXCEPT ![f] = s]
<1>1. G[f] = s /\ \A g \in Fibers : g # f => G[g] = F[g]
  OBVIOUS
<1> HIDE DEF G
<1>2. /\ Users(F, c) \in SUBSET Fibers /\ Users(G, c) \in SUBSET Fibers
      /\ Timed(F, c) \in SUBSET Fibers /\ Timed(G, c) \in SUBSET Fibers
      /\ EventWaiters(F) \in SUBSET Fibers /\ EventWaiters(G) \in SUBSET Fibers
  BY DEF Users, Timed, EventWaiters
<1>3. /\ \A g \in Fibers : g # f => (g \in Users(F, c) <=> g \in Users(G, c))
      /\ \A g \in Fibers : g # f => (g \in Timed(F, c) <=> g \in Timed(G, c))
      /\ \A g \in Fibers : g # f => (g \in EventWaiters(F) <=> g \in EventWaiters(G))
  BY <1>1 DEF Users, Timed, EventWaiters
<1>4. /\ One(f \in Users(F, c)) = One(F[f].pc = "await" /\ c \in {F[f].ctx, F[f].aux})
      /\ One(f \in Users(G, c)) = One(s.pc = "await" /\ c \in {s.ctx, s.aux})
      /\ One(f \in Timed(F, c)) = One(F[f].timer = c) /\ One(f \in Timed(G, c)) = One(s.timer = c)
      /\ c = e => /\ One(f \in EventWaiters(F)) = One(c = e /\ IsWaiter(F[f]))
                  /\ One(f \in EventWaiters(G)) = One(c = e /\ IsWaiter(s))
      /\ c # e => One(c = e /\ IsWaiter(F[f])) = 0 /\ One(c = e /\ IsWaiter(s)) = 0
  BY <1>1 DEF Users, Timed, EventWaiters, IsWaiter, One
<1>5. /\ Cardinality(Users(F, c)) \in Nat /\ Cardinality(Users(F, c)) >= One(f \in Users(F, c))
      /\ Cardinality(Users(G, c)) =
           Cardinality(Users(F, c)) - One(f \in Users(F, c)) + One(f \in Users(G, c))
  BY <1>2, <1>3, OneMember
<1>6. /\ Cardinality(Timed(F, c)) \in Nat /\ Cardinality(Timed(F, c)) >= One(f \in Timed(F, c))
      /\ Cardinality(Timed(G, c)) =
           Cardinality(Timed(F, c)) - One(f \in Timed(F, c)) + One(f \in Timed(G, c))
  BY <1>2, <1>3, OneMember
<1>7. /\ Cardinality(EventWaiters(F)) \in Nat
      /\ Cardinality(EventWaiters(F)) >= One(f \in EventWaiters(F))
      /\ Cardinality(EventWaiters(G)) =
           Cardinality(EventWaiters(F)) - One(f \in EventWaiters(F)) + One(f \in EventWaiters(G))
  BY <1>2, <1>3, OneMember
<1>8. \A p \in BOOLEAN : One(p) \in Nat
  BY DEF One
<1>9. /\ One(f \in Users(F, c)) \in Nat /\ One(f \in Users(G, c)) \in Nat
      /\ One(f \in Timed(F, c)) \in Nat /\ One(f \in Timed(G, c)) \in Nat
      /\ One(f \in EventWaiters(F)) \in Nat /\ One(f \in EventWaiters(G)) \in Nat
  BY DEF One
<1>10. CASE c = e
  BY <1>4, <1>5, <1>6, <1>7, <1>9, <1>10 DEF HoldersOf, Uses, G, Recount
<1>11. CASE c # e
  BY <1>4, <1>5, <1>6, <1>9, <1>11 DEF HoldersOf, Uses, G, Recount
<1>12. QED
  BY <1>10, <1>11

Mid(b, F, f, s) ==
    s \in FiberStates /\ Between(b, F, f, Held(Counting(F, f, s), b.event))

LEMMA CountingType ==
  ASSUME NEW F \in [Fibers -> FiberStates], NEW f \in Fibers, NEW s \in FiberStates
  PROVE  /\ Counting(F, f, s) \in [Fibers -> FiberStates] /\ Counting(F, f, s)[f] = s
         /\ \A g \in Fibers : g # f => Counting(F, f, s)[g] = F[g]
         /\ \A t : Counting(Counting(F, f, s), f, t) = Counting(F, f, t)
         /\ Counting(F, f, F[f]) = F
  BY DEF Counting

LEMMA HeldType ==
  ASSUME NEW F \in [Fibers -> FiberStates], NEW e
  PROVE  Held(F, e) \in [Contexts -> Nat] /\ \A c \in Contexts : Held(F, e)[c] = HoldersOf(F, e, c)
<1>1. \A S \in SUBSET Fibers : Cardinality(S) \in Nat
  BY FS_Subset, FS_CardinalityType, BackendAssumption
<1>2. \A c : /\ Users(F, c) \in SUBSET Fibers /\ Timed(F, c) \in SUBSET Fibers
             /\ EventWaiters(F) \in SUBSET Fibers
  BY DEF Users, Timed, EventWaiters
<1>3. \A c : HoldersOf(F, e, c) \in Nat
  BY <1>1, <1>2 DEF HoldersOf
<1>4. QED
  BY <1>3 DEF Held

\* An action of fiber f begins and ends.
LEMMA Enter ==
  ASSUME NEW b, NEW F, BackendOK(b, F), NEW f \in Fibers
  PROVE  Mid(b, F, f, F[f])
<1>1. F \in [Fibers -> FiberStates] /\ F[f] \in FiberStates
  BY DEF BackendOK
<1>2. Counting(F, f, F[f]) = F
  BY <1>1, CountingType
<1>3. Held(F, b.event) \in [Contexts -> Nat]
  BY <1>1, HeldType
<1>4. QED
  BY <1>1, <1>2, <1>3 DEF BackendOK, Mid, Between

LEMMA Leave ==
  ASSUME NEW b, NEW F, NEW f \in Fibers, NEW s, Mid(b, F, f, s), Dooms(b), FiberOK(b, f, s)
  PROVE  BackendOK(b, [F EXCEPT ![f] = s])
<1>1. F \in [Fibers -> FiberStates] /\ s \in FiberStates
  BY DEF Mid, Between
<1>2. /\ Counting(F, f, s) \in [Fibers -> FiberStates] /\ Counting(F, f, s)[f] = s
      /\ \A g \in Fibers : g # f => Counting(F, f, s)[g] = F[g]
  BY <1>1, CountingType
<1>3. \A g \in Fibers : FiberOK(b, g, Counting(F, f, s)[g])
  BY <1>2 DEF Mid, Between
<1>4. BackendOK(b, Counting(F, f, s))
  BY <1>2, <1>3 DEF BackendOK, Mid, Between
<1>5. QED
  BY <1>4 DEF Counting

\* Holding nothing else, f may be in any other state.
SameUses(s, t, e) == \A c \in Contexts : Uses(s, c, e) = Uses(t, c, e)

LEMMA MidSameUses ==
  ASSUME NEW b, NEW F, NEW f \in Fibers, NEW s, Mid(b, F, f, s), NEW t \in FiberStates,
         SameUses(s, t, b.event)
  PROVE  Mid(b, F, f, t)
<1>1. F \in [Fibers -> FiberStates] /\ s \in FiberStates
  BY DEF Mid, Between
<1> DEFINE G == Counting(F, f, s)
<1>2. /\ G \in [Fibers -> FiberStates] /\ G[f] = s /\ Counting(F, f, t) = Counting(G, f, t)
      /\ Counting(F, f, t) = [G EXCEPT ![f] = t]
      /\ Counting(F, f, t) \in [Fibers -> FiberStates]
  BY <1>1, CountingType DEF Counting
<1> HIDE DEF G
<1>3. ASSUME NEW c \in Contexts
      PROVE  HoldersOf(Counting(F, f, t), b.event, c) = HoldersOf(G, b.event, c)
  <2>1. /\ HoldersOf(G, b.event, c) \in Nat /\ Uses(t, c, b.event) \in Nat
        /\ HoldersOf([G EXCEPT ![f] = t], b.event, c)
             = HoldersOf(G, b.event, c) - Uses(G[f], c, b.event) + Uses(t, c, b.event)
    <3>1. G \in [Fibers -> FiberStates]
      BY <1>2, Zenon
    <3>2. Recount(G, f, t, b.event, c)
      BY <3>1, Reheld
    <3>3. QED
      BY <3>2 DEF Recount
  <2>2. Uses(G[f], c, b.event) = Uses(t, c, b.event)
    <3>1. Uses(s, c, b.event) = Uses(t, c, b.event)
      BY Zenon DEF SameUses
    <3>2. QED
      BY <1>2, <3>1, Zenon
  <2>3. \A m, u \in Nat : m - u + u = m
    OBVIOUS
  <2>4. HoldersOf([G EXCEPT ![f] = t], b.event, c) = HoldersOf(G, b.event, c)
    BY <2>1, <2>2, <2>3
  <2>5. QED
    BY <1>2, <2>4, Zenon
<1>4. Held(Counting(F, f, t), b.event) = Held(G, b.event)
  BY <1>3 DEF Held
<1>5. QED
  BY <1>4 DEF Mid, G

LEMMA NoOpType == NoOp \in FiberStates
  BY OpsAssumption DEF NoOp, FiberStates

\* A context that no other fiber holds is held as f says.
LEMMA SoleHolder ==
  ASSUME NEW F \in [Fibers -> FiberStates], NEW f \in Fibers, NEW c \in Contexts,
         Private(F, f, c), NEW e, c # e, NEW s \in FiberStates
  PROVE  HoldersOf(Counting(F, f, s), e, c) = Uses(s, c, e) /\ Uses(s, c, e) \in Nat
<1> DEFINE G == Counting(F, f, NoOp)
<1>1. /\ G \in [Fibers -> FiberStates] /\ G[f] = NoOp
      /\ \A g \in Fibers : g # f => G[g] = F[g]
      /\ Counting(F, f, s) = [G EXCEPT ![f] = s]
  BY NoOpType, CountingType DEF Counting
<1> HIDE DEF G
<1>2. c # NoCtx
  BY DEF Contexts, NoCtx
<1>3. Users(G, c) = {}
  BY <1>1, <1>2 DEF Users, Private, Claims, NoOp
<1>4. Timed(G, c) = {}
  BY <1>1, <1>2 DEF Timed, Private, Claims, NoOp
<1>5. HoldersOf(G, e, c) = 0
  BY <1>3, <1>4, FS_EmptySet DEF HoldersOf
<1>6. Uses(NoOp, c, e) = 0
  BY <1>2 DEF Uses, NoOp, One, IsWaiter
<1>7. /\ Uses(s, c, e) \in Nat
      /\ HoldersOf([G EXCEPT ![f] = s], e, c)
           = HoldersOf(G, e, c) - Uses(G[f], c, e) + Uses(s, c, e)
  <2>1. G \in [Fibers -> FiberStates]
    BY <1>1, Zenon
  <2>2. Recount(G, f, s, e, c)
    BY <2>1, Reheld
  <2>3. QED
    BY <2>2 DEF Recount
<1>8. HoldersOf([G EXCEPT ![f] = s], e, c) = 0 - 0 + Uses(s, c, e)
  BY <1>1, <1>5, <1>6, <1>7, Zenon
<1>9. 0 - 0 + Uses(s, c, e) = Uses(s, c, e)
  BY <1>7
<1>10. QED
  BY <1>1, <1>7, <1>8, <1>9, Zenon

\* States s and t hold the same contexts, but for c.
OnlyUses(s, t, c, e) == \A d \in Contexts : d # c => Uses(s, d, e) = Uses(t, d, e)

LEMMA OnlyHolders ==
  ASSUME NEW F \in [Fibers -> FiberStates], NEW f \in Fibers, NEW s \in FiberStates,
         NEW t \in FiberStates, NEW c, NEW e, OnlyUses(s, t, c, e), NEW d \in Contexts, d # c
  PROVE  HoldersOf(Counting(F, f, t), e, d) = HoldersOf(Counting(F, f, s), e, d)
<1> DEFINE G == Counting(F, f, s)
<1>1. G \in [Fibers -> FiberStates] /\ G[f] = s /\ Counting(F, f, t) = [G EXCEPT ![f] = t]
  BY CountingType DEF Counting
<1> HIDE DEF G
<1>2. /\ HoldersOf(G, e, d) \in Nat /\ Uses(t, d, e) \in Nat
      /\ HoldersOf([G EXCEPT ![f] = t], e, d)
           = HoldersOf(G, e, d) - Uses(G[f], d, e) + Uses(t, d, e)
  <2>1. G \in [Fibers -> FiberStates]
    BY <1>1, Zenon
  <2>2. Recount(G, f, t, e, d)
    BY <2>1, Reheld
  <2>3. QED
    BY <2>2 DEF Recount
<1>3. Uses(G[f], d, e) = Uses(t, d, e)
  <2>1. Uses(s, d, e) = Uses(t, d, e)
    BY Zenon DEF OnlyUses
  <2>2. QED
    BY <1>1, <2>1, Zenon
<1>4. \A m, u \in Nat : m - u + u = m
  OBVIOUS
<1>5. HoldersOf([G EXCEPT ![f] = t], e, d) = HoldersOf(G, e, d)
  BY <1>2, <1>3, <1>4
<1>6. QED
  BY <1>1, <1>5, Zenon DEF G

\* A call that touches c and what f holds of it.
HeldAlike(b, b2, F, f, s, t, c) ==
    \A d \in Contexts : d # c =>
        HoldersOf(Counting(F, f, t), b2.event, d) = HoldersOf(Counting(F, f, s), b.event, d)

LEMMA MidTouched ==
  ASSUME NEW b, NEW F, NEW f \in Fibers, NEW s, Mid(b, F, f, s), NEW c \in Contexts,
         Private(F, f, c), NEW b2, Touches(b, b2, c), EventMoves(b, b2, F, f, c),
         NEW t \in FiberStates, HeldAlike(b, b2, F, f, s, t, c),
         Settles(b2, c, HoldersOf(Counting(F, f, t), b2.event, c))
  PROVE  Mid(b2, F, f, t)
<1> DEFINE n == HoldersOf(Counting(F, f, t), b2.event, c)
           h == Held(Counting(F, f, s), b.event)
           h2 == Held(Counting(F, f, t), b2.event)
<1>1. Between(b, F, f, h)
  BY DEF Mid
<1>2. Between(b2, F, f, [h EXCEPT ![c] = n])
  <2>1. Settles(b2, c, n)
    OBVIOUS
  <2> HIDE DEF n, h
  <2>2. QED
    BY <1>1, <2>1, TouchedBetween
<1>3. h \in [Contexts -> Nat]
  BY <1>1 DEF Between
<1>4. \A d \in Contexts : d # c => h2[d] = h[d]
  BY DEF HeldAlike, Held
<1>5. h2[c] = n /\ h2 = [d \in Contexts |-> h2[d]]
  BY DEF Held
<1>6. h2 = [h EXCEPT ![c] = n]
  <2> HIDE DEF n, h, h2
  <2>1. QED
    BY <1>3, <1>4, <1>5
<1>7. QED
  BY <1>2, <1>6 DEF Mid

LEMMA MidTouchedMine ==
  ASSUME NEW b, NEW F, NEW f \in Fibers, NEW s, Mid(b, F, f, s), NEW c \in Contexts,
         Private(F, f, c), c # b.event, NEW b2, Touches(b, b2, c), b2.event = b.event,
         NEW t \in FiberStates, OnlyUses(s, t, c, b.event),
         Settles(b2, c, Uses(t, c, b.event))
  PROVE  Mid(b2, F, f, t)
<1>1. /\ b \in Backends /\ b2 \in Backends /\ F \in [Fibers -> FiberStates]
      /\ s \in FiberStates /\ b.cq \in Seq(Completions) /\ EventOK(b)
  BY BackendFields DEF Mid, Between, Good, Wf, Touches
<1>2. EventOK(b2)
  <2>1. b.event # NoCtx => Untouched(b, b2, b.event)
    BY <1>1, TouchedUntouched DEF EventOK
  <2>2. b.event # NoCtx => /\ ReqsOf(b2, b.event) = ReqsOf(b, b.event)
                           /\ b2.ctx[b.event] = b.ctx[b.event]
                           /\ Doomed(b2, b.event) => Doomed(b, b.event)
    BY <1>1, <2>1, UntouchedOut
  <2>3. QED
    BY <1>1, <2>2 DEF EventOK
<1>3. \A g \in Fibers : g # f /\ IsWaiter(F[g]) => b2.event # NoCtx
  BY DEF Mid, Between, FiberOK, AwaitOK, IsWaiter
<1>4. EventMoves(b, b2, F, f, c)
  BY <1>2, <1>3 DEF EventMoves
<1>5. HeldAlike(b, b2, F, f, s, t, c)
  BY <1>1, OnlyHolders DEF HeldAlike
<1>6. HoldersOf(Counting(F, f, t), b2.event, c) = Uses(t, c, b.event)
  BY <1>1, SoleHolder
<1>7. Settles(b2, c, HoldersOf(Counting(F, f, t), b2.event, c))
  BY <1>6, Zenon
<1>8. QED
  BY <1>4, <1>5, <1>7, MidTouched

----------------------------------------------------------------------------
(* Giving up a context, and taking one *)

\* The buffers are kept with the context, if the kernel still needs them.
BuffersKept(b, b2, c) ==
    b.ctx[c].type \notin BufferKinds \cup {"CHAIN"} \/ b.ctx[c].ref = 1
        \/ b2.ctx[c].buffers # "none"

LEMMA GivenUp ==
  ASSUME NEW b, Wf(b), NEW c \in Contexts, NEW n \in Nat, ContextOK(b, c, n + 1),
         Counted1(b.ctx[c]), b.ctx[c].ref # MULTISHOT_REFCOUNT + 1,
         NEW b2, GaveUp(b, b2, c), BuffersKept(b, b2, c)
  PROVE  Settles(b2, c, n)
<1>1. b \in Backends /\ b2 \in Backends /\ Wf(b2) /\ OneChain(b) /\ OneChain(b2)
  BY DEF GaveUp, Touches, Wf
<1>2. /\ Answers(b2, c) = Answers(b, c) /\ b2.cq = b.cq /\ Out(b2, c) = Out(b, c)
      /\ ReqsOf(b2, c) = ReqsOf(b, c)
  BY DEF GaveUp, Touches, OthersKept, SameRest, Answers, Out, Done
<1>3. /\ Out(b, c) \in Nat /\ Len(ReqsOf(b, c)) \in Nat /\ Done(b, c) \in Nat
      /\ Out(b, c) = Len(ReqsOf(b, c)) + Done(b, c)
      /\ ReqsOf(b, c) = <<>> <=> Len(ReqsOf(b, c)) = 0
      /\ Done(b, c) = 0 <=> Answers(b, c) = {}
  BY <1>1, OutType, AnswersFinite
<1>4. CountOK(b, c, n + 1) /\ b.ctx[c].ref \in Nat
  BY <1>1, ContextFields DEF ContextOK, Counted1
<1>5. b.ctx[c].ref = Out(b, c) + (n + 1)
  BY <1>4 DEF CountOK
<1>6. CASE b.ctx[c].ref = 1
  <2>1. n = 0 /\ Out(b, c) = 0
    BY <1>3, <1>5, <1>6
  <2>2. FreeOK(b2, c, n)
    BY <1>2, <1>3, <2>1 DEF FreeOK
  <2>3. b2.ctx[c].ref = 0 /\ b2.ctx[c].type = "NONE" /\ b2.ctx[c].resume = "nil"
    BY <1>6 DEF GaveUp
  <2>4. KeptOK(b2, c, n)
    <3>1. ReqsOf(b2, c) = <<>>
      BY <2>2 DEF FreeOK
    <3>2. b2.ctx[c].type \notin BufferKinds \cup {"CHAIN"}
      BY <2>3 DEF BufferKinds
    <3>3. DOMAIN ReqsOf(b2, c) = {}
      BY <3>1
    <3>4. QED
      BY <3>2, <3>3 DEF KeptOK
  <2>5. ContextOK(b2, c, n)
    BY <2>2, <2>3, <2>4 DEF ContextOK, MULTISHOT_REFCOUNT
  <2>6. QED
    BY <2>5 DEF Settles
<1>7. CASE b.ctx[c].ref # 1
  <2>1. /\ b2.ctx[c].ref = b.ctx[c].ref - 1 /\ b2.ctx[c].type = b.ctx[c].type
        /\ b2.ctx[c].fiber = b.ctx[c].fiber /\ b2.ctx[c].resume = b.ctx[c].resume
        /\ b.ctx[c].buffers # "none" => b2.ctx[c].buffers # "none"
    BY <1>7 DEF GaveUp
  <2>2. b2.ctx[c].ref = Out(b2, c) + n /\ b2.ctx[c].ref # 0
    BY <1>2, <1>3, <1>4, <1>5, <1>7, <2>1
  <2>3. b2.ctx[c].ref # MULTISHOT_REFCOUNT
    BY <1>4, <2>1 DEF MULTISHOT_REFCOUNT
  <2>4. CountOK(b2, c, n)
    BY <1>2, <1>4, <2>1, <2>2 DEF CountOK
  <2>5. KeptOK(b2, c, n)
    <3>1. KeptOK(b, c, n + 1)
      BY DEF ContextOK
    <3>2. b2.ctx[c].type \in BufferKinds \cup {"CHAIN"} => b2.ctx[c].buffers # "none"
      BY <1>7, <2>1 DEF BuffersKept
    <3>3. QED
      BY <1>2, <2>1, <3>1, <3>2 DEF KeptOK
  <2>6. ContextOK(b2, c, n)
    BY <2>1, <2>2, <2>3, <2>4, <2>5 DEF ContextOK, Counted1
  <2>7. QED
    BY <2>6 DEF Settles
<1>8. QED
  BY <1>6, <1>7

FreshKinds(x, reqs) ==
    /\ \A i \in DOMAIN reqs : reqs[i].kind # "MULTISHOT_ACCEPT"
    /\ x.type \notin BufferKinds \cup {"CHAIN"} =>
          \A i \in DOMAIN reqs : reqs[i].kind \notin BufferKinds
    /\ x.resume = "timeout" => x.type = "TIMEOUT"

LEMMA TakenUp ==
  ASSUME NEW b, Wf(b), NEW c \in Contexts, ContextOK(b, c, 0), NEW f \in Fibers,
         NEW x, NEW reqs \in Seq(Requests), FreshContext(x, f, reqs), FreshKinds(x, reqs),
         NEW b2, IssuedAs(b, b2, c, x, reqs)
  PROVE  /\ Settles(b2, c, 1) /\ Out(b2, c) = Len(reqs) /\ Answers(b2, c) = {}
         /\ ~Doomed(b2, c) /\ b2.ctx[c] = x
<1>1. /\ b \in Backends /\ b2 \in Backends /\ OneChain(b) /\ OneChain(b2)
      /\ b.ctx[c].ref = 0 /\ b2.ctx[c] = x /\ ReqsOf(b2, c) = reqs /\ ~Doomed(b2, c)
  BY DEF IssuedAs, Touches, Wf
<1>2. Answers(b2, c) = Answers(b, c)
  BY DEF IssuedAs, Touches, OthersKept, SameRest, Answers
<1>3. Answers(b2, c) = {}
  BY <1>1, <1>2 DEF ContextOK, FreeOK
<1>4. Out(b2, c) = Len(reqs) /\ Len(reqs) \in Nat
  <2>1. Done(b2, c) = 0
    BY <1>3, FS_EmptySet DEF Done
  <2>2. Out(b2, c) = Len(reqs) + 0 /\ Len(reqs) \in Nat
    BY <1>1, <2>1 DEF Out
  <2>3. QED
    BY <2>2
<1>5. x.ref = Len(reqs) + 1 /\ Len(reqs) \in 1..4
  BY DEF FreshContext
<1>6. x.ref \notin {0, MULTISHOT_REFCOUNT}
  <2>1. PICK m \in 1..4 : x.ref = m + 1
    BY <1>5, Zenon
  <2>2. x.ref \in Nat /\ x.ref <= 5 /\ x.ref # 0
    BY <2>1
  <2>3. QED
    BY <2>2, NotMultishot
<1>7. CountOK(b2, c, 1)
  BY <1>1, <1>3, <1>4, <1>5 DEF CountOK, FreshContext, FreshKinds
<1>8. KeptOK(b2, c, 1)
  BY <1>1 DEF KeptOK, FreshKinds
<1>9. ContextOK(b2, c, 1)
  BY <1>1, <1>6, <1>7, <1>8 DEF ContextOK, FreshContext, FreshKinds
<1>10. QED
  BY <1>1, <1>3, <1>4, <1>9 DEF Settles

\* Fiber f gives up context c, and goes on in state t.
LetsGo(s, t, c, e) ==
    /\ t \in FiberStates /\ OnlyUses(s, t, c, e) /\ Uses(s, c, e) = 1 /\ Uses(t, c, e) = 0

LEMMA GiveUpStep ==
  ASSUME NEW b, NEW F, NEW f \in Fibers, NEW s, Mid(b, F, f, s), NEW c \in Contexts,
         Mine(b, f, c), b.ctx[c].ref # MULTISHOT_REFCOUNT, NEW t, LetsGo(s, t, c, b.event),
         NEW b2, GaveUp(b, b2, c), BuffersKept(b, b2, c)
  PROVE  Mid(b2, F, f, t)
<1>1. /\ Wf(b) /\ F \in [Fibers -> FiberStates] /\ s \in FiberStates
      /\ Between(b, F, f, Held(Counting(F, f, s), b.event))
  BY DEF Mid, Between, Good
<1>2. Private(F, f, c)
  BY <1>1, PrivateContexts
<1>3. c # b.event /\ Counted1(b.ctx[c])
  BY DEF Mine, Counted1
<1>4. ContextOK(b, c, 0 + 1)
  <2>1. HoldersOf(Counting(F, f, s), b.event, c) = 1
    BY <1>1, <1>2, <1>3, SoleHolder DEF LetsGo
  <2>2. Held(Counting(F, f, s), b.event)[c] = 1
    BY <2>1 DEF Held
  <2>3. ContextOK(b, c, Held(Counting(F, f, s), b.event)[c])
    BY <1>1 DEF Between, Good
  <2>4. 0 + 1 = 1
    OBVIOUS
  <2>5. QED
    BY <2>2, <2>3, <2>4
<1>5. b.ctx[c].ref # MULTISHOT_REFCOUNT + 1
  <2>1. CountOK(b, c, 0 + 1)
    BY <1>3, <1>4 DEF ContextOK, Counted1
  <2>2. b.ctx[c].ref = Out(b, c) + 1 /\ Out(b, c) <= 4 /\ Out(b, c) \in Nat
    BY <1>1, <2>1, OutType DEF CountOK, Wf
  <2>3. QED
    BY <2>2 DEF MULTISHOT_REFCOUNT
<1>6. Settles(b2, c, 0)
  BY <1>1, <1>3, <1>4, <1>5, GivenUp
<1>7. /\ Touches(b, b2, c) /\ b2.event = b.event /\ t \in FiberStates
      /\ OnlyUses(s, t, c, b.event) /\ Settles(b2, c, Uses(t, c, b.event))
  BY <1>6 DEF GaveUp, LetsGo
<1>8. QED
  BY <1>2, <1>3, <1>7, MidTouchedMine

\* Fiber f takes context c, and goes on in state t.
TakesUp(s, t, c, e) == t \in FiberStates /\ OnlyUses(s, t, c, e) /\ Uses(t, c, e) = 1

LEMMA MidReusable ==
  ASSUME NEW b, NEW F, NEW f, NEW s, Mid(b, F, f, s), Dooms(b)
  PROVE  Reusable(b) /\ Wf(b)
<1>1. Wf(b) /\ \A c \in Contexts : \E n : ContextOK(b, c, n)
  BY DEF Mid, Between, Good
<1>2. QED
  BY <1>1 DEF Reusable, ContextOK, FreeOK, Dooms

TookUp(b, b2, F, f, t, c, x, reqs) ==
    /\ Mid(b2, F, f, t) /\ Dooms(b2) /\ c \in Contexts /\ c # b.event
    /\ Private(F, f, c) /\ Touches(b, b2, c) /\ ReqsOf(b2, c) = reqs
    /\ Out(b2, c) = Len(reqs) /\ Answers(b2, c) = {} /\ ~Doomed(b2, c)
    /\ b2.ctx[c] = x /\ b2.event = b.event

LEMMA TakeUpStep ==
  ASSUME NEW b, NEW F, NEW f \in Fibers, NEW s, Mid(b, F, f, s), Dooms(b),
         NEW c, NEW x, NEW reqs \in Seq(Requests),
         FreshContext(x, f, reqs), FreshKinds(x, reqs), NEW b2, IssuedAs(b, b2, c, x, reqs),
         NEW t, TakesUp(s, t, c, b.event)
  PROVE  TookUp(b, b2, F, f, t, c, x, reqs)
<1>1. /\ Wf(b) /\ F \in [Fibers -> FiberStates] /\ s \in FiberStates /\ EventOK(b)
      /\ Between(b, F, f, Held(Counting(F, f, s), b.event))
  BY DEF Mid, Between, Good
<1>2. c \in Contexts /\ b.ctx[c].ref = 0 /\ Touches(b, b2, c) /\ b2.event = b.event
  BY DEF IssuedAs
<1>3. Private(F, f, c)
  BY <1>1, <1>2, PrivateContexts
<1>4. c # b.event
  BY <1>1, <1>2 DEF EventOK, Contexts, NoCtx
<1>5. ContextOK(b, c, 0)
  <2>1. ContextOK(b, c, Held(Counting(F, f, s), b.event)[c])
    BY <1>1, <1>2 DEF Between, Good
  <2>2. Held(Counting(F, f, s), b.event)[c] = 0
    BY <1>2, <2>1 DEF ContextOK, FreeOK
  <2>3. QED
    BY <2>1, <2>2
<1>6. /\ Settles(b2, c, 1) /\ Out(b2, c) = Len(reqs) /\ Answers(b2, c) = {}
      /\ ~Doomed(b2, c) /\ b2.ctx[c] = x
  BY <1>1, <1>2, <1>5, TakenUp
<1>7. t \in FiberStates /\ OnlyUses(s, t, c, b.event) /\ Settles(b2, c, Uses(t, c, b.event))
  BY <1>6 DEF TakesUp
<1>8. Mid(b2, F, f, t)
  BY <1>2, <1>3, <1>4, <1>7, MidTouchedMine
<1>9. Dooms(b2)
  BY <1>1, <1>2, <1>6, TouchedDooms
<1>10. QED
  BY <1>2, <1>3, <1>4, <1>6, <1>8, <1>9 DEF TookUp, IssuedAs

LEMMA IssueStep ==
  ASSUME NEW b, NEW F, NEW f \in Fibers, NEW s, Mid(b, F, f, s), Dooms(b), CanAcquire(b, 1),
         NEW k \in OneKinds, NEW n \in Lengths, NEW b2,
         b2 = Issue(b, f, k, <<Request(k, n)>>),
         NEW t, TakesUp(s, t, Acquired(b), b.event)
  PROVE  /\ Mid(b2, F, f, t) /\ Dooms(b2) /\ FirstOf(b, b2, f, k, Acquired(b))
         /\ SqOK(b2) /\ Touches(b, b2, Acquired(b)) /\ Private(F, f, Acquired(b))
<1> DEFINE reqs == <<Request(k, n)>>
           c == Acquired(b)
           x == NewContext(k, f)
<1>1. Reusable(b) /\ Wf(b)
  BY MidReusable
<1>2. k \in Kinds /\ k \in Types
  BY DEF OneKinds, Types
<1>3. Request(k, n) \in Requests /\ Request(k, n).kind = k
  BY <1>2, RequestType
<1>4. reqs \in Seq(Requests) /\ reqs # <<>> /\ Len(reqs) = 1 /\ reqs[1] = Request(k, n)
      /\ DOMAIN reqs = {1}
  BY <1>3
<1>5. b2 = IssuedNow(b, k, f, reqs)
  BY DEF Issue, IssuedNow, AcquiredAndPrepared
<1>6. /\ x.type = k /\ x.fiber = f /\ x.ref = 2 /\ x.resume = "nil" /\ x.buffers = "none"
  BY DEF NewContext
<1>7. FreshKinds(x, reqs)
  BY <1>3, <1>4, <1>6 DEF FreshKinds, OneKinds
<1>8. FreshContext(x, f, reqs)
  BY <1>4, <1>6 DEF FreshContext
<1> HIDE DEF reqs, c, x
<1>9. c = Acquired(b)
  BY DEF c
<1>10. IssuedAs(b, b2, c, NewContext(k, f), reqs) /\ SqOK(b2)
  BY <1>1, <1>2, <1>4, <1>5, <1>9, Issued
<1>11. IssuedAs(b, b2, c, x, reqs)
  BY <1>10 DEF x
<1>12. TakesUp(s, t, c, b.event)
  BY <1>9
<1>13. TookUp(b, b2, F, f, t, c, x, reqs)
  BY <1>4, <1>7, <1>8, <1>11, <1>12, TakeUpStep
<1>14. QED
  BY <1>4, <1>9, <1>10, <1>13 DEF FirstOf, x, TookUp

----------------------------------------------------------------------------
(* A fiber between its calls *)

\* Fiber f runs, holds its timer only, and may return or begin another
\* operation.
Ready(b, f) ==
    /\ Mid(b, fs, f, Left(fs[f])) /\ Dooms(b) /\ SqOK(b)
    /\ b.sched[f] = NoValue /\ TimerOK(b, f, fs[f])

\* The fiber at rest, with its timer.
Rest(s, p) == [Left(s) EXCEPT !.pc = p]
AtRest(t, s, p) ==
    /\ t \in FiberStates /\ t.ctx = NoCtx /\ t.aux = NoCtx /\ t.timer = s.timer
    /\ t.pc = p /\ t.step = s.step /\ t.op = "none"

LEMMA LeftFields ==
  ASSUME NEW s \in FiberStates
  PROVE  AtRest(Left(s), s, "app")
<1>1. s.timer \in Contexts \cup {NoCtx} /\ s.step \in Nat
  BY DEF FiberStates
<1>2. NoOp \in FiberStates
  BY NoOpType
<1>3. NoOp.ctx = NoCtx /\ NoOp.aux = NoCtx /\ NoOp.pc = "app" /\ NoOp.op = "none"
  BY DEF NoOp
<1>4. QED
  BY <1>1, <1>2, <1>3 DEF Left, AtRest, FiberStates

LEMMA RestFields ==
  ASSUME NEW s \in FiberStates, NEW p \in {"app", "raise", "dead"}
  PROVE  AtRest(Rest(s, p), s, p)
  BY LeftFields DEF Rest, AtRest, FiberStates

LEMMA LeftAtRest ==
  ASSUME NEW s \in FiberStates
  PROVE  AtRest(Left(s), s, "app") /\ Left(s) = Rest(s, "app")
  BY LeftFields DEF Rest, AtRest, FiberStates

\* A fiber that does not await holds its timer only.
LEMMA RestUses ==
  ASSUME NEW s, s.pc # "await", NEW c \in Contexts, NEW e
  PROVE  Uses(s, c, e) = One(s.timer = c)
  BY DEF Uses, One, IsWaiter

LEMMA ReturnStep ==
  ASSUME NEW f \in Fibers, NEW b, Ready(b, f), Return(f, b) \/ Raise(f, b)
  PROVE  UInv'
<1>1. fs \in [Fibers -> FiberStates] /\ fs[f] \in FiberStates
  BY DEF Ready, Mid, Between
<1>2. PICK p \in {"app", "raise"} :
        bk' = b /\ cur' = f /\ fs' = [fs EXCEPT ![f] = Rest(fs[f], p)]
  <2>1. CASE Return(f, b)
    <3>1. Left(fs[f]) = Rest(fs[f], "app")
      BY <1>1, LeftAtRest
    <3>2. QED
      BY <2>1, <3>1 DEF Return
  <2>2. CASE Raise(f, b)
    BY <2>2 DEF Raise, Rest
  <2>3. QED
    BY <2>1, <2>2
<1> DEFINE t == Rest(fs[f], p)
<1>3. /\ t \in FiberStates /\ t.ctx = NoCtx /\ t.aux = NoCtx /\ t.timer = fs[f].timer
      /\ t.pc = p /\ Left(fs[f]).timer = fs[f].timer /\ Left(fs[f]).pc = "app"
  BY <1>1, RestFields, LeftAtRest DEF AtRest
<1> HIDE DEF t
<1>4. SameUses(Left(fs[f]), t, b.event)
  BY <1>2, <1>3, RestUses DEF SameUses
<1>5. Mid(b, fs, f, t)
  BY <1>3, <1>4, MidSameUses DEF Ready
<1>6. FiberOK(b, f, t)
  <2>1. t.timer \in Contexts \/ t.timer = NoCtx
    BY <1>3 DEF FiberStates
  <2>2. QED
    BY <1>2, <1>3, <2>1, NoCtxContext DEF FiberOK, Ready, TimerOK, NoValue
<1>7. BackendOK(b, [fs EXCEPT ![f] = t])
  BY <1>5, <1>6, Leave DEF Ready
<1>8. BackendOK(bk', fs')
  BY <1>2, <1>7, Zenon DEF t
<1>9. fs'[f].pc # "await" /\ bk'.sched[f] = NoValue /\ SqOK(bk')
  <2>1. fs'[f] = t
    BY <1>1, <1>2 DEF t
  <2>2. QED
    BY <1>2, <1>3, <2>1 DEF Ready
<1>10. QED
  BY <1>2, <1>8, <1>9 DEF UInv

\* The state of a fiber in operation o that has just issued its request.
OpKind(s, k) ==
    /\ s.op \in OneRequestOps \cup {"timer_loop"}
    /\ s.op \in ReadWriteOps => k \in BufferKinds
    /\ s.op \in PlainOps => k \notin BufferKinds \cup {"CHAIN"}
    /\ s.op = "timer_loop" => k = "TIMEOUT"
    /\ s.op \in WriteOps => s.left <= BufLen

\* The operations are told apart.
LEMMA OpsDiffer ==
  /\ \A o \in OneRequestOps \cup {"timer_loop"} :
        o \notin ChainOps \cup EventOps \cup {"double_splice", "snooze"}
  /\ "timer_loop" \notin OneRequestOps
  /\ \A o \in ChainOps : o \notin EventOps \cup OneRequestOps
                                   \cup {"double_splice", "snooze", "timer_loop"}
  /\ \A o \in EventOps : o \notin ChainOps \cup OneRequestOps
                                   \cup {"double_splice", "snooze", "timer_loop"}
  /\ "double_splice" \notin OneRequestOps \cup ChainOps \cup EventOps
  /\ "snooze" \notin OneRequestOps \cup ChainOps \cup EventOps
  /\ ReadWriteOps \subseteq OneRequestOps /\ PlainOps \subseteq OneRequestOps
  /\ WriteOps \subseteq ReadWriteOps /\ ReadOps \subseteq ReadWriteOps
  /\ ReadWriteOps \cap PlainOps = {}
  BY DEF OneRequestOps, ReadWriteOps, PlainOps, ChainOps, EventOps, ReadOps, WriteOps

LEMMA NewAwait ==
  ASSUME NEW b, NEW b2, NEW f \in Fibers, NEW k, NEW s, NEW c,
         s.ctx = c, s.aux = NoCtx, OpKind(s, k), FirstOf(b, b2, f, k, c)
  PROVE  AwaitOK(b2, f, s)
<1>1. /\ b2.ctx[c].type = k /\ b2.ctx[c].fiber = f /\ b2.ctx[c].ref = 2
      /\ b2.ctx[c].result = 0 /\ b2.ctx[c].resume = "nil"
  BY DEF FirstOf, NewContext
<1>2. c \in Contexts /\ c # NoCtx /\ c # b2.event
  BY NoCtxContext DEF FirstOf
<1>3. WaitsForOne(b2, f, c)
  BY <1>1, <1>2, NotMultishot
     DEF FirstOf, WaitsForOne, Waits, Mine, WillWake, Uncancelled, ECANCELED
<1>4. s.op \notin ChainOps \cup EventOps \cup {"double_splice", "snooze"}
  BY OpsDiffer DEF OpKind
<1>5. s.op \in ReadWriteOps \cup PlainOps => s.op # "timer_loop"
  BY OpsDiffer
<1>6. QED
  BY <1>1, <1>2, <1>3, <1>4, <1>5 DEF AwaitOK, OpKind, ChainOps, EventOps

\* A fiber that awaits context c only.
AwaitsOnly(t, c, f) ==
    /\ t \in FiberStates /\ t.pc = "await" /\ t.ctx = c /\ t.aux = NoCtx
    /\ t.timer = fs[f].timer /\ t.op \notin EventOps

LEMMA TakesOne ==
  ASSUME NEW f \in Fibers, NEW b, Ready(b, f), CanAcquire(b, 1), NEW c, c = Acquired(b),
         NEW t, AwaitsOnly(t, c, f)
  PROVE  TakesUp(Left(fs[f]), t, c, b.event) /\ c \in Contexts /\ c # fs[f].timer
<1>1. Wf(b) /\ TimerOK(b, f, fs[f]) /\ fs[f] \in FiberStates
  BY DEF Ready, Mid, Between, Good
<1>2. c \in Contexts /\ c # fs[f].timer
  BY <1>1, AcquiredFree
<1>3. Left(fs[f]).timer = fs[f].timer /\ Left(fs[f]).pc = "app"
  BY <1>1, LeftAtRest DEF AtRest
<1>4. ASSUME NEW d \in Contexts, d # c
      PROVE  Uses(Left(fs[f]), d, b.event) = Uses(t, d, b.event)
  <2>1. Uses(Left(fs[f]), d, b.event) = One(fs[f].timer = d)
    BY <1>3, RestUses
  <2>2. Uses(t, d, b.event) = One(fs[f].timer = d)
    BY <1>4, NoCtxContext DEF AwaitsOnly, Uses, One, IsWaiter
  <2>3. QED
    BY <2>1, <2>2
<1>5. Uses(t, c, b.event) = 1
  BY <1>2 DEF AwaitsOnly, Uses, One, IsWaiter
<1>6. QED
  BY <1>2, <1>4, <1>5 DEF TakesUp, OnlyUses, AwaitsOnly

LEMMA IssueAndAwaitStep ==
  ASSUME NEW f \in Fibers, NEW b, Ready(b, f), NEW s \in FiberStates, s.aux = NoCtx,
         s.timer = fs[f].timer, NEW k \in OneKinds, NEW n \in Lengths, OpKind(s, k),
         IssueAndAwait(f, b, s, k, n)
  PROVE  UInv'
<1> DEFINE c == Acquired(b)
           t == [[s EXCEPT !.ctx = Acquired(b)] EXCEPT !.pc = "await"]
           b2 == Issue(b, f, k, <<Request(k, n)>>)
<1>1. fs \in [Fibers -> FiberStates] /\ fs[f] \in FiberStates /\ Wf(b)
  BY DEF Ready, Mid, Between, Good
<1>2. CanAcquire(b, 1) /\ bk' = b2 /\ cur' = NoFiber /\ fs' = [fs EXCEPT ![f] = t]
  BY DEF IssueAndAwait, Await
<1>3. c \in Contexts
  BY <1>1, <1>2, AcquiredFree DEF Ready
<1>4. /\ t \in FiberStates /\ t.ctx = c /\ t.aux = NoCtx /\ t.timer = fs[f].timer
      /\ t.pc = "await" /\ t.op = s.op /\ t.left = s.left
  BY <1>3 DEF FiberStates
<1>5. t.op \notin EventOps
  BY <1>4, OpsDiffer DEF OpKind
<1> HIDE DEF t
<1>6. AwaitsOnly(t, c, f)
  BY <1>4, <1>5 DEF AwaitsOnly
<1>7. c # fs[f].timer /\ TakesUp(Left(fs[f]), t, c, b.event)
  BY <1>2, <1>6, TakesOne
<1> HIDE DEF c
<1>8. TakesUp(Left(fs[f]), t, c, b.event)
  BY <1>7
<1>9. /\ Mid(b2, fs, f, t) /\ Dooms(b2) /\ FirstOf(b, b2, f, k, c) /\ SqOK(b2)
      /\ Touches(b, b2, c)
  <2>1. Mid(b, fs, f, Left(fs[f])) /\ Dooms(b) /\ CanAcquire(b, 1)
    BY <1>2 DEF Ready
  <2>2. TakesUp(Left(fs[f]), t, Acquired(b), b.event)
    BY <1>8 DEF c
  <2>3. QED
    BY <2>1, <2>2, IssueStep DEF c
<1> HIDE DEF b2
<1>10. AwaitOK(b2, f, t)
  <2>1. OpKind(t, k)
    BY <1>4 DEF OpKind
  <2>2. QED
    BY <1>4, <1>9, <2>1, NewAwait
<1>11. TimerOK(b2, f, fs[f])
  BY <1>1, <1>7, <1>9, TimerTouched DEF FirstOf, Ready
<1>12. FiberOK(b2, f, t)
  <2>1. b2.sched[f] = NoValue
    BY <1>9 DEF Ready, Touches, OthersKept, SameRest
  <2>2. t.timer # NoCtx => t.timer \notin {t.ctx, t.aux}
    BY <1>4, <1>7
  <2>3. QED
    BY <1>4, <1>10, <1>11, <2>1, <2>2 DEF FiberOK, TimerOK, NoValue
<1>13. BackendOK(b2, [fs EXCEPT ![f] = t])
  BY <1>9, <1>12, Leave
<1>14. QED
  BY <1>2, <1>9, <1>13, BackendAssumption DEF UInv

\* A fiber comes back: it is unscheduled, and still holds what it held.
Back(b, f) ==
    /\ Mid(b, fs, f, fs[f]) /\ Dooms(b) /\ SqOK(b) /\ b.sched[f] = NoValue
    /\ TimerOK(b, f, fs[f]) /\ SameUring(bk, b)
    /\ b.queues = bk.queues /\ b.acceptq = bk.acceptq
    /\ \A c \in Contexts : Untouched(bk, b, c)

LEMMA UnscheduledStep ==
  ASSUME BackendOK(bk, fs), SqOK(bk), NEW f \in Fibers
  PROVE  Back(Unscheduled(f), f)
<1> DEFINE b == Unscheduled(f)
<1>1. bk \in Backends /\ Wf(bk) /\ Dooms(bk) /\ FiberOK(bk, f, fs[f])
  BY DEF BackendOK, Good, Wf
<1>2. IsSched(bk, b, f, NoValue) /\ NoValue \in Values \cup {NoValue}
  BY DEF Unscheduled, IsSched
<1> HIDE DEF b
<1>3. /\ SameUring(bk, b) /\ b.sched[f] = NoValue /\ b.acceptq = bk.acceptq
      /\ b.queues = bk.queues /\ \A g \in Fibers : g # f => b.sched[g] = bk.sched[g]
  <2>1. SchedAs(bk, b, f, NoValue)
    BY <1>1, <1>2, SchedSame
  <2>2. QED
    BY <2>1 DEF SchedAs
<1>4. Wf(b) /\ (\A c \in Contexts : Untouched(bk, b, c)) /\ SqOK(b)
  BY <1>1, <1>3, SameUringUntouched
<1>5. Dooms(b)
  BY <1>1, <1>3, SameUringDooms
<1>6. Mid(bk, fs, f, fs[f])
  BY Enter
<1>7. \A g \in Fibers : g # f => SchedKept(bk, b, g, fs[g])
  BY <1>3 DEF SchedKept, BackendOK, FiberOK
<1>8. Mid(b, fs, f, fs[f])
  <2>1. Between(bk, fs, f, Held(Counting(fs, f, fs[f]), bk.event)) /\ fs[f] \in FiberStates
    BY <1>6 DEF Mid
  <2>2. Between(b, fs, f, Held(Counting(fs, f, fs[f]), bk.event))
    BY <1>3, <1>7, <2>1, SameUringBetween
  <2>3. b.event = bk.event
    BY <1>3 DEF SameUring, SameContexts
  <2>4. QED
    BY <2>1, <2>2, <2>3 DEF Mid
<1>9. TimerOK(b, f, fs[f])
  BY <1>1, <1>3 DEF FiberOK, TimerOK, Mine, SameUring, SameContexts
<1>10. QED
  BY <1>3, <1>4, <1>5, <1>8, <1>9 DEF Back, b

\* A fiber gives up its one context.
LEMMA LeavesCtx ==
  ASSUME NEW s \in FiberStates, s.pc = "await", s.ctx \in Contexts, s.aux = NoCtx,
         s.op \notin EventOps, s.timer # s.ctx, NEW e
  PROVE  LetsGo(s, Left(s), s.ctx, e)
<1>1. AtRest(Left(s), s, "app")
  BY LeftFields
<1>2. ASSUME NEW d \in Contexts
      PROVE  Uses(Left(s), d, e) = One(s.timer = d)
  BY <1>1, RestUses DEF AtRest
<1>3. ASSUME NEW d \in Contexts, d # s.ctx
      PROVE  Uses(s, d, e) = One(s.timer = d)
  BY <1>3, NoCtxContext DEF Uses, One, IsWaiter
<1>4. Uses(s, s.ctx, e) = 1
  BY DEF Uses, One, IsWaiter
<1>5. Uses(Left(s), s.ctx, e) = 0
  BY <1>2 DEF One
<1>6. QED
  BY <1>1, <1>2, <1>3, <1>4, <1>5 DEF LetsGo, OnlyUses, AtRest

\* A fiber that awaits the requests of one context, its own.
OneContext(f, c) ==
    /\ fs[f].pc = "await" /\ fs[f].ctx = c /\ c \in Contexts /\ fs[f].aux = NoCtx
    /\ fs[f].op \notin EventOps /\ fs[f].timer # c /\ Waits(bk, f, c)

LEMMA Releasing ==
  ASSUME NEW f \in Fibers, NEW b, Back(b, f), NEW c, OneContext(f, c),
         NEW b2, GaveUp(b, b2, c), BuffersKept(b, b2, c), Dooms(b2), SqOK(b2)
  PROVE  Ready(b2, f)
<1>1. c \in Contexts /\ c = fs[f].ctx /\ fs[f].timer # c
  BY DEF OneContext
<1>2. Mid(b, fs, f, fs[f]) /\ fs[f] \in FiberStates /\ Wf(b)
  BY DEF Back, Mid, Between, Good
<1>3. Mine(b, f, c) /\ b.ctx[c].ref # MULTISHOT_REFCOUNT
  BY DEF OneContext, Waits, Mine, Back, SameUring, SameContexts
<1>4. LetsGo(fs[f], Left(fs[f]), c, b.event)
  BY <1>1, <1>2, LeavesCtx DEF OneContext
<1>5. Mid(b2, fs, f, Left(fs[f]))
  BY <1>1, <1>2, <1>3, <1>4, GiveUpStep
<1>6. TimerOK(b2, f, fs[f])
  BY <1>1, <1>2, TimerTouched DEF Back, GaveUp
<1>7. b2.sched[f] = NoValue
  BY DEF Back, GaveUp, Touches, OthersKept, SameRest
<1>8. QED
  BY <1>5, <1>6, <1>7 DEF Ready

\* The context is complete: it is released, with what it says.
AfterDone(f, a, c) ==
    /\ a.completed \in BOOLEAN /\ a.result \in Outcomes /\ a.value = bk.sched[f]
    /\ a.completed <=> bk.ctx[c].ref = 1
    /\ a.completed => Ready(a.b, f) /\ a.result = bk.ctx[c].result
    /\ ~a.completed /\ bk.ctx[c].type \notin BufferKinds \cup {"CHAIN"} => Ready(a.b, f)

LEMMA AfterStep ==
  ASSUME NEW f \in Fibers, Back(Unscheduled(f), f), NEW c, OneContext(f, c),
         NEW a, a = After(f)
  PROVE  /\ AfterDone(f, a, c)
         /\ ~a.completed =>
              /\ GaveUp(Unscheduled(f), a.b, c) /\ Dooms(a.b) /\ SqOK(a.b)
              /\ Wf(a.b) /\ a.b.sq = <<>>
<1> DEFINE b == Unscheduled(f)
           b1 == Awaited(f)
<1>1. c \in Contexts /\ c = fs[f].ctx
  BY DEF OneContext
<1>2. Wf(b) /\ Dooms(b) /\ SqOK(b) /\ SameUring(bk, b) /\ Back(b, f)
  BY DEF Back, Mid, Between, Good
<1>3. b.ctx = bk.ctx
  BY <1>2 DEF SameUring, SameContexts
<1>4. Counted1(b.ctx[c]) /\ b.ctx[c].ref # 0 /\ b.ctx[c].ref # MULTISHOT_REFCOUNT
  BY <1>3 DEF OneContext, Waits, Mine, Counted1
<1>5. b.ctx[c].ref \in Nat /\ b.ctx[c].result \in Outcomes
  BY <1>1, <1>2, ContextFields DEF Wf
<1>6. b1 = IF b.ctx[c].ref > 1 THEN CancelNow(b, c) ELSE b
  BY <1>1, <1>3 DEF Awaited
<1>7. /\ a.b = context_store_release(b1, c) /\ a.result = b1.ctx[c].result
      /\ a.completed = LastReference(b1.ctx[c]) /\ a.value = bk.sched[f]
  BY <1>1 DEF After
<1>8. LastReference(b.ctx[c]) <=> b.ctx[c].ref = 1
  BY <1>4 DEF LastReference
<1> DEFINE b3 == a.b
<1>9. b3 = context_store_release(b1, c)
  BY <1>7
<1> HIDE DEF b, b1, b3
<1>10. CASE b.ctx[c].ref = 1
  <2>1. b1 = b
    BY <1>6, <1>10
  <2>2. GaveUp(b, b3, c) /\ SameSq(b, b3) /\ SameChain(b, b3, c)
    BY <1>1, <1>2, <1>4, <1>9, <2>1, ReleasedGaveUp
  <2>3. Dooms(b3) /\ SqOK(b3)
    BY <1>1, <1>2, <1>4, <2>2, SameChainDooms, SameSqOK DEF GaveUp
  <2>4. BuffersKept(b, b3, c)
    BY <1>10 DEF BuffersKept
  <2>5. Ready(b3, f)
    BY <1>2, <2>2, <2>3, <2>4, Releasing
  <2>6. a.completed = TRUE
    BY <1>7, <1>8, <1>10, <2>1
  <2>7. QED
    BY <1>3, <1>5, <1>7, <1>10, <2>1, <2>5, <2>6 DEF AfterDone, b3
<1>11. CASE b.ctx[c].ref # 1
  <2>1. b1 = CancelNow(b, c)
    BY <1>4, <1>5, <1>6, <1>11
  <2>2. Marked(b, b1, c) /\ SqOK(b1) /\ b1.sq = <<>> /\ Dooms(b1)
        /\ b1.ctx[c].result = ECANCELED
    BY <1>1, <1>2, <2>1, CancelledMarked
  <2>3. Wf(b1) /\ Counted1(b1.ctx[c]) /\ b1.ctx[c].ref = b.ctx[c].ref
    BY <1>4, <2>2 DEF Marked, Touches, Counted1
  <2>4. GaveUp(b1, b3, c) /\ SameSq(b1, b3) /\ SameChain(b1, b3, c)
    BY <1>1, <1>9, <2>3, ReleasedGaveUp
  <2>5. Dooms(b3) /\ SqOK(b3) /\ b3.sq = <<>> /\ Wf(b3)
    BY <1>1, <1>4, <2>2, <2>3, <2>4, SameChainDooms, SameSqOK DEF GaveUp, SameSq, Touches
  <2>6. GaveUp(b, b3, c)
    BY <2>2, <2>4, MarkedGaveUp
  <2>7. a.completed \in BOOLEAN /\ ~a.completed
    <3>1. b1.ctx[c].ref # 1 /\ b1.ctx[c].ref # MULTISHOT_REFCOUNT
      BY <1>4, <1>11, <2>3
    <3>2. LastReference(b1.ctx[c]) = FALSE
      BY <3>1 DEF LastReference
    <3>3. a.completed = FALSE
      BY <1>7, <3>2, Zenon
    <3>4. QED
      BY <3>3
  <2>8. bk.ctx[c].type \notin BufferKinds \cup {"CHAIN"} => Ready(b3, f)
    <3>1. bk.ctx[c].type \notin BufferKinds \cup {"CHAIN"} => BuffersKept(b, b3, c)
      BY <1>3 DEF BuffersKept
    <3>2. QED
      BY <1>2, <2>5, <2>6, <3>1, Releasing
  <2>9. ECANCELED \in Outcomes
    BY BackendAssumption DEF Outcomes, ECANCELED
  <2>10. AfterDone(f, a, c)
    <3>1. a.result \in Outcomes /\ a.value = bk.sched[f]
      BY <1>7, <2>2, <2>9
    <3>2. ~(bk.ctx[c].ref = 1)
      BY <1>3, <1>11
    <3>3. a.completed <=> bk.ctx[c].ref = 1
      BY <2>7, <3>2
    <3>4. QED
      BY <2>7, <2>8, <3>1, <3>3 DEF AfterDone, b3
  <2>11. QED
    BY <2>5, <2>6, <2>10 DEF b3, b
<1>12. QED
  BY <1>10, <1>11

----------------------------------------------------------------------------
(* The operations that await one request at a time *)

LEMMA InvParts ==
  ASSUME UInv
  PROVE  /\ BackendOK(bk, fs) /\ SqOK(bk) /\ Dooms(bk) /\ EventOK(bk) /\ Wf(bk) /\ bk \in Backends
         /\ fs \in [Fibers -> FiberStates] /\ \A f \in Fibers : FiberOK(bk, f, fs[f])
  BY DEF UInv, BackendOK, Good, Wf

LEMMA ResumedOne ==
  ASSUME UInv, NEW f \in Fibers, NEW o, Resumes(f, o),
         o \in OneRequestOps \cup ChainOps \/ (o = "timer_loop" /\ fs[f].ctx # NoCtx)
  PROVE  /\ Back(Unscheduled(f), f) /\ OneContext(f, fs[f].ctx)
         /\ fs[f] \in FiberStates /\ fs[f].op = o
<1>1. /\ BackendOK(bk, fs) /\ SqOK(bk) /\ FiberOK(bk, f, fs[f]) /\ fs[f].pc = "await"
      /\ fs[f].op = o /\ fs[f] \in FiberStates
  BY InvParts DEF Resumes, FiberOK
<1>2. Back(Unscheduled(f), f)
  BY <1>1, UnscheduledStep
<1>3. AwaitOK(bk, f, fs[f])
  BY <1>1 DEF FiberOK
<1>4. fs[f].ctx # NoCtx /\ fs[f].aux = NoCtx /\ Waits(bk, f, fs[f].ctx)
  BY <1>1, <1>3 DEF AwaitOK, WaitsForOne
<1>5. o \notin EventOps
  BY OpsDiffer
<1>6. fs[f].ctx \in Contexts
  BY <1>4 DEF Waits, Mine
<1>7. fs[f].timer # fs[f].ctx
  BY <1>1, <1>4 DEF FiberOK
<1>8. QED
  BY <1>1, <1>2, <1>4, <1>5, <1>6, <1>7 DEF OneContext

LEMMA KeepStep ==
  ASSUME NEW f \in Fibers, Back(Unscheduled(f), f), NEW c, OneContext(f, c),
         NEW a, a = After(f), ~a.completed, NEW b, b = context_attach_buffers(a.b, c)
  PROVE  Ready(b, f)
<1>1. /\ GaveUp(Unscheduled(f), a.b, c) /\ Dooms(a.b) /\ SqOK(a.b) /\ Wf(a.b)
      /\ c \in Contexts
  BY AfterStep DEF OneContext
<1>2. Marked(a.b, b, c) /\ SameSq(a.b, b) /\ SameChain(a.b, b, c) /\ b.ctx[c].buffers # "none"
  BY <1>1, AttachedMarked
<1>3. Dooms(b) /\ SqOK(b)
  BY <1>1, <1>2, SameChainDooms, SameSqOK DEF Marked
<1>4. GaveUp(Unscheduled(f), b, c) /\ BuffersKept(Unscheduled(f), b, c)
  BY <1>1, <1>2, GaveUpMarked DEF BuffersKept
<1>5. QED
  BY <1>3, <1>4, Releasing

\* What an operation on a buffer does when it comes back.
BufferBack(f, a) ==
    /\ ~a.completed /\ KeepBuffers(f, a) => UInv'
    /\ a.completed /\ (Raise(f, a.b) \/ Return(f, a.b)) => UInv'
    /\ a.completed => Ready(a.b, f)
    /\ a.result \in Outcomes /\ fs[f] \in FiberStates

LEMMA BufferStep ==
  ASSUME UInv, NEW f \in Fibers, NEW o \in ReadWriteOps, Resumes(f, o), NEW a, a = After(f)
  PROVE  BufferBack(f, a) /\ fs[f].aux = NoCtx /\ fs[f].op = o
         /\ (o \in WriteOps => fs[f].left <= BufLen)
<1>1. /\ Back(Unscheduled(f), f) /\ OneContext(f, fs[f].ctx) /\ fs[f] \in FiberStates
      /\ fs[f].op = o /\ fs[f].aux = NoCtx
  BY ResumedOne, OpsDiffer DEF OneContext
<1>2. AfterDone(f, a, fs[f].ctx)
  BY <1>1, AfterStep
<1>3. ASSUME ~a.completed, KeepBuffers(f, a)
      PROVE  UInv'
  <2>1. Ready(context_attach_buffers(a.b, fs[f].ctx), f)
    BY <1>1, <1>3, KeepStep
  <2>2. QED
    BY <1>3, <2>1, ReturnStep DEF KeepBuffers
<1>4. ASSUME a.completed, Raise(f, a.b) \/ Return(f, a.b)
      PROVE  UInv'
  BY <1>2, <1>4, ReturnStep DEF AfterDone
<1>5. o \in WriteOps => fs[f].left <= BufLen
  BY <1>1, InvParts DEF FiberOK, AwaitOK, Resumes
<1>6. QED
  BY <1>1, <1>2, <1>3, <1>4, <1>5 DEF BufferBack, AfterDone

\* ... and an operation without a buffer.
PlainBack(f, a) ==
    /\ Raise(f, a.b) \/ Return(f, a.b) => UInv'
    /\ Ready(a.b, f) /\ a.result \in Outcomes /\ fs[f] \in FiberStates

LEMMA PlainStep ==
  ASSUME UInv, NEW f \in Fibers, NEW o, Resumes(f, o), NEW a, a = After(f),
         o \in PlainOps \/ (o = "timer_loop" /\ fs[f].ctx # NoCtx)
  PROVE  PlainBack(f, a) /\ fs[f].aux = NoCtx /\ fs[f].op = o
<1>1. /\ Back(Unscheduled(f), f) /\ OneContext(f, fs[f].ctx) /\ fs[f] \in FiberStates
      /\ fs[f].op = o /\ fs[f].aux = NoCtx
  BY ResumedOne, OpsDiffer DEF OneContext
<1>2. AfterDone(f, a, fs[f].ctx)
  BY <1>1, AfterStep
<1>3. bk.ctx[fs[f].ctx].type \notin BufferKinds \cup {"CHAIN"}
  BY <1>1, InvParts DEF FiberOK, AwaitOK, Resumes, BufferKinds
<1>4. Ready(a.b, f)
  BY <1>2, <1>3 DEF AfterDone
<1>5. QED
  BY <1>1, <1>2, <1>4, ReturnStep DEF PlainBack, AfterDone

LEMMA ReadAction ==
  ASSUME UInv, NEW f \in Fibers, Backend_read(f)
  PROVE  UInv'
<1>1. PICK o \in {"read", "read_to_eof", "read_expand"} :
        BufferOp(f, o, LAMBDA a :
            LET s == [fs[f] EXCEPT !.total = @ + a.result]
            IN  IF a.result = 0 \/ ReadDone(fs[f], a.result)
                THEN Return(f, a.b)
                ELSE IssueAndAwait(f, a.b, s, "READ", Room(s)))
  BY Zenon DEF Backend_read
<1> DEFINE a == After(f)
           s == [fs[f] EXCEPT !.total = @ + a.result]
<1>2. Resumes(f, o) /\ o \in ReadWriteOps /\ o \notin WriteOps
  BY <1>1 DEF BufferOp, ReadWriteOps, ReadOps, WriteOps
<1>3. BufferBack(f, a) /\ fs[f].aux = NoCtx /\ fs[f].op = o
  BY <1>2, BufferStep
<1>4. \/ ~a.completed /\ KeepBuffers(f, a)
      \/ a.completed /\ a.result < 0 /\ Raise(f, a.b)
      \/ /\ a.completed /\ a.result >= 0
         /\ Return(f, a.b) \/ IssueAndAwait(f, a.b, s, "READ", Room(s))
  BY <1>1 DEF BufferOp
<1> HIDE DEF a
<1>5. CASE /\ a.completed /\ a.result >= 0
           /\ IssueAndAwait(f, a.b, s, "READ", Room(s))
  <2>1. fs[f] \in FiberStates /\ a.result \in Nat /\ Ready(a.b, f)
    BY <1>3, <1>5 DEF BufferBack, Outcomes, ECANCELED
  <2>2. fs[f].total \in Nat
    BY <2>1 DEF FiberStates
  <2>3. fs[f].total + a.result \in Nat
    BY <2>1, <2>2
  <2>4. /\ s \in FiberStates /\ s.aux = NoCtx /\ s.timer = fs[f].timer /\ s.op = o
        /\ s.total \in Nat
    BY <1>3, <2>1, <2>3 DEF FiberStates
  <2> HIDE DEF s
  <2>5. Room(s) \in Lengths
    BY <2>4, BackendAssumption DEF Room, Lengths
  <2>6. OpKind(s, "READ") /\ "READ" \in OneKinds
    BY <1>2, <2>4, OpsDiffer DEF OpKind, OneKinds, Kinds, BufferKinds
  <2>7. QED
    BY <1>5, <2>1, <2>4, <2>5, <2>6, IssueAndAwaitStep
<1>6. QED
  BY <1>3, <1>4, <1>5 DEF BufferBack

LEMMA ReadLoopAction ==
  ASSUME UInv, NEW f \in Fibers, NEW o \in ReadOps, NEW t \in {"READ", "RECV"},
         ReadLoop(f, o, t)
  PROVE  UInv'
<1> DEFINE a == After(f)
           s == [fs[f] EXCEPT !.moved = 0]
<1>1. Resumes(f, o) /\ o \in ReadWriteOps /\ o \notin WriteOps
  BY DEF ReadLoop, BufferOp, ReadWriteOps, ReadOps, WriteOps
<1>2. BufferBack(f, a) /\ fs[f].aux = NoCtx /\ fs[f].op = o
  BY <1>1, BufferStep
<1>3. \/ ~a.completed /\ KeepBuffers(f, a)
      \/ a.completed /\ a.result < 0 /\ Raise(f, a.b)
      \/ a.completed /\ (Return(f, a.b) \/ IssueAndAwait(f, a.b, s, t, BufLen))
  BY DEF ReadLoop, BufferOp
<1> HIDE DEF a
<1>4. CASE a.completed /\ IssueAndAwait(f, a.b, s, t, BufLen)
  <2>1. fs[f] \in FiberStates /\ Ready(a.b, f)
    BY <1>2, <1>4 DEF BufferBack
  <2>2. s \in FiberStates /\ s.aux = NoCtx /\ s.timer = fs[f].timer /\ s.op = o
    BY <1>2, <2>1, OpsAssumption DEF FiberStates
  <2> HIDE DEF s
  <2>3. BufLen \in Lengths
    BY BackendAssumption DEF Lengths
  <2>4. OpKind(s, t) /\ t \in OneKinds
    BY <1>1, <2>2, OpsDiffer DEF OpKind, OneKinds, Kinds, BufferKinds
  <2>5. QED
    BY <1>4, <2>1, <2>2, <2>3, <2>4, IssueAndAwaitStep
<1>5. QED
  BY <1>2, <1>3, <1>4 DEF BufferBack

LEMMA WriteLoopAction ==
  ASSUME UInv, NEW f \in Fibers, NEW o \in WriteOps,
         NEW t \in {"WRITE", "WRITEV", "SEND", "SENDMSG"}, WriteLoop(f, o, t)
  PROVE  UInv'
<1> DEFINE a == After(f)
           s == [fs[f] EXCEPT !.left = @ - a.result]
<1>1. Resumes(f, o) /\ o \in ReadWriteOps
  BY OpsDiffer DEF WriteLoop, BufferOp
<1>2. BufferBack(f, a) /\ fs[f].aux = NoCtx /\ fs[f].op = o /\ fs[f].left <= BufLen
  BY <1>1, BufferStep
<1>3. \/ ~a.completed /\ KeepBuffers(f, a)
      \/ a.completed /\ a.result < 0 /\ Raise(f, a.b)
      \/ /\ a.completed /\ a.result >= 0
         /\ Return(f, a.b) \/ IssueAndAwait(f, a.b, s, t, s.left)
  BY DEF WriteLoop, BufferOp
<1> HIDE DEF a
<1>4. CASE a.completed /\ a.result >= 0 /\ IssueAndAwait(f, a.b, s, t, s.left)
  <2>1. fs[f] \in FiberStates /\ Ready(a.b, f) /\ a.result \in Nat
    BY <1>2, <1>4 DEF BufferBack, Outcomes, ECANCELED
  <2>2. fs[f].left \in Int
    BY <2>1 DEF FiberStates
  <2>3. fs[f].left - a.result \in Int /\ fs[f].left - a.result <= BufLen
    BY <1>2, <2>1, <2>2, BackendAssumption
  <2>4. /\ s \in FiberStates /\ s.aux = NoCtx /\ s.timer = fs[f].timer /\ s.op = o
        /\ s.left = fs[f].left - a.result
    BY <1>2, <2>1, <2>3 DEF FiberStates
  <2> HIDE DEF s
  <2>5. s.left \in Lengths
    BY <2>3, <2>4 DEF Lengths
  <2>6. OpKind(s, t) /\ t \in OneKinds
    BY <1>1, <2>3, <2>4, OpsDiffer DEF OpKind, OneKinds, Kinds, BufferKinds
  <2>7. QED
    BY <1>4, <2>1, <2>4, <2>5, <2>6, IssueAndAwaitStep
<1>5. QED
  BY <1>2, <1>3, <1>4 DEF BufferBack

LEMMA RecvAction ==
  ASSUME UInv, NEW f \in Fibers, Backend_recv(f) \/ Backend_recvmsg(f)
  PROVE  UInv'
<1>1. PICK o \in {"recv", "recvmsg"} : BufferOp(f, o, LAMBDA a : Return(f, a.b))
  BY DEF Backend_recv, Backend_recvmsg
<1> DEFINE a == After(f)
<1>2. Resumes(f, o) /\ o \in ReadWriteOps
  BY <1>1 DEF BufferOp, ReadWriteOps, ReadOps
<1>3. BufferBack(f, a)
  BY <1>2, BufferStep
<1>4. \/ ~a.completed /\ KeepBuffers(f, a)
      \/ a.completed /\ (Raise(f, a.b) \/ Return(f, a.b))
  BY <1>1 DEF BufferOp
<1>5. QED
  BY <1>3, <1>4 DEF BufferBack

LEMMA AcceptAction ==
  ASSUME UInv, NEW f \in Fibers, io_uring_backend_accept(f)
  PROVE  UInv'
<1> DEFINE a == After(f)
<1>1. PICK o \in {"accept", "accept_each"} :
        /\ Resumes(f, o)
        /\ Raise(f, a.b) \/ Return(f, a.b) \/ IssueAndAwait(f, a.b, fs[f], "ACCEPT", 0)
  BY DEF io_uring_backend_accept, RaiseFirstOp
<1>2. o \in PlainOps
  BY DEF PlainOps
<1>3. PlainBack(f, a) /\ fs[f].aux = NoCtx /\ fs[f].op = o
  BY <1>1, <1>2, PlainStep
<1> HIDE DEF a
<1>4. CASE IssueAndAwait(f, a.b, fs[f], "ACCEPT", 0)
  <2>1. o \in OneRequestOps /\ o \notin ReadWriteOps /\ o \notin WriteOps /\ o # "timer_loop"
    BY <1>2, OpsDiffer
  <2>2. OpKind(fs[f], "ACCEPT") /\ "ACCEPT" \in OneKinds /\ 0 \in Lengths
    BY <1>3, <2>1, BackendAssumption DEF OpKind, OneKinds, Kinds, BufferKinds, Lengths
  <2>3. QED
    BY <1>3, <1>4, <2>2, IssueAndAwaitStep DEF PlainBack
<1>5. QED
  BY <1>1, <1>3, <1>4 DEF PlainBack

LEMMA ConnectAction ==
  ASSUME UInv, NEW f \in Fibers,
         Backend_connect(f) \/ Backend_close(f) \/ Backend_tee(f)
           \/ io_uring_backend_wait_fd(f) \/ Backend_sleep(f)
  PROVE  UInv'
<1> DEFINE a == After(f)
<1>1. PICK o \in {"connect", "close", "tee", "wait_io", "waitpid", "sleep"} :
        Resumes(f, o) /\ (Raise(f, a.b) \/ Return(f, a.b))
  <2>1. CASE Backend_connect(f)
    BY <2>1 DEF Backend_connect, RaiseFirstOp
  <2>2. CASE Backend_close(f)
    BY <2>2 DEF Backend_close, RaiseFirstOp
  <2>3. CASE Backend_tee(f)
    BY <2>3 DEF Backend_tee, RaiseFirstOp
  <2>4. CASE io_uring_backend_wait_fd(f)
    BY <2>4 DEF io_uring_backend_wait_fd
  <2>5. CASE Backend_sleep(f)
    BY <2>5 DEF Backend_sleep
  <2>6. QED
    BY <2>1, <2>2, <2>3, <2>4, <2>5
<1>2. o \in PlainOps
  BY DEF PlainOps
<1>3. PlainBack(f, a)
  BY <1>1, <1>2, PlainStep
<1>4. QED
  BY <1>1, <1>3 DEF PlainBack

LEMMA SpliceAction ==
  ASSUME UInv, NEW f \in Fibers, io_uring_backend_splice(f)
  PROVE  UInv'
<1> DEFINE a == After(f)
           s == [fs[f] EXCEPT !.total = @ + a.result]
<1>1. PICK o \in {"splice", "splice_to_eof"} :
        /\ Resumes(f, o)
        /\ \/ Raise(f, a.b) \/ Return(f, a.b)
           \/ a.result >= 0 /\ IssueAndAwait(f, a.b, s, "SPLICE", BufLen)
  BY DEF io_uring_backend_splice, RaiseFirstOp
<1>2. o \in PlainOps
  BY DEF PlainOps
<1>3. PlainBack(f, a) /\ fs[f].aux = NoCtx /\ fs[f].op = o
  BY <1>1, <1>2, PlainStep
<1> HIDE DEF a
<1>4. CASE a.result >= 0 /\ IssueAndAwait(f, a.b, s, "SPLICE", BufLen)
  <2>1. fs[f] \in FiberStates /\ a.result \in Nat /\ Ready(a.b, f)
    BY <1>3, <1>4 DEF PlainBack, Outcomes, ECANCELED
  <2>2. fs[f].total + a.result \in Nat
    BY <2>1 DEF FiberStates
  <2>3. s \in FiberStates /\ s.aux = NoCtx /\ s.timer = fs[f].timer /\ s.op = o
    BY <1>3, <2>1, <2>2 DEF FiberStates
  <2> HIDE DEF s
  <2>4. o \in OneRequestOps /\ o \notin ReadWriteOps /\ o \notin WriteOps /\ o # "timer_loop"
    BY <1>2, OpsDiffer
  <2>5. OpKind(s, "SPLICE") /\ "SPLICE" \in OneKinds /\ BufLen \in Lengths
    BY <2>3, <2>4, BackendAssumption DEF OpKind, OneKinds, Kinds, BufferKinds, Lengths
  <2>6. QED
    BY <1>4, <2>1, <2>3, <2>5, IssueAndAwaitStep
<1>5. QED
  BY <1>1, <1>3, <1>4 DEF PlainBack

\* A running fiber is ready for its next operation.
LEMMA RunningReady ==
  ASSUME UInv, NEW f \in Fibers, cur = f
  PROVE  /\ Ready(bk, f) /\ fs[f] \in FiberStates /\ fs[f].ctx = NoCtx /\ fs[f].aux = NoCtx
         /\ fs[f].pc # "await" /\ FiberOK(bk, f, fs[f])
<1>1. /\ BackendOK(bk, fs) /\ SqOK(bk) /\ FiberOK(bk, f, fs[f]) /\ fs[f].pc # "await"
      /\ bk.sched[f] = NoValue /\ fs[f] \in FiberStates /\ Dooms(bk)
  BY InvParts DEF UInv
<1>2. fs[f].ctx = NoCtx /\ fs[f].aux = NoCtx /\ TimerOK(bk, f, fs[f])
  BY <1>1 DEF FiberOK, TimerOK
<1>3. Mid(bk, fs, f, fs[f])
  BY <1>1, Enter
<1>4. /\ Left(fs[f]) \in FiberStates /\ Left(fs[f]).pc # "await"
      /\ Left(fs[f]).timer = fs[f].timer
  BY <1>1, LeftFields DEF AtRest
<1>5. SameUses(fs[f], Left(fs[f]), bk.event)
  BY <1>1, <1>4, RestUses DEF SameUses
<1>6. Mid(bk, fs, f, Left(fs[f]))
  BY <1>3, <1>4, <1>5, MidSameUses
<1>7. QED
  BY <1>1, <1>2, <1>6 DEF Ready

LEMMA EnteredFields ==
  ASSUME NEW f \in Fibers, fs[f] \in FiberStates, NEW o \in OpNames
  PROVE  /\ Entered(f, o) \in FiberStates /\ Entered(f, o).op = o
         /\ Entered(f, o).ctx = fs[f].ctx /\ Entered(f, o).aux = fs[f].aux
         /\ Entered(f, o).timer = fs[f].timer /\ Entered(f, o).pc = fs[f].pc
         /\ Entered(f, o).queue = fs[f].queue
         /\ o \in WriteOps => Entered(f, o).left <= BufLen
<1>1. BufLen \in Int /\ 0 \in Int /\ fs[f].step \in Nat /\ fs[f].step + 1 \in Nat
  BY BackendAssumption DEF FiberStates
<1> DEFINE l == IF o \in WriteOps THEN BufLen ELSE 0
<1>2. l \in Int /\ (o \in WriteOps => l <= BufLen)
  BY <1>1
<1>3. Entered(f, o) = [fs[f] EXCEPT !.op = o, !.step = fs[f].step + 1, !.left = l]
  BY DEF Entered
<1> HIDE DEF l
<1>4. QED
  BY <1>1, <1>2, <1>3 DEF FiberStates

LEMMA RunningName ==
  ASSUME NEW f \in Fibers, NEW o, Running(f, o), fs[f] \in FiberStates
  PROVE  o \in OpNames
<1>1. OpsOf[f] \in Seq(SUBSET OpNames)
  BY OpsAssumption
<1>2. fs[f].step \in Nat /\ fs[f].step < Len(OpsOf[f])
  BY DEF Running, FiberStates
<1>3. fs[f].step + 1 \in 1..Len(OpsOf[f])
  BY <1>1, <1>2
<1>4. OpsOf[f][fs[f].step + 1] \in SUBSET OpNames
  BY <1>1, <1>3
<1>5. QED
  BY <1>4 DEF Running

\* The kinds of the first requests fit their operations.
FitsOp(o, k) ==
    /\ o \in OneRequestOps /\ o \in OpNames /\ k \in OneKinds
    /\ o \in ReadWriteOps => k \in BufferKinds
    /\ o \in PlainOps => k \notin BufferKinds \cup {"CHAIN"}

LEMMA FirstRequestsFit == \A o \in DOMAIN FirstRequest : FitsOp(o, FirstRequest[o])
<1>1. SUFFICES ASSUME NEW o \in DOMAIN FirstRequest PROVE FitsOp(o, FirstRequest[o])
  OBVIOUS
<1> USE DEF FitsOp, OneRequestOps, ReadWriteOps, PlainOps, ReadOps, WriteOps, OneKinds, Kinds,
            BufferKinds, OpNames, EventOps
<1>2. CASE o \in ReadOps
  BY <1>2 DEF FirstRequest
<1>3. CASE o \in WriteOps
  BY <1>3 DEF FirstRequest
<1>4. CASE o \notin ReadOps \cup WriteOps
  BY <1>4 DEF FirstRequest
<1>5. QED
  BY <1>2, <1>3, <1>4

LEMMA StartAction ==
  ASSUME UInv, NEW f \in Fibers, Start(f) \/ StartTimerLoop(f)
  PROVE  UInv'
<1>1. PICK o, k, n :
        /\ Running(f, o) /\ IssueAndAwait(f, bk, Entered(f, o), k, n) /\ n \in {0, BufLen}
        /\ FitsOp(o, k) \/ (o = "timer_loop" /\ k = "TIMEOUT")
  <2>1. CASE Start(f)
    BY <2>1, FirstRequestsFit DEF Start
  <2>2. CASE StartTimerLoop(f)
    BY <2>2 DEF StartTimerLoop
  <2>3. QED
    BY <2>1, <2>2
<1>2. cur = f
  BY <1>1 DEF Running
<1>3. Ready(bk, f) /\ fs[f] \in FiberStates /\ fs[f].aux = NoCtx
  BY <1>2, RunningReady
<1>4. o \in OpNames
  BY <1>1, <1>3, RunningName
<1>5. /\ Entered(f, o) \in FiberStates /\ Entered(f, o).op = o /\ Entered(f, o).aux = NoCtx
      /\ Entered(f, o).timer = fs[f].timer /\ (o \in WriteOps => Entered(f, o).left <= BufLen)
  BY <1>3, <1>4, EnteredFields
<1>6. n \in Lengths
  BY <1>1, BackendAssumption DEF Lengths
<1>7. "TIMEOUT" \in OneKinds /\ "timer_loop" \notin ReadWriteOps \cup PlainOps \cup WriteOps
  BY OpsDiffer DEF OneKinds, Kinds
<1>8. OpKind(Entered(f, o), k) /\ k \in OneKinds
  BY <1>1, <1>5, <1>7, OpsDiffer DEF OpKind, FitsOp
<1>9. QED
  BY <1>1, <1>3, <1>5, <1>6, <1>8, IssueAndAwaitStep

----------------------------------------------------------------------------
(* The run queue *)

\* A fiber is made runnable, and keeps what it held.
LEMMA MadeRunnable ==
  ASSUME NEW b, NEW F, NEW f \in Fibers, NEW v \in Values, Between(b, F, f, Held(F, b.event)),
         FiberOK(b, f, F[f]), Dooms(b), SqOK(b), v = "timeout" => F[f].timer # NoCtx,
         NEW b2, b2 = Fiber_make_runnable(b, f, v)
  PROVE  BackendOK(b2, F) /\ SqOK(b2) /\ b2.sched[f] # NoValue /\ SchedAs(b, b2, f, b2.sched[f])
<1> DEFINE w == IF IS_EXCEPTION(b.sched[f]) /\ ~IS_EXCEPTION(v) THEN b.sched[f] ELSE v
<1>1. b \in Backends /\ Wf(b) /\ F \in [Fibers -> FiberStates] /\ EventOK(b)
  BY DEF Between, Good, Wf
<1>2. b.sched[f] \in Values \cup {NoValue}
  BY <1>1, BackendFields
<1>3. w \in Values /\ w # NoValue /\ (F[f].timer = NoCtx => w # "timeout")
  BY <1>2 DEF IS_EXCEPTION, Values, NoValue, FiberOK
<1>4. IsSched(b, b2, f, w)
  BY DEF Fiber_make_runnable, IsSched
<1> HIDE DEF w
<1>5. SchedAs(b, b2, f, w)
  BY <1>1, <1>3, <1>4, SchedSame
<1>6. SameUring(b, b2) /\ b2.sched[f] = w /\ b2.event = b.event
      /\ \A g \in Fibers : g # f => b2.sched[g] = b.sched[g]
  BY <1>5 DEF SchedAs, SameUring, SameContexts
<1>7. \A g \in Fibers : SchedKept(b, b2, g, F[g])
  BY <1>3, <1>6 DEF SchedKept, Between, FiberOK
<1>8. Between(b2, F, f, Held(F, b2.event))
  BY <1>6, <1>7, SameUringBetween
<1>9. Wf(b2) /\ (\A c \in Contexts : Untouched(b, b2, c)) /\ SqOK(b2) /\ Dooms(b2)
  BY <1>1, <1>6, SameUringUntouched, SameUringDooms
<1>10. FiberOK(b2, f, F[f])
  <2>1. \A c \in Claims(F[f]) : Untouched(b, b2, c) /\ c # b2.event
    BY <1>1, <1>6, <1>9, ClaimsMine DEF Mine
  <2>2. IsWaiter(F[f]) => b2.event # NoCtx
    BY <1>6 DEF FiberOK, AwaitOK, IsWaiter
  <2>3. QED
    BY <1>1, <1>7, <1>9, <2>1, <2>2, UntouchedFiber DEF Wf
<1>11. BackendOK(b2, F)
  BY <1>8, <1>9, <1>10 DEF BackendOK, Between
<1>12. QED
  BY <1>3, <1>5, <1>6, <1>9, <1>11

LEMMA MidSameUring ==
  ASSUME NEW b, NEW F, NEW f \in Fibers, NEW s, Mid(b, F, f, s), Dooms(b), SqOK(b),
         NEW b2, SameUring(b, b2), \A g \in Fibers : g # f => SchedKept(b, b2, g, F[g])
  PROVE  /\ Mid(b2, F, f, s) /\ Dooms(b2) /\ SqOK(b2) /\ b2.event = b.event /\ b2.ctx = b.ctx
         /\ Wf(b2) /\ \A c \in Contexts : Untouched(b, b2, c)
<1>1. Wf(b) /\ s \in FiberStates /\ Between(b, F, f, Held(Counting(F, f, s), b.event))
  BY DEF Mid, Between, Good
<1>2. Between(b2, F, f, Held(Counting(F, f, s), b.event))
  BY <1>1, SameUringBetween
<1>3. b2.event = b.event /\ b2.ctx = b.ctx
  BY DEF SameUring, SameContexts
<1>4. Dooms(b2) /\ SqOK(b2) /\ Wf(b2) /\ \A c \in Contexts : Untouched(b, b2, c)
  BY <1>1, SameUringDooms, SameUringUntouched
<1>5. QED
  BY <1>1, <1>2, <1>3, <1>4 DEF Mid

LEMMA MidSched ==
  ASSUME NEW b, NEW F, NEW f \in Fibers, NEW s, Mid(b, F, f, s), Dooms(b), SqOK(b),
         NEW v \in Values, NEW b2, b2 = Fiber_make_runnable(b, f, v)
  PROVE  /\ Mid(b2, F, f, s) /\ Dooms(b2) /\ SqOK(b2) /\ b2.event = b.event /\ b2.ctx = b.ctx
         /\ SchedAs(b, b2, f, b2.sched[f]) /\ b2.sched[f] # NoValue
         /\ b.sched[f] = NoValue => b2.sched[f] = v
<1> DEFINE w == IF IS_EXCEPTION(b.sched[f]) /\ ~IS_EXCEPTION(v) THEN b.sched[f] ELSE v
<1>1. b \in Backends /\ \A g \in Fibers : g # f => FiberOK(b, g, F[g])
  BY DEF Mid, Between, Good, Wf
<1>2. b.sched[f] \in Values \cup {NoValue}
  BY <1>1, BackendFields
<1>3. w \in Values /\ w # NoValue /\ (b.sched[f] = NoValue => w = v)
  BY <1>2 DEF IS_EXCEPTION, Values, NoValue
<1>4. IsSched(b, b2, f, w)
  BY DEF Fiber_make_runnable, IsSched
<1> HIDE DEF w
<1>5. SchedAs(b, b2, f, w)
  BY <1>1, <1>3, <1>4, SchedSame
<1>6. SameUring(b, b2) /\ b2.sched[f] = w
      /\ \A g \in Fibers : g # f => b2.sched[g] = b.sched[g]
  BY <1>5 DEF SchedAs
<1>7. \A g \in Fibers : g # f => SchedKept(b, b2, g, F[g])
  BY <1>1, <1>6 DEF SchedKept, FiberOK
<1>8. QED
  BY <1>3, <1>5, <1>6, <1>7, MidSameUring

\* The fiber goes to the end of the run queue.
LEMMA SnoozeStep ==
  ASSUME NEW f \in Fibers, NEW b, Ready(b, f), NEW s \in FiberStates, s.aux = NoCtx,
         s.ctx = NoCtx, s.timer = fs[f].timer, s.op \in {"timer_loop", "snooze"},
         Await(f, Fiber_make_runnable(b, f, "nil"), s)
  PROVE  UInv'
<1> DEFINE t == [s EXCEPT !.pc = "await"]
           b2 == Fiber_make_runnable(b, f, "nil")
<1>1. bk' = b2 /\ cur' = NoFiber /\ fs' = [fs EXCEPT ![f] = t]
  BY DEF Await
<1>2. /\ t \in FiberStates /\ t.ctx = NoCtx /\ t.aux = NoCtx /\ t.timer = fs[f].timer
      /\ t.op = s.op /\ t.pc = "await"
  BY DEF FiberStates
<1> HIDE DEF t
<1>3. t.op \notin EventOps \cup OneRequestOps \cup ChainOps \cup {"double_splice"}
  BY <1>2, OpsDiffer
<1>4. fs[f] \in FiberStates /\ "nil" \in Values
  BY DEF Ready, Mid, Between, Values
<1>5. SameUses(Left(fs[f]), t, b.event)
  <2>1. Left(fs[f]).pc # "await" /\ Left(fs[f]).timer = fs[f].timer
    BY <1>4, LeftFields DEF AtRest
  <2>2. ASSUME NEW c \in Contexts
        PROVE  Uses(Left(fs[f]), c, b.event) = Uses(t, c, b.event)
    <3>1. Uses(Left(fs[f]), c, b.event) = One(fs[f].timer = c)
      BY <2>1, RestUses
    <3>2. Uses(t, c, b.event) = One(fs[f].timer = c)
      BY <1>2, <1>3, NoCtxContext DEF Uses, One, IsWaiter
    <3>3. QED
      BY <3>1, <3>2
  <2>3. QED
    BY <2>2 DEF SameUses
<1>6. Mid(b, fs, f, t)
  BY <1>2, <1>5, MidSameUses DEF Ready
<1>7. /\ Mid(b2, fs, f, t) /\ Dooms(b2) /\ SqOK(b2) /\ b2.event = b.event /\ b2.ctx = b.ctx
      /\ b2.sched[f] = "nil"
  BY <1>4, <1>6, MidSched DEF Ready
<1> HIDE DEF b2
<1>8. AwaitOK(b2, f, t)
  <2>1. t.op \notin ReadWriteOps \cup PlainOps \cup WriteOps
    BY <1>3, OpsDiffer
  <2>2. b2.sched[f] # NoValue
    BY <1>7 DEF NoValue
  <2>3. QED
    BY <1>2, <1>3, <2>1, <2>2 DEF AwaitOK, ChainOps, EventOps
<1>9. FiberOK(b2, f, t)
  BY <1>2, <1>7, <1>8, NoCtxContext DEF FiberOK, Ready, TimerOK, Mine
<1>10. BackendOK(b2, [fs EXCEPT ![f] = t])
  BY <1>7, <1>9, Leave
<1>11. QED
  BY <1>1, <1>7, <1>10, BackendAssumption DEF UInv

LEMMA ReadyUnheld ==
  ASSUME NEW f \in Fibers, NEW b, Back(b, f), fs[f].ctx = NoCtx, fs[f].aux = NoCtx,
         ~IsWaiter(fs[f])
  PROVE  Ready(b, f)
<1>1. fs[f] \in FiberStates /\ Mid(b, fs, f, fs[f])
  BY DEF Back, Mid
<1>2. AtRest(Left(fs[f]), fs[f], "app")
  BY <1>1, LeftFields
<1>3. ASSUME NEW c \in Contexts
      PROVE  Uses(fs[f], c, b.event) = Uses(Left(fs[f]), c, b.event)
  <2>1. Uses(Left(fs[f]), c, b.event) = One(fs[f].timer = c)
    BY <1>2, RestUses DEF AtRest
  <2>2. Uses(fs[f], c, b.event) = One(fs[f].timer = c)
    BY NoCtxContext DEF Uses, One
  <2>3. QED
    BY <2>1, <2>2
<1>4. Mid(b, fs, f, Left(fs[f]))
  BY <1>1, <1>2, <1>3, MidSameUses DEF SameUses, AtRest
<1>5. QED
  BY <1>4 DEF Ready, Back

LEMMA TimerLoopAction ==
  ASSUME UInv, NEW f \in Fibers, Backend_timer_loop(f)
  PROVE  UInv'
<1> DEFINE s == [fs[f] EXCEPT !.op = "timer_loop"]
           a == IF fs[f].ctx = NoCtx
                THEN [b |-> Unscheduled(f), completed |-> TRUE, value |-> bk.sched[f]]
                ELSE After(f)
<1>1. /\ Resumes(f, "timer_loop") /\ fs[f].op = "timer_loop" /\ fs[f].pc = "await"
      /\ FiberOK(bk, f, fs[f]) /\ fs[f] \in FiberStates
  BY InvParts DEF Backend_timer_loop, Resumes
<1>2. \/ Raise(f, a.b) \/ Return(f, a.b)
      \/ IssueAndAwait(f, a.b, s, "TIMEOUT", 0)
      \/ Await(f, Fiber_make_runnable(a.b, f, "nil"), [s EXCEPT !.ctx = NoCtx])
  BY DEF Backend_timer_loop, TimerRound
<1>3. fs[f].aux = NoCtx
  BY <1>1 DEF FiberOK, AwaitOK
<1>4. Ready(a.b, f)
  <2>1. CASE fs[f].ctx = NoCtx
    <3>1. Back(Unscheduled(f), f)
      BY InvParts, UnscheduledStep
    <3>2. ~IsWaiter(fs[f])
      BY <1>1 DEF IsWaiter, EventOps
    <3>3. QED
      BY <1>3, <2>1, <3>1, <3>2, ReadyUnheld
  <2>2. CASE fs[f].ctx # NoCtx
    BY <1>1, <2>2, PlainStep DEF PlainBack
  <2>3. QED
    BY <2>1, <2>2
<1> HIDE DEF a
<1>5. /\ s \in FiberStates /\ s.aux = NoCtx /\ s.timer = fs[f].timer /\ s.op = "timer_loop"
  BY <1>1, <1>3 DEF FiberStates, OpNames
<1>6. LET t == [s EXCEPT !.ctx = NoCtx]
      IN  /\ t \in FiberStates /\ t.aux = NoCtx /\ t.ctx = NoCtx /\ t.timer = fs[f].timer
          /\ t.op = "timer_loop"
  BY <1>5 DEF FiberStates
<1> HIDE DEF s
<1>7. OpKind(s, "TIMEOUT") /\ "TIMEOUT" \in OneKinds /\ 0 \in Lengths
  BY <1>5, OpsDiffer, BackendAssumption DEF OpKind, OneKinds, Kinds, Lengths
<1>8. QED
  BY <1>2, <1>4, <1>5, <1>6, <1>7, ReturnStep, IssueAndAwaitStep, SnoozeStep

LEMMA SnoozeAction ==
  ASSUME UInv, NEW f \in Fibers, Backend_snooze(f)
  PROVE  UInv'
<1>1. CASE Running(f, "snooze") /\ Await(f, Fiber_make_runnable(bk, f, "nil"), Entered(f, "snooze"))
  <2>1. Ready(bk, f) /\ fs[f] \in FiberStates /\ fs[f].aux = NoCtx /\ fs[f].ctx = NoCtx
    BY <1>1, RunningReady DEF Running
  <2>2. "snooze" \in OpNames
    BY DEF OpNames
  <2>3. QED
    BY <1>1, <2>1, <2>2, EnteredFields, SnoozeStep
<1>2. CASE Resumes(f, "snooze") /\ (Raise(f, Unscheduled(f)) \/ Return(f, Unscheduled(f)))
  <2>1. /\ fs[f].ctx = NoCtx /\ fs[f].aux = NoCtx /\ ~IsWaiter(fs[f])
    BY <1>2, InvParts DEF Resumes, FiberOK, AwaitOK, IsWaiter, EventOps
  <2>2. Ready(Unscheduled(f), f)
    BY <2>1, InvParts, UnscheduledStep, ReadyUnheld
  <2>3. QED
    BY <1>2, <2>2, ReturnStep
<1>3. QED
  BY <1>1, <1>2 DEF Backend_snooze

LEMMA RunAction ==
  ASSUME UInv, NEW f \in Fibers, Run(f)
  PROVE  UInv'
<1>1. fs[f].pc = "app" /\ Return(f, Unscheduled(f)) /\ FiberOK(bk, f, fs[f])
  BY InvParts DEF Run
<1>2. fs[f].ctx = NoCtx /\ fs[f].aux = NoCtx /\ ~IsWaiter(fs[f])
  BY <1>1 DEF FiberOK, IsWaiter
<1>3. Ready(Unscheduled(f), f)
  BY <1>2, InvParts, UnscheduledStep, ReadyUnheld
<1>4. QED
  BY <1>1, <1>3, ReturnStep

LEMMA FinishAction ==
  ASSUME UInv, NEW f \in Fibers, Finish(f)
  PROVE  UInv'
<1> DEFINE t == [fs[f] EXCEPT !.pc = "dead"]
<1>1. /\ Ready(bk, f) /\ fs[f] \in FiberStates /\ fs[f].ctx = NoCtx /\ fs[f].aux = NoCtx
      /\ FiberOK(bk, f, fs[f]) /\ fs[f].pc = "app" /\ fs[f].timer = NoCtx
  BY RunningReady DEF Finish
<1>2. /\ fs' = [fs EXCEPT ![f] = t] /\ cur' = NoFiber /\ bk' = bk
  BY DEF Finish
<1>3. /\ t \in FiberStates /\ t.ctx = NoCtx /\ t.aux = NoCtx /\ t.timer = fs[f].timer
      /\ t.pc = "dead"
  BY <1>1 DEF FiberStates
<1> HIDE DEF t
<1>4. SameUses(fs[f], t, bk.event)
  BY <1>1, <1>3, RestUses DEF SameUses
<1>5. Mid(bk, fs, f, t)
  BY <1>3, <1>4, MidSameUses, InvParts, Enter
<1>6. FiberOK(bk, f, t)
  BY <1>1, <1>3 DEF FiberOK
<1>7. BackendOK(bk, [fs EXCEPT ![f] = t])
  BY <1>5, <1>6, InvParts, Leave
<1>8. QED
  BY <1>2, <1>7, InvParts, BackendAssumption DEF UInv

LEMMA ScheduleAction ==
  ASSUME UInv, NEW f \in Fibers, Schedule(f)
  PROVE  UInv'
<1>1. PICK v \in {"exception", "value"} : bk' = Fiber_make_runnable(bk, f, v)
  BY DEF Schedule
<1>2. fs' = fs /\ cur' = cur /\ cur # f
  BY DEF Schedule
<1>3. v \in Values /\ v # "timeout"
  BY DEF Values
<1>4. Between(bk, fs, f, Held(fs, bk.event))
  <2>1. Mid(bk, fs, f, fs[f]) /\ Counting(fs, f, fs[f]) = fs
    BY InvParts, Enter, CountingType
  <2>2. QED
    BY <2>1 DEF Mid
<1>5. /\ BackendOK(bk', fs) /\ SqOK(bk') /\ SchedAs(bk, bk', f, bk'.sched[f])
  BY <1>1, <1>3, <1>4, InvParts, MadeRunnable
<1>6. \A g \in Fibers : g # f => bk'.sched[g] = bk.sched[g]
  BY <1>5 DEF SchedAs
<1>7. QED
  BY <1>2, <1>5, <1>6 DEF UInv

----------------------------------------------------------------------------
(* Timeout blocks *)

\* Issue, with a record of its own for the context.
LEMMA IssueRecord ==
  ASSUME NEW b, NEW F, NEW f \in Fibers, NEW s, Mid(b, F, f, s), Dooms(b), CanAcquire(b, 1),
         NEW k \in Types, NEW reqs \in Seq(Requests), reqs # <<>>,
         NEW x \in ContextRecords, x.ref # 0, FreshContext(x, f, reqs), FreshKinds(x, reqs),
         NEW b1, b1 = Issue(b, f, k, reqs), NEW c, c = Acquired(b),
         NEW b2, IsPut(b1, b2, c, x), NEW t, TakesUp(s, t, c, b.event)
  PROVE  TookUp(b, b2, F, f, t, c, x, reqs) /\ SqOK(b2)
<1>1. Reusable(b) /\ Wf(b)
  BY MidReusable
<1>2. b1 = IssuedNow(b, k, f, reqs)
  BY DEF Issue, IssuedNow, AcquiredAndPrepared
<1>3. IssuedAs(b, b1, c, NewContext(k, f), reqs) /\ SqOK(b1)
  BY <1>1, <1>2, Issued
<1>4. NewContext(k, f).ref # 0
  BY DEF NewContext
<1>5. IssuedAs(b, b2, c, x, reqs) /\ SameSq(b1, b2)
  BY <1>3, <1>4, IssuedPut
<1>6. TookUp(b, b2, F, f, t, c, x, reqs)
  BY <1>5, TakeUpStep
<1>7. QED
  BY <1>3, <1>5, <1>6, SameSqOK

LEMMA TimeoutAction ==
  ASSUME UInv, NEW f \in Fibers, Backend_timeout(f)
  PROVE  UInv'
<1> DEFINE reqs == <<Request("TIMEOUT", 0)>>
           b1 == Issue(bk, f, "TIMEOUT", reqs)
           x == [NewContext("TIMEOUT", f) EXCEPT !.resume = "timeout"]
           c == Acquired(bk)
           t == [fs[f] EXCEPT !.timer = c, !.step = @ + 1]
<1>1. /\ cur = f /\ fs[f].timer = NoCtx /\ CanAcquire(bk, 1) /\ cur' = cur
      /\ bk' = [b1 EXCEPT !.ctx[c].resume = "timeout"]
      /\ fs' = [fs EXCEPT ![f].timer = c, ![f].step = @ + 1]
  BY DEF Backend_timeout, Running
<1>2. /\ Ready(bk, f) /\ fs[f] \in FiberStates /\ fs[f].ctx = NoCtx /\ fs[f].aux = NoCtx
      /\ fs[f].pc # "await" /\ bk.sched[f] = NoValue
  BY <1>1, RunningReady DEF Ready
<1>3. Wf(bk) /\ Mid(bk, fs, f, fs[f]) /\ Dooms(bk) /\ fs \in [Fibers -> FiberStates]
  BY InvParts, Enter
<1>4. c \in Contexts
  BY <1>1, <1>2, <1>3, AcquiredFree DEF Ready
<1>5. /\ t \in FiberStates /\ t.timer = c /\ t.ctx = NoCtx /\ t.aux = NoCtx /\ t.pc = fs[f].pc
  <2> HIDE DEF c
  <2>1. fs[f].step \in Nat /\ fs[f].step + 1 \in Nat
    BY <1>2 DEF FiberStates
  <2>2. QED
    BY <1>2, <1>4, <2>1 DEF FiberStates
<1>6. fs' = [fs EXCEPT ![f] = t]
  BY <1>1, <1>3
<1>7. reqs \in Seq(Requests) /\ reqs # <<>> /\ Len(reqs) = 1 /\ DOMAIN reqs = {1}
      /\ reqs[1].kind = "TIMEOUT"
  <2>1. 0 \in Lengths /\ "TIMEOUT" \in Kinds
    BY BackendAssumption DEF Lengths, Kinds
  <2>2. QED
    BY <2>1, RequestType
<1>8. /\ x \in ContextRecords /\ x.ref = 2 /\ x.type = "TIMEOUT" /\ x.fiber = f
      /\ x.resume = "timeout" /\ x.buffers = "none"
  <2>1. NewContext("TIMEOUT", f) \in ContextRecords
    BY NewContextType DEF Types, Kinds
  <2>2. QED
    BY <2>1 DEF NewContext, ContextRecords, Values
<1>9. FreshContext(x, f, reqs)
  BY <1>7, <1>8 DEF FreshContext
<1>10. FreshKinds(x, reqs)
  BY <1>7, <1>8 DEF FreshKinds, BufferKinds
<1>11. IsPut(b1, bk', c, x)
  <2>1. b1.ctx[c] = NewContext("TIMEOUT", f)
    <3>1. "TIMEOUT" \in Types /\ Reusable(bk) /\ CanAcquire(bk, 1) /\ b1 = IssuedNow(bk, "TIMEOUT", f, reqs)
      BY <1>1, <1>3, MidReusable DEF Types, Kinds, Issue, IssuedNow, AcquiredAndPrepared
    <3> HIDE DEF reqs, b1, c
    <3>2. c = Acquired(bk)
      BY DEF c
    <3>3. IssuedAs(bk, b1, c, NewContext("TIMEOUT", f), reqs)
      BY <1>3, <1>7, <3>1, <3>2, Issued
    <3>4. QED
      BY <3>3 DEF IssuedAs
  <2> HIDE DEF b1, c
  <2>2. bk' = [b1 EXCEPT !.ctx[c] = [b1.ctx[c] EXCEPT !.resume = "timeout"]]
    BY <1>1
  <2>3. QED
    BY <2>1, <2>2 DEF IsPut
<1> HIDE DEF x, reqs, t
<1>12. TakesUp(fs[f], t, c, bk.event)
  <2> HIDE DEF c
  <2>1. ASSUME NEW d \in Contexts, d # c
        PROVE  Uses(fs[f], d, bk.event) = Uses(t, d, bk.event)
    <3>1. Uses(fs[f], d, bk.event) = One(fs[f].timer = d)
      BY <1>2, RestUses
    <3>2. Uses(t, d, bk.event) = One(t.timer = d)
      BY <1>2, <1>5, RestUses
    <3>3. QED
      BY <1>1, <1>5, <2>1, <3>1, <3>2, NoCtxContext DEF One
  <2>2. Uses(t, c, bk.event) = 1
    BY <1>2, <1>4, <1>5, RestUses DEF One
  <2>3. QED
    BY <1>5, <2>1, <2>2 DEF TakesUp, OnlyUses
<1> HIDE DEF b1, c
<1>13. TookUp(bk, bk', fs, f, t, c, x, reqs) /\ SqOK(bk')
  <2>1. c = Acquired(bk) /\ b1 = Issue(bk, f, "TIMEOUT", reqs) /\ "TIMEOUT" \in Types /\ x.ref # 0
    BY <1>8 DEF c, b1, Types, Kinds
  <2>2. QED
    BY <1>1, <1>3, <1>7, <1>8, <1>9, <1>10, <1>11, <1>12, <2>1, IssueRecord
<1>14. FiberOK(bk', f, t)
  <2>1. Mine(bk', f, c) /\ bk'.ctx[c].ref = 2 /\ bk'.ctx[c].type = "TIMEOUT"
    BY <1>8, <1>13 DEF TookUp, Mine
  <2>2. t.timer # NoCtx /\ t.timer \notin {t.ctx, t.aux} /\ 2 # MULTISHOT_REFCOUNT
    BY <1>4, <1>5, NoCtxContext, NotMultishot
  <2>3. QED
    BY <1>2, <1>5, <2>1, <2>2 DEF FiberOK
<1>15. BackendOK(bk', fs')
  BY <1>6, <1>13, <1>14, Leave DEF TookUp
<1>16. fs'[f].pc # "await" /\ bk'.sched[f] = NoValue
  BY <1>2, <1>3, <1>5, <1>6, <1>13 DEF TookUp, Touches, OthersKept, SameRest
<1>17. QED
  BY <1>1, <1>13, <1>15, <1>16 DEF UInv

LEMMA TimeoutEnsureAction ==
  ASSUME UInv, NEW f \in Fibers, Backend_timeout_ensure(f)
  PROVE  UInv'
<1> DEFINE c == fs[f].timer
           b1 == CancelNow(bk, c)
           t == [Left(fs[f]) EXCEPT !.timer = NoCtx]
<1>1. /\ cur = f /\ c # NoCtx /\ cur' = cur /\ bk' = context_store_release(b1, c)
      /\ fs' = [fs EXCEPT ![f] = t]
  BY DEF Backend_timeout_ensure
<1>2. /\ fs[f] \in FiberStates /\ fs[f].pc # "await" /\ FiberOK(bk, f, fs[f])
      /\ bk.sched[f] = NoValue
  BY <1>1, RunningReady DEF Ready
<1>3. Wf(bk) /\ Mid(bk, fs, f, fs[f]) /\ Dooms(bk) /\ fs \in [Fibers -> FiberStates]
  BY InvParts, Enter
<1>4. /\ c \in Contexts /\ Mine(bk, f, c) /\ bk.ctx[c].ref # MULTISHOT_REFCOUNT
      /\ bk.ctx[c].type = "TIMEOUT"
  BY <1>1, <1>2 DEF FiberOK, Mine
<1>5. /\ t \in FiberStates /\ t.timer = NoCtx /\ t.ctx = NoCtx /\ t.aux = NoCtx /\ t.pc = "app"
  BY <1>2, LeftFields DEF AtRest, FiberStates
<1> HIDE DEF t
<1>6. LetsGo(fs[f], t, c, bk.event)
  <2>1. ASSUME NEW d \in Contexts
        PROVE  Uses(fs[f], d, bk.event) = One(c = d) /\ Uses(t, d, bk.event) = 0
    BY <1>2, <1>5, RestUses, NoCtxContext DEF One
  <2>2. QED
    BY <1>4, <1>5, <2>1 DEF LetsGo, OnlyUses, One
<1>7. Marked(bk, b1, c) /\ SqOK(b1) /\ b1.sq = <<>> /\ Dooms(b1)
  BY <1>3, <1>4, CancelledMarked
<1> HIDE DEF b1, c
<1>8. Wf(b1) /\ Counted1(b1.ctx[c])
  BY <1>4, <1>7 DEF Marked, Touches, Counted1, Mine
<1>9. GaveUp(b1, bk', c) /\ SameSq(b1, bk') /\ SameChain(b1, bk', c)
  BY <1>1, <1>4, <1>8, ReleasedGaveUp
<1>10. GaveUp(bk, bk', c)
  BY <1>7, <1>9, MarkedGaveUp
<1>11. Dooms(bk') /\ SqOK(bk')
  BY <1>4, <1>7, <1>8, <1>9, SameChainDooms, SameSqOK DEF GaveUp, Counted1
<1>12. BuffersKept(bk, bk', c)
  BY <1>4 DEF BuffersKept, BufferKinds
<1>13. Mid(bk', fs, f, t)
  BY <1>3, <1>4, <1>6, <1>10, <1>12, GiveUpStep
<1>14. bk'.sched[f] = NoValue
  BY <1>2, <1>10 DEF GaveUp, Touches, OthersKept, SameRest
<1>15. FiberOK(bk', f, t)
  BY <1>5, <1>14 DEF FiberOK, NoValue
<1>16. BackendOK(bk', fs')
  BY <1>1, <1>11, <1>13, <1>15, Leave
<1>17. fs'[f].pc # "await"
  BY <1>1, <1>3, <1>5
<1>18. QED
  BY <1>1, <1>11, <1>14, <1>16, <1>17 DEF UInv

----------------------------------------------------------------------------
(* Chains *)

ChainFits(s, k, reqs) ==
    /\ (s.op = "chain" /\ k = "CHAIN") \/ (s.op = "splice_chunks" /\ k = "SPLICE")
    /\ reqs \in Seq(Requests) /\ reqs # <<>> /\ Len(reqs) \in 1..4
    /\ \A i \in DOMAIN reqs : reqs[i].kind # "MULTISHOT_ACCEPT"
    /\ k = "SPLICE" => \A i \in DOMAIN reqs : reqs[i].kind \notin BufferKinds

LEMMA ChainIssued ==
  ASSUME NEW b, NEW F, NEW f \in Fibers, NEW s, Mid(b, F, f, s), Dooms(b), CanAcquire(b, 1),
         NEW k \in {"CHAIN", "SPLICE"}, NEW u, NEW reqs, ChainFits(u, k, reqs),
         NEW x, x = ChainContext(k, f, Len(reqs)),
         NEW c, c = Acquired(b), NEW b2, b2 = IssueChain(b, f, k, reqs),
         NEW t, TakesUp(s, t, c, b.event)
  PROVE  TookUp(b, b2, F, f, t, c, x, reqs) /\ SqOK(b2)
<1> DEFINE b1 == Issue(b, f, k, reqs)
<1>1. reqs \in Seq(Requests) /\ reqs # <<>> /\ Len(reqs) \in 1..4
  BY DEF ChainFits
<1>2. PICK m \in 1..4 : Len(reqs) = m
  BY <1>1
<1>3. /\ x \in ContextRecords /\ x.ref = m + 1 /\ x.ref # 0 /\ x.type = k /\ x.fiber = f
      /\ x.resume = "nil" /\ x.buffers = "none"
  <2>1. x = ChainContext(k, f, m)
    BY <1>2, Zenon
  <2>2. IsChainRecord(ChainContext(k, f, m), k, f, m)
    BY ChainRecord
  <2>3. QED
    BY <2>1, <2>2 DEF IsChainRecord
<1>4. FreshContext(x, f, reqs)
  BY <1>2, <1>3 DEF FreshContext
<1>5. FreshKinds(x, reqs)
  BY <1>3 DEF FreshKinds, ChainFits, BufferKinds
<1>6. k \in Types
  BY DEF Types, Kinds
<1>7. Reusable(b) /\ Wf(b)
  BY MidReusable
<1>8. b1 = IssuedNow(b, k, f, reqs)
  BY DEF Issue, IssuedNow, AcquiredAndPrepared
<1> HIDE DEF b1
<1>9. IssuedAs(b, b1, c, NewContext(k, f), reqs)
  BY <1>1, <1>6, <1>7, <1>8, Issued
<1>10. b1.ctx[c] = NewContext(k, f)
  BY <1>9 DEF IssuedAs
<1>11. b2 = [b1 EXCEPT !.ctx[c] = [b1.ctx[c] EXCEPT !.ref = Len(reqs) + 1]]
  BY DEF IssueChain, b1
<1>12. IsPut(b1, b2, c, x)
  BY <1>10, <1>11 DEF IsPut, ChainContext
<1>13. b1 = Issue(b, f, k, reqs)
  BY DEF b1
<1>14. QED
  BY <1>1, <1>3, <1>4, <1>5, <1>6, <1>12, <1>13, IssueRecord

LEMMA ChainAwaitStep ==
  ASSUME NEW f \in Fibers, NEW b, Ready(b, f), CanAcquire(b, 1), NEW s \in FiberStates,
         s.aux = NoCtx, s.timer = fs[f].timer, NEW k, NEW reqs, ChainFits(s, k, reqs),
         Await(f, IssueChain(b, f, k, reqs), [s EXCEPT !.ctx = Acquired(b)])
  PROVE  UInv'
<1> DEFINE c == Acquired(b)
           t == [[s EXCEPT !.ctx = Acquired(b)] EXCEPT !.pc = "await"]
           b2 == IssueChain(b, f, k, reqs)
           x == ChainContext(k, f, Len(reqs))
<1>1. fs \in [Fibers -> FiberStates] /\ fs[f] \in FiberStates /\ Wf(b)
  BY DEF Ready, Mid, Between, Good
<1>2. bk' = b2 /\ cur' = NoFiber /\ fs' = [fs EXCEPT ![f] = t]
  BY DEF Await
<1>3. c \in Contexts
  BY <1>1, AcquiredFree DEF Ready
<1>4. /\ t \in FiberStates /\ t.ctx = c /\ t.aux = NoCtx /\ t.timer = fs[f].timer
      /\ t.pc = "await" /\ t.op = s.op
  BY <1>3 DEF FiberStates
<1>5. t.op \in ChainOps /\ t.op \notin EventOps \cup OneRequestOps \cup {"double_splice", "snooze", "timer_loop"}
  BY <1>4, OpsDiffer DEF ChainFits, ChainOps
<1> HIDE DEF t
<1>6. AwaitsOnly(t, c, f)
  BY <1>4, <1>5 DEF AwaitsOnly
<1>7. c # fs[f].timer /\ TakesUp(Left(fs[f]), t, c, b.event)
  BY <1>6, TakesOne
<1>8. k \in {"CHAIN", "SPLICE"} /\ Mid(b, fs, f, Left(fs[f])) /\ Dooms(b)
  BY DEF ChainFits, Ready
<1>9. TookUp(b, b2, fs, f, t, c, x, reqs) /\ SqOK(b2)
  BY <1>7, <1>8, ChainIssued
<1>10. PICK m \in 1..4 : Len(reqs) = m
  BY DEF ChainFits
<1>11. /\ x.ref = m + 1 /\ x.ref # 0 /\ x.type = k /\ x.fiber = f
       /\ x.resume = "nil" /\ x.ref # MULTISHOT_REFCOUNT
  <2>1. x = ChainContext(k, f, m)
    BY <1>10, Zenon
  <2> HIDE DEF x
  <2>2. IsChainRecord(ChainContext(k, f, m), k, f, m)
    BY <1>8, ChainRecord
  <2>3. QED
    BY <2>1, <2>2 DEF IsChainRecord
<1> HIDE DEF b2, c, x
<1>12. Waits(b2, f, c)
  <2>1. Out(b2, c) = m /\ m # 0
    BY <1>9, <1>10 DEF TookUp
  <2>2. WillWake(b2, f, c)
    BY <2>1 DEF WillWake
  <2>3. QED
    BY <1>3, <1>9, <1>11, <2>2 DEF Waits, Mine, TookUp
<1>13. AwaitOK(b2, f, t)
  <2>1. t.op \notin ReadWriteOps \cup PlainOps \cup WriteOps /\ t.op \notin {"accept_queued", "accept_loop"}
    BY <1>5, OpsDiffer DEF EventOps
  <2>2. b2.ctx[c].type = k /\ c # NoCtx
    BY <1>3, <1>9, <1>11, NoCtxContext DEF TookUp
  <2>3. (t.op = "chain" /\ k = "CHAIN") \/ (t.op = "splice_chunks" /\ k = "SPLICE")
    BY <1>4 DEF ChainFits
  <2>4. QED
    BY <1>4, <1>5, <1>12, <2>1, <2>2, <2>3 DEF AwaitOK
<1>14. TimerOK(b2, f, fs[f])
  BY <1>1, <1>7, <1>9, TimerTouched DEF TookUp, Ready
<1>15. FiberOK(b2, f, t)
  <2>1. b2.sched[f] = NoValue
    BY <1>9 DEF Ready, TookUp, Touches, OthersKept, SameRest
  <2>2. QED
    BY <1>4, <1>7, <1>13, <1>14, <2>1 DEF FiberOK, TimerOK, NoValue
<1>16. BackendOK(b2, [fs EXCEPT ![f] = t])
  BY <1>9, <1>15, Leave DEF TookUp
<1>17. QED
  BY <1>2, <1>9, <1>16, BackendAssumption DEF UInv

LEMMA ChainRequestsFit ==
  /\ ChainRequests \in Seq(Requests) /\ ChainRequests # <<>> /\ Len(ChainRequests) = 2
  /\ \A i \in DOMAIN ChainRequests : ChainRequests[i].kind # "MULTISHOT_ACCEPT"
<1>1. BufLen \in Lengths /\ "WRITE" \in Kinds /\ "SPLICE" \in Kinds
  BY BackendAssumption DEF Lengths, Kinds
<1>2. /\ Request("WRITE", BufLen) \in Requests /\ Request("SPLICE", BufLen) \in Requests
      /\ Request("WRITE", BufLen).kind = "WRITE" /\ Request("SPLICE", BufLen).kind = "SPLICE"
  BY <1>1, RequestType
<1>3. QED
  BY <1>2 DEF ChainRequests

LEMMA ChainAction ==
  ASSUME UInv, NEW f \in Fibers, Backend_chain(f)
  PROVE  UInv'
<1> DEFINE c == fs[f].ctx
           b0 == Unscheduled(f)
           b == context_store_release(b0, c)
           ba == context_attach_buffers(b, c)
           b1 == CancelNow(ba, c)
<1>1. /\ Resumes(f, "chain") /\ "chain" \in ChainOps
      /\ \/ LastReference(bk.ctx[c]) /\ Return(f, b)
         \/ ~LastReference(bk.ctx[c]) /\ (Raise(f, b1) \/ Return(f, b1))
  BY DEF Backend_chain, ChainOps
<1>2. Back(b0, f) /\ OneContext(f, c)
  BY <1>1, ResumedOne
<1>3. c \in Contexts /\ Wf(b0) /\ Dooms(b0) /\ SqOK(b0) /\ b0.ctx = bk.ctx
  BY <1>2 DEF OneContext, Back, Mid, Between, Good, SameUring, SameContexts
<1>4. Counted1(b0.ctx[c]) /\ b0.ctx[c].type = "CHAIN"
  BY <1>1, <1>2, <1>3, InvParts
     DEF OneContext, Waits, Mine, Counted1, Resumes, FiberOK, AwaitOK
<1>5. GaveUp(b0, b, c) /\ SameSq(b0, b) /\ SameChain(b0, b, c)
  BY <1>3, <1>4, ReleasedGaveUp
<1>6. LastReference(bk.ctx[c]) => BuffersKept(b0, b, c)
  BY <1>3, <1>4 DEF BuffersKept, LastReference, Counted1
<1>7. Wf(b)
  BY <1>5 DEF GaveUp, Touches
<1> HIDE DEF b0, b
<1>8. Marked(b, ba, c) /\ ba.ctx[c].buffers # "none"
  BY <1>3, <1>7, AttachedMarked
<1>9. Wf(ba)
  BY <1>8 DEF Marked, Touches
<1> HIDE DEF ba
<1>10. Marked(ba, b1, c) /\ SqOK(b1) /\ Dooms(b1)
  BY <1>3, <1>9, CancelledMarked
<1> HIDE DEF b1
<1>11. GaveUp(b0, b1, c)
  BY <1>5, <1>8, <1>10, MarkedTwice, GaveUpMarked
<1>12. Ready(b1, f)
  <2>1. BuffersKept(b0, b1, c)
    BY <1>8, <1>10 DEF BuffersKept, Marked
  <2>2. QED
    BY <1>2, <2>1, <1>10, <1>11, Releasing
<1>13. LastReference(bk.ctx[c]) => Ready(b, f)
  <2>1. Dooms(b) /\ SqOK(b)
    BY <1>3, <1>4, <1>5, SameChainDooms, SameSqOK DEF GaveUp, Counted1
  <2>2. QED
    BY <1>2, <1>5, <1>6, <2>1, Releasing
<1>14. QED
  BY <1>1, <1>12, <1>13, ReturnStep

\* A running fiber makes a call that leaves it without the context it took.
LEMMA DropStep ==
  ASSUME UInv, NEW f \in Fibers, cur = f, CanAcquire(bk, 1), NEW c, c = Acquired(bk),
         NEW b2, Touches(bk, b2, c), b2.event = bk.event, Settles(b2, c, 0), Dooms(b2), SqOK(b2),
         NEW t \in FiberStates, t.ctx = NoCtx, t.aux = NoCtx, t.timer = fs[f].timer,
         t.pc # "await", bk' = b2, cur' = cur, fs' = [fs EXCEPT ![f] = t]
  PROVE  UInv'
<1>1. /\ Ready(bk, f) /\ fs[f] \in FiberStates /\ fs[f].pc # "await" /\ FiberOK(bk, f, fs[f])
      /\ bk.sched[f] = NoValue /\ TimerOK(bk, f, fs[f])
  BY RunningReady DEF Ready
<1>2. /\ Wf(bk) /\ Mid(bk, fs, f, fs[f]) /\ fs \in [Fibers -> FiberStates] /\ EventOK(bk)
      /\ Between(bk, fs, f, Held(Counting(fs, f, fs[f]), bk.event))
  BY InvParts, Enter DEF Mid
<1>3. c \in Contexts /\ bk.ctx[c].ref = 0 /\ c # fs[f].timer
  BY <1>1, <1>2, AcquiredFree
<1>4. Private(fs, f, c) /\ c # bk.event
  BY <1>2, <1>3, PrivateContexts, NoCtxContext DEF EventOK
<1>5. \A d \in Contexts : /\ Uses(fs[f], d, bk.event) = One(fs[f].timer = d)
                          /\ Uses(t, d, bk.event) = One(fs[f].timer = d)
  BY <1>1, RestUses
<1>6. OnlyUses(fs[f], t, c, bk.event)
  BY <1>5 DEF OnlyUses
<1>7. Settles(b2, c, Uses(t, c, bk.event))
  BY <1>3, <1>5 DEF One
<1>8. Mid(b2, fs, f, t)
  BY <1>2, <1>3, <1>4, <1>6, <1>7, MidTouchedMine
<1>9. TimerOK(b2, f, fs[f])
  BY <1>1, <1>2, <1>3, TimerTouched
<1>10. b2.sched[f] = NoValue
  BY <1>1 DEF Touches, OthersKept, SameRest
<1>11. t.timer # NoCtx => t.timer \notin {t.ctx, t.aux}
  OBVIOUS
<1>12. FiberOK(b2, f, t)
  BY <1>9, <1>10, <1>11 DEF FiberOK, TimerOK, NoValue
<1>13. BackendOK(b2, [fs EXCEPT ![f] = t])
  BY <1>8, <1>12, Leave
<1>14. fs'[f].pc # "await" /\ bk'.sched[f] = NoValue
  BY <1>2, <1>10
<1>15. QED
  BY <1>13, <1>14 DEF UInv

LEMMA NothingTaken ==
  ASSUME NEW b, Wf(b), Reusable(b), Dooms(b), NEW n, NEW c \in Contexts, b.ctx[c].ref = 0,
         ContextOK(b, c, n), NEW b2, Touches(b, b2, c), b2.ctx[c] = Freed, SameChain(b, b2, c)
  PROVE  Settles(b2, c, 0) /\ Dooms(b2)
<1>1. ReqsOf(b2, c) = <<>> /\ Answers(b, c) = {}
  BY DEF Reusable, SameChain, ContextOK, FreeOK
<1>2. Answers(b2, c) = {}
  BY <1>1 DEF Touches, OthersKept, SameRest, Answers
<1>3. Freed.ref = 0 /\ Freed.type = "NONE" /\ Freed.resume = "nil"
  BY DEF Freed, NewContext
<1>4. KeptOK(b2, c, 0)
  <2>1. \A i \in DOMAIN ReqsOf(b2, c) : FALSE
    BY <1>1
  <2>2. QED
    BY <1>1, <2>1 DEF KeptOK
<1>5. 0 # MULTISHOT_REFCOUNT
  BY NotMultishot
<1>6. ContextOK(b2, c, 0)
  BY <1>1, <1>2, <1>3, <1>4, <1>5 DEF ContextOK, FreeOK
<1>7. Dooms(b2)
  BY <1>5, SameChainDooms
<1>8. QED
  BY <1>6, <1>7 DEF Settles

\* Issued to nobody: the chain that was given up before it was submitted.
LEMMA Orphaned ==
  ASSUME NEW b, Wf(b), NEW n, NEW c, NEW x, NEW reqs \in Seq(Requests), NEW b2,
         IssuedAs(b, b2, c, x, reqs), ContextOK(b, c, n), x.type = "CHAIN", x.resume = "nil",
         x.fiber \in Fibers, Len(reqs) = 2, x.ref = 2, x.buffers # "none",
         \A i \in DOMAIN reqs : reqs[i].kind # "MULTISHOT_ACCEPT"
  PROVE  Settles(b2, c, 0)
<1>1. /\ b \in Backends /\ b2 \in Backends /\ OneChain(b) /\ OneChain(b2) /\ c \in Contexts
      /\ b.ctx[c].ref = 0 /\ b2.ctx[c] = x /\ ReqsOf(b2, c) = reqs
  BY DEF IssuedAs, Touches, Wf
<1>2. Answers(b2, c) = {}
  <2>1. Answers(b2, c) = Answers(b, c)
    BY DEF IssuedAs, Touches, OthersKept, SameRest, Answers
  <2>2. QED
    BY <1>1, <2>1 DEF ContextOK, FreeOK
<1>3. Out(b2, c) = 2
  <2>1. Done(b2, c) = 0
    BY <1>2, FS_EmptySet DEF Done
  <2>2. Len(ReqsOf(b2, c)) = 2
    BY <1>1
  <2>3. QED
    BY <2>1, <2>2 DEF Out
<1>4. 2 # MULTISHOT_REFCOUNT
  BY NotMultishot
<1>5. CountOK(b2, c, 0)
  BY <1>1, <1>2, <1>3 DEF CountOK
<1>6. KeptOK(b2, c, 0)
  BY <1>1 DEF KeptOK, BufferKinds
<1>7. ContextOK(b2, c, 0)
  BY <1>1, <1>4, <1>5, <1>6 DEF ContextOK
<1>8. QED
  BY <1>7 DEF Settles

LEMMA RejectedState ==
  ASSUME NEW f \in Fibers, fs[f] \in FiberStates, fs[f].ctx = NoCtx, fs[f].aux = NoCtx,
         NEW o \in OpNames, NEW p \in {"app", "raise"}, NEW t, t = Rest(Entered(f, o), p)
  PROVE  /\ t \in FiberStates /\ t.ctx = NoCtx /\ t.aux = NoCtx /\ t.timer = fs[f].timer
         /\ t.pc # "await"
<1>1. Entered(f, o) \in FiberStates /\ Entered(f, o).timer = fs[f].timer
  BY EnteredFields
<1>2. AtRest(Rest(Entered(f, o), p), Entered(f, o), p)
  BY <1>1, RestFields
<1>3. QED
  BY <1>1, <1>2 DEF AtRest

LEMMA ChainRejectedAction ==
  ASSUME UInv, NEW f \in Fibers, Running(f, "chain_invalid"), CanAcquire(bk, 1), ChainRejected(f)
  PROVE  UInv'
<1> DEFINE c == Acquired(bk)
           b == context_store_acquire(bk, "CHAIN", f)
           bp == AcquiredAndPrepared(bk, "CHAIN", f, ChainRequests)
           y1 == [NewContext("CHAIN", f) EXCEPT !.ref = 1]
           b1 == [b EXCEPT !.ctx[c].ref = 1]
           y2 == [[NewContext("CHAIN", f) EXCEPT !.ref = 2, !.buffers = "rejected"]
                    EXCEPT !.result = ECANCELED]
           bo == OpenAndCancelled(b, c, ChainRequests, 2)
<1>1. cur = f /\ "chain_invalid" \in OpNames /\ "CHAIN" \in Types
  BY DEF Running, OpNames, Types, Kinds
<1>2. /\ fs[f] \in FiberStates /\ fs[f].ctx = NoCtx /\ fs[f].aux = NoCtx /\ Ready(bk, f)
  BY <1>1, RunningReady
<1>3. PICK t : /\ t \in FiberStates /\ t.ctx = NoCtx /\ t.aux = NoCtx /\ t.timer = fs[f].timer
               /\ t.pc # "await" /\ fs' = [fs EXCEPT ![f] = t] /\ cur' = cur
  <2>1. PICK p \in {"app", "raise"} :
          fs' = [fs EXCEPT ![f] = Rest(Entered(f, "chain_invalid"), p)] /\ cur' = cur
    BY DEF ChainRejected, Rest
  <2>2. QED
    BY <1>1, <1>2, <2>1, RejectedState
<1>4. Wf(bk) /\ Dooms(bk) /\ Reusable(bk) /\ SqOK(bk) /\ \E n : ContextOK(bk, c, n)
  <2>1. Mid(bk, fs, f, Left(fs[f])) /\ Dooms(bk)
    BY <1>2 DEF Ready
  <2>2. Wf(bk) /\ Reusable(bk)
    BY <2>1, MidReusable
  <2>3. c \in Contexts
    BY <1>2, <2>2, AcquiredFree DEF Ready
  <2>4. QED
    BY <1>2, <2>1, <2>2, <2>3 DEF Ready, Mid, Between, Good
<1>5. PICK n : ContextOK(bk, c, n)
  BY <1>4
<1>6. /\ c \in Contexts /\ bk.ctx[c].ref = 0 /\ Wf(b) /\ OthersKept(bk, b, c)
      /\ b.event = bk.event /\ b.sq = bk.sq /\ b.pending = bk.pending
      /\ (\A d \in Contexts : SameChain(bk, b, d)) /\ b.ctx[c] = NewContext("CHAIN", f)
  BY <1>1, <1>4, AcquiredContext
<1>7. \/ bk' = context_store_release(b1, c)
      \/ bk' = io_uring_backend_immediate_submit(bo)
  <2>1. Len(ChainRequests) = 2
    BY ChainRequestsFit
  <2>2. QED
    BY <2>1 DEF ChainRejected, OpenAndCancelled, CancelNow
<1>8. NewContext("CHAIN", f) \in ContextRecords /\ 1 \in Nat /\ 2 \in Nat
  BY <1>1, NewContextType
<1>9. CASE bk' = context_store_release(b1, c)
  <2>1. y1 \in ContextRecords /\ y1.ref = 1
    BY <1>8, Recounted
  <2>2. IsPut(b, b1, c, y1) /\ FreeAlike(b.ctx[c], y1)
    <3>1. b1 = [b EXCEPT !.ctx[c] = [b.ctx[c] EXCEPT !.ref = 1]]
      OBVIOUS
    <3>2. b.ctx[c].ref = 2
      BY <1>6 DEF NewContext
    <3> HIDE DEF b
    <3>3. QED
      BY <1>6, <2>1, <3>1, <3>2 DEF IsPut, FreeAlike
  <2> HIDE DEF b, b1, y1, c
  <2>3. PutKeeps(b, b1, c, y1)
    BY <1>6, <2>1, <2>2, WithRecord
  <2>4. Wf(b1) /\ b1.ctx[c].ref = 1 /\ LastReference(b1.ctx[c]) /\ b1.ctx[c].ref # 0
    BY <2>1, <2>3 DEF PutKeeps, LastReference
  <2>5. /\ Wf(bk') /\ OthersKept(b1, bk', c) /\ bk'.event = b1.event
        /\ bk'.sq = b1.sq /\ bk'.pending = b1.pending
        /\ (\A d \in Contexts : SameChain(b1, bk', d)) /\ bk'.ctx[c] = Freed
    BY <1>6, <1>9, <2>4, Released
  <2>6. Touches(bk, bk', c) /\ SameChain(bk, bk', c) /\ SameSq(bk, bk') /\ bk'.event = bk.event
    BY <1>6, <2>3, <2>5 DEF PutKeeps, Touches, OthersKept, SameRest, SameChain, SameAsked, SameSq
  <2>7. Settles(bk', c, 0) /\ Dooms(bk')
    BY <1>4, <1>5, <1>6, <2>5, <2>6, NothingTaken
  <2>8. SqOK(bk')
    BY <1>4, <2>6, SameSqOK
  <2>9. c = Acquired(bk)
    BY DEF c
  <2>10. QED
    BY <1>1, <1>3, <2>6, <2>7, <2>8, <2>9, DropStep
<1>10. CASE bk' = io_uring_backend_immediate_submit(bo)
  <2>1. /\ y2 \in ContextRecords /\ y2.ref = 2 /\ y2.type = "CHAIN" /\ y2.fiber = f
        /\ y2.resume = "nil" /\ y2.buffers # "none"
    <3>1. ECANCELED \in Outcomes /\ "rejected" \in Attachments
      BY BackendAssumption DEF Outcomes, ECANCELED, Attachments
    <3>2. QED
      BY <1>8, <3>1 DEF NewContext, ContextRecords
  <2>2. ChainRequests \in Seq(Requests) /\ ChainRequests # <<>> /\ Len(ChainRequests) = 2
        /\ \A i \in DOMAIN ChainRequests : ChainRequests[i].kind # "MULTISHOT_ACCEPT"
    BY ChainRequestsFit
  <2>3. IsPut(bp, bo, c, y2)
    <3>1. bp = prep(b, c, ChainRequests, FALSE)
      BY DEF AcquiredAndPrepared
    <3>2. Recast(b.ctx[c], 2, y2)
      BY <1>6 DEF Recast
    <3> HIDE DEF b, c, bp, y2
    <3>3. IsPut(prep(b, c, ChainRequests, FALSE), OpenAndCancelled(b, c, ChainRequests, 2), c, y2)
      <4>1. ChainRequests \in Seq(Requests) /\ c \in Contexts /\ Wf(b)
        BY <1>6, <2>2
      <4>2. QED
        BY <3>2, <4>1, OpenThenCancel
    <3>4. QED
      BY <3>1, <3>3, Zenon
  <2>4. IssuedAs(bk, bp, c, NewContext("CHAIN", f), ChainRequests)
    BY <1>1, <1>4, <2>2, IssuedLater
  <2> HIDE DEF b, c, bp, y2, bo
  <2>5. NewContext("CHAIN", f).ref # 0
    BY DEF NewContext
  <2>6. IssuedAs(bk, bo, c, y2, ChainRequests)
    BY <2>1, <2>3, <2>4, <2>5, IssuedPut
  <2>7. Wf(bo) /\ Settles(bo, c, 0)
    BY <1>4, <1>5, <2>1, <2>2, <2>6, Orphaned DEF IssuedAs, Touches
  <2>8. Touches(bo, bk', c) /\ SameContexts(bo, bk') /\ SameChain(bo, bk', c) /\ SqOK(bk') /\ bk'.sq = <<>>
    BY <1>6, <1>10, <2>7, FlushTouchesNone
  <2>9. Touches(bk, bk', c) /\ bk'.event = bk.event
    BY <2>6, <2>8, TouchesTwice DEF IssuedAs, SameContexts
  <2>10. Settles(bk', c, 0)
    <3>1. Untouched(bo, bk', c)
      <4>1. bo.cq \in Seq(Completions) /\ bk'.cq = bo.cq
        BY <2>7, <2>8, BackendFields DEF Wf, Touches, OthersKept, SameRest
      <4>2. Moved(bo, bk', c, 0)
        BY <4>1, MovedNone
      <4>3. QED
        BY <2>8, <4>2 DEF Untouched, SameContexts
    <3>2. ContextOK(bk', c, 0)
      BY <2>7, <2>8, <3>1, UntouchedContext DEF Settles, Wf, Touches
    <3>3. QED
      BY <3>2 DEF Settles
  <2>11. Dooms(bk')
    BY <2>8, FlushedDooms DEF Touches
  <2>12. c = Acquired(bk)
    BY DEF c
  <2>13. QED
    BY <1>1, <1>3, <2>8, <2>9, <2>10, <2>11, <2>12, DropStep
<1>11. QED
  BY <1>7, <1>9, <1>10

LEMMA ChunkKinds ==
  ASSUME NEW s, s.op = "splice_chunks", NEW n \in Lengths
  PROVE  /\ ChainFits(s, "SPLICE", <<Request("CHUNK", 1)>>)
         /\ ChainFits(s, "SPLICE", ChunkRequests(s, n))
         /\ ChainFits(s, "SPLICE", <<Request("CHUNK", 1)>> \o <<Request("SPLICE", BufLen)>>)
         /\ ChainFits(s, "SPLICE", <<>> \o <<Request("SPLICE", BufLen)>>)
<1> DEFINE u == Request("CHUNK", 1)
           v == Request("SPLICE", n)
           w == Request("SPLICE", BufLen)
<1>1. 1 \in Lengths /\ BufLen \in Lengths /\ "CHUNK" \in Kinds /\ "SPLICE" \in Kinds
  BY BackendAssumption DEF Lengths, Kinds
<1>2. u \in Requests /\ v \in Requests /\ w \in Requests
  BY <1>1, RequestType
<1>3. u.kind = "CHUNK" /\ v.kind = "SPLICE" /\ w.kind = "SPLICE"
  BY <1>1, RequestType
<1>4. \A k \in {"CHUNK", "SPLICE"} : k # "MULTISHOT_ACCEPT" /\ k \notin BufferKinds
  BY DEF BufferKinds
<1> HIDE DEF u, v, w
<1>5. <<u>> \o <<w>> = <<u, w>> /\ <<>> \o <<w>> = <<w>>
  <2>1. <<u>> \in Seq(Requests) /\ <<w>> \in Seq(Requests)
    BY <1>2
  <2>2. <<u>> \o <<w>> = <<u, w>>
    <3> DEFINE p == <<u>>
               q == <<w>>
    <3>1. /\ p \o q \in Seq(Requests) /\ Len(p \o q) = Len(p) + Len(q)
          /\ \A i \in 1 .. Len(p) + Len(q) :
                (p \o q)[i] = IF i <= Len(p) THEN p[i] ELSE q[i - Len(p)]
      BY <2>1, ConcatProperties
    <3>2. Len(p) = 1 /\ Len(q) = 1 /\ p[1] = u /\ q[1] = w
      OBVIOUS
    <3> HIDE DEF p, q
    <3>3. Len(p \o q) = 2 /\ (p \o q)[1] = u /\ (p \o q)[2] = w
      BY <3>1, <3>2
    <3>4. <<u, w>> \in Seq(Requests) /\ Len(<<u, w>>) = 2
      BY <1>2
    <3>5. \A i \in 1 .. Len(p \o q) : (p \o q)[i] = <<u, w>>[i]
      BY <3>3
    <3>6. p \o q = <<u, w>>
      BY <3>1, <3>3, <3>4, <3>5, SeqEqual
    <3>7. QED
      BY <3>6 DEF p, q
  <2>3. <<>> \o <<w>> = <<w>>
    BY <2>1, ConcatEmptySeq
  <2>4. QED
    BY <2>2, <2>3
<1>6. ChainFits(s, "SPLICE", <<u>>) /\ ChainFits(s, "SPLICE", <<w>>)
  BY <1>2, <1>3, <1>4 DEF ChainFits
<1>7. ChainFits(s, "SPLICE", <<u, w>>) /\ ChainFits(s, "SPLICE", <<v, w>>)
  <2>1. \A z \in {u, v} : ChainFits(s, "SPLICE", <<z, w>>)
    <3>1. SUFFICES ASSUME NEW z \in {u, v} PROVE ChainFits(s, "SPLICE", <<z, w>>)
      OBVIOUS
    <3> DEFINE q == <<z, w>>
    <3>2. q \in Seq(Requests) /\ Len(q) = 2 /\ q # <<>> /\ DOMAIN q = 1..2
      BY <1>2
    <3>3. \A i \in 1..2 : q[i] \in {u, v, w}
      OBVIOUS
    <3> HIDE DEF q
    <3>4. \A i \in DOMAIN q : q[i].kind # "MULTISHOT_ACCEPT" /\ q[i].kind \notin BufferKinds
      BY <1>3, <1>4, <3>2, <3>3
    <3>5. Len(q) \in 1..4
      BY <3>2
    <3>6. ChainFits(s, "SPLICE", q)
      BY <3>2, <3>4, <3>5 DEF ChainFits
    <3>7. QED
      BY <3>6 DEF q
  <2>2. QED
    BY <2>1
<1>8. ChainFits(s, "SPLICE", <<u, v, u, w>>)
  <2> DEFINE q == <<u, v, u, w>>
  <2>1. q \in Seq(Requests) /\ Len(q) = 4 /\ q # <<>> /\ DOMAIN q = 1..4
    BY <1>2
  <2>2. \A i \in 1..4 : q[i] \in {u, v, w}
    OBVIOUS
  <2> HIDE DEF q
  <2>3. \A i \in DOMAIN q : q[i].kind # "MULTISHOT_ACCEPT" /\ q[i].kind \notin BufferKinds
    BY <1>3, <1>4, <2>1, <2>2
  <2>4. Len(q) \in 1..4
    BY <2>1
  <2>5. ChainFits(s, "SPLICE", q)
    BY <2>1, <2>3, <2>4 DEF ChainFits
  <2>6. QED
    BY <2>5 DEF q
<1>9. ChainFits(s, "SPLICE", ChunkRequests(s, n))
  BY <1>7, <1>8 DEF ChunkRequests, u, v, w
<1>10. QED
  BY <1>5, <1>6, <1>7, <1>9 DEF u, w

LEMMA StartChainAction ==
  ASSUME UInv, NEW f \in Fibers, StartChain(f) \/ StartSpliceChunks(f)
  PROVE  UInv'
<1>1. CASE /\ Running(f, "chain") /\ CanAcquire(bk, 1)
           /\ Await(f, IssueChain(bk, f, "CHAIN", ChainRequests),
                    [Entered(f, "chain") EXCEPT !.ctx = Acquired(bk)])
  <2>1. Ready(bk, f) /\ fs[f] \in FiberStates /\ fs[f].aux = NoCtx /\ "chain" \in OpNames
    BY <1>1, RunningReady DEF Running, OpNames
  <2> DEFINE s == Entered(f, "chain")
  <2>2. s \in FiberStates /\ s.op = "chain" /\ s.aux = NoCtx /\ s.timer = fs[f].timer
    BY <2>1, EnteredFields
  <2> HIDE DEF s
  <2>3. Len(ChainRequests) \in 1..4 /\ "CHAIN" # "SPLICE"
    <3>1. 2 \in 1..4
      OBVIOUS
    <3>2. QED
      BY <3>1, ChainRequestsFit, Zenon
  <2>4. ChainFits(s, "CHAIN", ChainRequests)
    <3>1. s.op = "chain" /\ "CHAIN" = "CHAIN"
      BY <2>2
    <3>2. QED
      BY <2>3, <3>1, ChainRequestsFit, Zenon DEF ChainFits
  <2>5. QED
    BY <1>1, <2>1, <2>2, <2>4, ChainAwaitStep DEF s
<1>2. CASE Running(f, "chain_invalid") /\ CanAcquire(bk, 1) /\ ChainRejected(f)
  BY <1>2, ChainRejectedAction
<1>3. CASE StartSpliceChunks(f)
  <2>1. PICK strings \in ChunkStrings :
          /\ Running(f, "splice_chunks")
          /\ ChunksBegin(f, bk, [Entered(f, "splice_chunks") EXCEPT !.left = strings],
                (IF strings = 0 THEN <<>> ELSE <<Request("CHUNK", 1)>>)
                    \o <<Request("SPLICE", BufLen)>>)
    BY <1>3 DEF StartSpliceChunks
  <2>2. Ready(bk, f) /\ fs[f] \in FiberStates /\ fs[f].aux = NoCtx /\ "splice_chunks" \in OpNames
    BY <2>1, RunningReady DEF Running, OpNames
  <2> DEFINE s == [Entered(f, "splice_chunks") EXCEPT !.left = strings]
             reqs == (IF strings = 0 THEN <<>> ELSE <<Request("CHUNK", 1)>>)
                         \o <<Request("SPLICE", BufLen)>>
  <2>3. strings \in Int
    BY OpsAssumption
  <2>4. s \in FiberStates /\ s.op = "splice_chunks" /\ s.aux = NoCtx /\ s.timer = fs[f].timer
    <3>1. /\ Entered(f, "splice_chunks") \in FiberStates
          /\ Entered(f, "splice_chunks").op = "splice_chunks"
          /\ Entered(f, "splice_chunks").aux = NoCtx
          /\ Entered(f, "splice_chunks").timer = fs[f].timer
      BY <2>2, EnteredFields
    <3>2. QED
      BY <2>3, <3>1 DEF FiberStates
  <2>5. /\ CanAcquire(bk, 1)
        /\ Await(f, IssueChain(bk, f, "SPLICE", reqs), [s EXCEPT !.ctx = Acquired(bk)])
    BY <2>1 DEF ChunksBegin
  <2> HIDE DEF s
  <2>6. ChainFits(s, "SPLICE", reqs)
    <3>1. BufLen \in Lengths
      BY BackendAssumption DEF Lengths
    <3>2. CASE strings = 0
      BY <2>4, <3>1, <3>2, ChunkKinds
    <3>3. CASE strings # 0
      BY <2>4, <3>1, <3>3, ChunkKinds
    <3>4. QED
      BY <3>2, <3>3
  <2> HIDE DEF reqs
  <2>7. QED
    BY <2>2, <2>4, <2>5, <2>6, ChainAwaitStep
<1>4. QED
  BY <1>1, <1>2, <1>3 DEF StartChain

LEMMA SpliceChunksAction ==
  ASSUME UInv, NEW f \in Fibers, Backend_splice_chunks(f)
  PROVE  UInv'
<1> DEFINE s == fs[f]
           c == fs[f].ctx
           a == After(f)
           bc == CancelNow(a.b, c)
           b == IF a.completed THEN a.b ELSE bc
           s1 == [s EXCEPT !.total = 1]
           n == IF a.result > 0 THEN a.result ELSE BufLen
<1>1. /\ Resumes(f, "splice_chunks") /\ "splice_chunks" \in ChainOps
      /\ \/ ~a.completed /\ Raise(f, context_attach_buffers(bc, c))
         \/ Return(f, b)
         \/ ChunksBegin(f, b, s1, <<Request("CHUNK", 1)>>)
         \/ ChunksBegin(f, b, s, ChunkRequests(s, n))
  BY DEF Backend_splice_chunks, ChainOps
<1>2. Back(Unscheduled(f), f) /\ OneContext(f, c) /\ s \in FiberStates /\ s.op = "splice_chunks"
  BY <1>1, ResumedOne
<1>3. /\ AfterDone(f, a, c) /\ c \in Contexts
      /\ ~a.completed => /\ GaveUp(Unscheduled(f), a.b, c) /\ Dooms(a.b) /\ SqOK(a.b) /\ Wf(a.b)
  BY <1>2, AfterStep DEF OneContext
<1>4. Unscheduled(f).ctx[c].type = "SPLICE"
  <2>1. bk.ctx[c].type = "SPLICE"
    BY <1>1, <1>2, InvParts DEF Resumes, FiberOK, AwaitOK
  <2>2. QED
    BY <1>2, <2>1 DEF Back, SameUring, SameContexts
<1>5. \A z : BuffersKept(Unscheduled(f), z, c)
  BY <1>4 DEF BuffersKept, BufferKinds
<1> HIDE DEF a
<1>6. ASSUME ~a.completed
      PROVE  Ready(bc, f) /\ Ready(context_attach_buffers(bc, c), f)
  <2> DEFINE ba == context_attach_buffers(bc, c)
  <2>1. Marked(a.b, bc, c) /\ SqOK(bc) /\ Dooms(bc)
    BY <1>3, <1>6, CancelledMarked
  <2>2. Wf(bc)
    BY <2>1 DEF Marked, Touches
  <2> HIDE DEF bc
  <2>3. Marked(bc, ba, c) /\ SameSq(bc, ba) /\ SameChain(bc, ba, c)
    BY <1>3, <2>2, AttachedMarked
  <2> HIDE DEF ba
  <2>4. Dooms(ba) /\ SqOK(ba)
    BY <1>3, <2>1, <2>2, <2>3, SameChainDooms, SameSqOK DEF Marked
  <2>5. GaveUp(Unscheduled(f), bc, c) /\ GaveUp(Unscheduled(f), ba, c)
    BY <1>3, <1>6, <2>1, <2>3, GaveUpMarked
  <2>6. Ready(bc, f)
    BY <1>2, <1>5, <2>1, <2>5, Releasing
  <2>7. Ready(ba, f)
    BY <1>2, <1>5, <2>4, <2>5, Releasing
  <2>8. QED
    BY <2>6, <2>7 DEF ba
<1>7. Ready(b, f)
  BY <1>3, <1>6 DEF AfterDone
<1>8. /\ s1 \in FiberStates /\ s1.op = "splice_chunks" /\ s1.timer = s.timer /\ s1.aux = s.aux
      /\ s.aux = NoCtx
  BY <1>2 DEF FiberStates, OneContext
<1>9. n \in Lengths
  BY <1>3, BackendAssumption DEF AfterDone, Outcomes, Lengths, ECANCELED
<1> HIDE DEF b, s1, n, bc
<1>10. ChainFits(s1, "SPLICE", <<Request("CHUNK", 1)>>) /\ ChainFits(s, "SPLICE", ChunkRequests(s, n))
  BY <1>2, <1>8, <1>9, ChunkKinds
<1>11. CASE ~a.completed /\ Raise(f, context_attach_buffers(bc, c))
  BY <1>6, <1>11, ReturnStep
<1>12. CASE Return(f, b)
  BY <1>7, <1>12, ReturnStep
<1>13. CASE ChunksBegin(f, b, s1, <<Request("CHUNK", 1)>>)
  BY <1>7, <1>8, <1>10, <1>13, ChainAwaitStep DEF ChunksBegin
<1>14. CASE ChunksBegin(f, b, s, ChunkRequests(s, n))
  BY <1>2, <1>7, <1>8, <1>10, <1>14, ChainAwaitStep DEF ChunksBegin
<1>15. QED
  BY <1>1, <1>11, <1>12, <1>13, <1>14

----------------------------------------------------------------------------
(* Double splicing *)

\* A fiber at rest, or one that holds x and y, with the timer m.
PipeState(t, x, y, m) ==
    /\ t \in FiberStates /\ t.timer = m
    /\ \/ t.pc = "await" /\ t.op \notin EventOps /\ t.ctx = x /\ t.aux = y
       \/ t.pc # "await" /\ x = NoCtx /\ y = NoCtx

LEMMA PipeUses ==
  ASSUME NEW t, NEW x, NEW y, NEW m, PipeState(t, x, y, m), NEW d \in Contexts, NEW e
  PROVE  Uses(t, d, e) = One(d \in {x, y}) + One(m = d)
<1>1. d # NoCtx
  BY NoCtxContext
<1>2. CASE t.pc # "await"
  BY <1>1, <1>2 DEF PipeState, Uses, One, IsWaiter
<1>3. CASE t.pc = "await"
  BY <1>1, <1>3 DEF PipeState, Uses, One, IsWaiter
<1>4. QED
  BY <1>2, <1>3

LEMMA PipeChange ==
  ASSUME NEW s, NEW t, NEW x, NEW y, NEW x2, NEW y2, NEW m, NEW c \in Contexts, c # m, NEW e,
         PipeState(s, x, y, m), PipeState(t, x2, y2, m),
         OnlyThat(c, x, y, x2, y2)
  PROVE  /\ (c = x \/ c = y) /\ c # x2 /\ c # y2 => LetsGo(s, t, c, e)
         /\ c = x2 \/ c = y2 => TakesUp(s, t, c, e)
<1>1. t \in FiberStates
  BY DEF PipeState
<1>2. \A d \in Contexts : d # c => Uses(s, d, e) = Uses(t, d, e)
  BY PipeUses DEF One, OnlyThat
<1>3. /\ Uses(s, c, e) = One(c \in {x, y}) + One(m = c)
      /\ Uses(t, c, e) = One(c \in {x2, y2}) + One(m = c)
  BY PipeUses
<1>4. One(m = c) = 0
  BY DEF One
<1>5. c \in {x, y} => Uses(s, c, e) = 1
  BY <1>3, <1>4 DEF One
<1>6. c \in {x2, y2} => Uses(t, c, e) = 1
  BY <1>3, <1>4 DEF One
<1>7. c \notin {x2, y2} => Uses(t, c, e) = 0
  BY <1>3, <1>4 DEF One
<1>8. QED
  BY <1>1, <1>2, <1>5, <1>6, <1>7 DEF LetsGo, TakesUp, OnlyUses

\* A double splice between two of its calls: the timer, and what is counted.
Piping(b, f, t) ==
    /\ Mid(b, fs, f, t) /\ Dooms(b) /\ b.sched[f] = NoValue /\ TimerOK(b, f, fs[f])
    /\ b.sq # <<>> => b.pending > 0

\* What is known when a request of the double splice is prepared.
PipeOpened(b, b2, f, t, c, k) ==
    /\ Piping(b2, f, t) /\ Going(b2, f, c) /\ c # b.event
    /\ Touches(b, b2, c) /\ b2.event = b.event /\ b.ctx[c].ref = 0
    /\ k = "DRAIN" => \A o \in BOOLEAN : Drains(b2, c, o)
    /\ CanAcquire(b, 2) => CanAcquire(b2, 1)

LEMMA PipeOpen ==
  ASSUME NEW f \in Fibers, NEW b, NEW s, Piping(b, f, s), CanAcquire(b, 1),
         NEW k \in {"SPLICE", "DRAIN"}, NEW c, c = Acquired(b), NEW b2,
         b2 = prepare_double_splice_ctx(b, f, k), NEW t, TakesUp(s, t, c, b.event)
  PROVE  PipeOpened(b, b2, f, t, c, k)
<1> DEFINE reqs == PipeRequest(k)
           b1 == AcquiredAndPrepared(b, "SPLICE", f, reqs)
           x == NewContext("SPLICE", f)
           n == b1.pending + 1
<1>1. /\ reqs \in Seq(Requests) /\ reqs # <<>> /\ Len(reqs) = 1 /\ DOMAIN reqs = {1}
      /\ reqs[1].kind = k
  BY PipeRequestType
<1>2. /\ x \in ContextRecords /\ x.ref = 2 /\ x.type = "SPLICE" /\ x.fiber = f
      /\ x.resume = "nil" /\ x.buffers = "none" /\ x.result = 0
  <2>1. IsPipeContext(x, f)
    BY PipeContext
  <2> HIDE DEF x
  <2>2. QED
    BY <2>1 DEF IsPipeContext
<1>3. Mid(b, fs, f, s) /\ Dooms(b) /\ Reusable(b) /\ Wf(b) /\ b.pending \in Nat
  BY MidReusable, BackendFields DEF Piping, Wf
<1>4. Counted(b1, b2, n)
  BY DEF prepare_double_splice_ctx, AcquiredAndPrepared, Counted, PipeRequest
<1>5. "SPLICE" \in Types
  BY DEF Types, Kinds
<1> HIDE DEF reqs, x
<1>6. /\ IssuedAs(b, b1, c, x, reqs) /\ b1.pending = b.pending
      /\ CanAcquire(b, 2) => CanAcquire(b1, 1)
  BY <1>1, <1>3, <1>5, IssuedLater DEF x
<1> HIDE DEF b1
<1>7. n \in Nat /\ n > 0 /\ Wf(b1)
  BY <1>3, <1>6 DEF IssuedAs, Touches
<1> HIDE DEF n
<1>8. /\ Wf(b2) /\ SameRest(b1, b2) /\ SameContexts(b1, b2) /\ b2.sq = b1.sq
      /\ b2.pending = n /\ \A d \in Contexts : SameChain(b1, b2, d)
  BY <1>4, <1>7, WithPending
<1>9. Touches(b1, b2, c)
  BY <1>8, TouchesNone
<1>10. IssuedAs(b, b2, c, x, reqs)
  BY <1>6, <1>8, <1>9, TouchesTwice DEF IssuedAs, SameContexts, SameChain
<1>11. FreshContext(x, f, reqs)
  BY <1>1, <1>2 DEF FreshContext
<1>12. FreshKinds(x, reqs)
  BY <1>1, <1>2 DEF FreshKinds, BufferKinds
<1>13. TookUp(b, b2, fs, f, t, c, x, reqs)
  BY <1>1, <1>3, <1>10, <1>11, <1>12, TakeUpStep
<1>14. c # fs[f].timer
  BY <1>3, AcquiredFree DEF Piping
<1>15. Piping(b2, f, t)
  <2>1. TimerOK(b2, f, fs[f])
    BY <1>3, <1>10, <1>14, TimerTouched DEF IssuedAs, Piping
  <2>2. b2.sched[f] = NoValue
    BY <1>10 DEF IssuedAs, Touches, OthersKept, SameRest, Piping
  <2>3. QED
    BY <1>7, <1>8, <1>13, <2>1, <2>2 DEF Piping, TookUp
<1>16. Going(b2, f, c)
  <2>1. Out(b2, c) = 1 /\ Answers(b2, c) = {} /\ ~Doomed(b2, c) /\ b2.ctx[c] = x /\ c \in Contexts
    BY <1>1, <1>13 DEF TookUp
  <2>2. Mine(b2, f, c) /\ 2 # MULTISHOT_REFCOUNT
    BY <1>2, <1>13, <2>1, NotMultishot DEF Mine, TookUp
  <2>3. Waits(b2, f, c)
    BY <1>2, <2>1, <2>2 DEF Waits, WillWake
  <2>4. Uncancelled(b2, c)
    BY <1>2, <2>1 DEF Uncancelled, ECANCELED
  <2>5. QED
    BY <1>2, <2>1, <2>3, <2>4 DEF Going, WaitsForOne
<1>17. k = "DRAIN" => \A o \in BOOLEAN : Drains(b2, c, o)
  <2>1. ReqsOf(b2, c) = reqs /\ Out(b2, c) = 1 /\ Answers(b2, c) = {}
    BY <1>1, <1>13 DEF TookUp
  <2>2. QED
    BY <1>1, <2>1 DEF Drains
<1>18. CanAcquire(b, 2) => CanAcquire(b2, 1)
  BY <1>6, <1>8 DEF SameContexts, CanAcquire
<1>19. QED
  BY <1>10, <1>13, <1>15, <1>16, <1>17, <1>18 DEF PipeOpened, IssuedAs, TookUp

\* A context of the double splice that is not closed yet.
PipeEnd(b, f, c) ==
    /\ Mine(b, f, c) /\ b.ctx[c].ref # MULTISHOT_REFCOUNT /\ b.ctx[c].type = "SPLICE"
    /\ c \in Contexts /\ c # fs[f].timer

LEMMA StillGoing ==
  ASSUME NEW b, Wf(b), NEW b2, NEW d \in Contexts, Touches(b, b2, d), b2.event = b.event,
         NEW c \in Contexts, c # d, NEW f
  PROVE  /\ Going(b, f, c) => Going(b2, f, c)
         /\ \A o \in BOOLEAN : Drains(b, c, o) /\ c # b.event => Drains(b2, c, o)
         /\ PipeEnd(b, f, c) => PipeEnd(b2, f, c)
         /\ b2.ctx[c] = b.ctx[c]
<1>1. b \in Backends /\ b2 \in Backends /\ b.cq \in Seq(Completions)
  BY BackendFields DEF Wf, Touches
<1>2. Untouched(b, b2, c)
  BY <1>1, TouchedUntouched
<1>3. b2.sched[f] = b.sched[f]
  BY DEF Touches, OthersKept, SameRest
<1>4. Out(b2, c) = Out(b, c) /\ b2.ctx[c] = b.ctx[c]
  BY <1>1, <1>2, UntouchedOut
<1>5. c # b.event => /\ Mine(b, f, c) => Mine(b2, f, c)
                     /\ WaitsForOne(b, f, c) => WaitsForOne(b2, f, c)
                     /\ \A o \in BOOLEAN : Drains(b, c, o) => Drains(b2, c, o)
  BY <1>1, <1>2, <1>3, UntouchedWaits
<1>6. QED
  BY <1>4, <1>5 DEF Going, PipeEnd, WaitsForOne, Waits, Mine

LEMMA PipeClose ==
  ASSUME NEW f \in Fibers, NEW b, NEW s, Piping(b, f, s), NEW c, PipeEnd(b, f, c),
         NEW t, LetsGo(s, t, c, b.event), NEW b2, b2 = context_store_release(b, c)
  PROVE  /\ Piping(b2, f, t) /\ Touches(b, b2, c) /\ b2.event = b.event /\ SameSq(b, b2)
         /\ b.ctx[c].ref = 1 => b2.ctx[c].ref = 0
<1>1. Mid(b, fs, f, s) /\ Dooms(b) /\ Wf(b) /\ c \in Contexts
  BY MidReusable DEF Piping, PipeEnd
<1>2. Counted1(b.ctx[c])
  BY DEF PipeEnd, Mine, Counted1
<1>3. GaveUp(b, b2, c) /\ SameSq(b, b2) /\ SameChain(b, b2, c)
  BY <1>1, <1>2, ReleasedGaveUp
<1>4. BuffersKept(b, b2, c)
  BY DEF PipeEnd, BuffersKept, BufferKinds
<1>5. Mid(b2, fs, f, t)
  BY <1>1, <1>3, <1>4, GiveUpStep DEF PipeEnd
<1>6. Touches(b, b2, c) /\ b2.event = b.event
  BY <1>3 DEF GaveUp
<1>7. Dooms(b2) /\ TimerOK(b2, f, fs[f])
  BY <1>1, <1>2, <1>3, <1>6, SameChainDooms, TimerTouched DEF PipeEnd, Piping, Counted1
<1>8. b2.sched[f] = NoValue
  BY <1>6 DEF Touches, OthersKept, SameRest, Piping
<1>9. QED
  BY <1>3, <1>5, <1>6, <1>7, <1>8 DEF Piping, SameSq, GaveUp

\* Between the cancellations of the two contexts.
Dropping(b, f, t) ==
    Mid(b, fs, f, t) /\ b.sched[f] = NoValue /\ TimerOK(b, f, fs[f])

LEMMA PipeDrop ==
  ASSUME NEW f \in Fibers, NEW b, NEW s, Dropping(b, f, s), NEW c, PipeEnd(b, f, c),
         NEW t, LetsGo(s, t, c, b.event), NEW b2, b2 = Abandon(b, c)
  PROVE  Dropping(b2, f, t) /\ Touches(b, b2, c) /\ b2.event = b.event
<1> DEFINE b1 == context_store_release(b, c)
<1>1. Mid(b, fs, f, s) /\ Wf(b) /\ c \in Contexts
  BY DEF Dropping, PipeEnd, Mid, Between, Good
<1>2. Counted1(b.ctx[c])
  BY DEF PipeEnd, Mine, Counted1
<1>3. GaveUp(b, b1, c)
  BY <1>1, <1>2, ReleasedGaveUp
<1>4. b2 = io_uring_backend_cancel(b1, c)
  BY <1>1, NoCtxContext DEF Abandon
<1> HIDE DEF b1
<1>5. Wf(b1)
  BY <1>3 DEF GaveUp, Touches
<1>6. /\ Touches(b1, b2, c) /\ b2.event = b1.event /\ ReqsOf(b2, c) = ReqsOf(b1, c)
      /\ SameButResult(b1.ctx[c], b2.ctx[c])
  BY <1>1, <1>4, <1>5, Cancelled
<1>7. Marked(b1, b2, c)
  BY <1>6 DEF Marked, SameButResult
<1>8. GaveUp(b, b2, c)
  BY <1>3, <1>7, GaveUpMarked
<1>9. BuffersKept(b, b2, c)
  BY DEF PipeEnd, BuffersKept, BufferKinds
<1>10. Mid(b2, fs, f, t)
  BY <1>1, <1>8, <1>9, GiveUpStep DEF PipeEnd
<1>11. Touches(b, b2, c) /\ b2.event = b.event
  BY <1>8 DEF GaveUp
<1>12. TimerOK(b2, f, fs[f])
  BY <1>1, <1>11, TimerTouched DEF PipeEnd, Dropping
<1>13. b2.sched[f] = NoValue
  BY <1>11 DEF Touches, OthersKept, SameRest, Dropping
<1>14. QED
  BY <1>10, <1>11, <1>12, <1>13 DEF Dropping

LEMMA MidQuiet ==
  ASSUME NEW b, NEW F, NEW f, NEW s, Mid(b, F, f, s), NEW b2, Quiet(b, b2)
  PROVE  Mid(b2, F, f, s)
<1>1. b2.event = b.event
  BY DEF Quiet, SameContexts
<1>2. QED
  BY <1>1, QuietBetween DEF Mid

LEMMA PipeDropped ==
  ASSUME NEW f \in Fibers, NEW b, NEW t, Dropping(b, f, t),
         SameUses(t, Left(fs[f]), b.event), Left(fs[f]) \in FiberStates,
         NEW b2, b2 = io_uring_backend_immediate_submit(b)
  PROVE  Ready(b2, f)
<1>1. Mid(b, fs, f, t) /\ Wf(b)
  BY DEF Dropping, Mid, Between, Good
<1>2. /\ Wf(b2) /\ SameRest(b, b2) /\ SameContexts(b, b2) /\ b2.sq = <<>> /\ b2.pending = 0
      /\ \A d \in Contexts : SameChain(b, b2, d)
  BY <1>1, Flushed
<1>3. Quiet(b, b2)
  BY <1>2 DEF Quiet
<1>4. Mid(b, fs, f, Left(fs[f]))
  BY <1>1, MidSameUses
<1>5. Mid(b2, fs, f, Left(fs[f]))
  BY <1>3, <1>4, MidQuiet
<1>6. Dooms(b2) /\ SqOK(b2)
  BY <1>2, FlushedDooms, BackendAssumption DEF SqOK
<1>7. QED
  BY <1>3, <1>5, <1>6, QuietTimer DEF Ready, Dropping

\* The fiber awaits both requests.
PipeAwaits(b, f, t) ==
    /\ t \in FiberStates /\ t.pc = "await" /\ t.op = "double_splice" /\ t.timer = fs[f].timer
    /\ t.aux # NoCtx /\ t.aux # t.ctx /\ Going(b, f, t.aux)
    /\ t.ctx # NoCtx => Going(b, f, t.ctx)
    /\ Drains(b, t.aux, t.ctx # NoCtx)
    /\ t.timer # NoCtx => t.timer \notin {t.ctx, t.aux}

LEMMA PipeAwaitStep ==
  ASSUME NEW f \in Fibers, NEW b, NEW t, Piping(b, f, t), PipeAwaits(b, f, t),
         NEW b2, b2 = FlushAtLimit(b), bk' = b2, cur' = NoFiber, fs' = [fs EXCEPT ![f] = t]
  PROVE  UInv'
<1>1. Mid(b, fs, f, t) /\ Wf(b) /\ Dooms(b) /\ b.pending \in Nat
  BY MidReusable, BackendFields DEF Piping, Wf
<1>2. Quiet(b, b2) /\ SqOK(b2)
  <2>1. CASE b.pending >= PreparedLimit
    <3>1. b2 = io_uring_backend_immediate_submit(b)
      BY <2>1 DEF FlushAtLimit
    <3>2. /\ Wf(b2) /\ SameRest(b, b2) /\ SameContexts(b, b2) /\ b2.sq = <<>> /\ b2.pending = 0
          /\ \A d \in Contexts : SameChain(b, b2, d)
      BY <1>1, <3>1, Flushed
    <3>3. QED
      BY <3>2, BackendAssumption DEF Quiet, SqOK
  <2>2. CASE ~(b.pending >= PreparedLimit)
    <3>1. b2 = b
      BY <2>2 DEF FlushAtLimit
    <3>2. b.pending < PreparedLimit
      BY <1>1, <2>2, BackendAssumption
    <3>3. QED
      BY <1>1, <3>1, <3>2 DEF Quiet, SqOK, Piping, SameRest, SameContexts, SameChain, SameAsked
  <2>3. QED
    BY <2>1, <2>2
<1>3. Mid(b2, fs, f, t) /\ TimerOK(b2, f, fs[f]) /\ b2.sched = b.sched /\ b2.event = b.event
  BY <1>1, <1>2, MidQuiet, QuietTimer DEF Piping
<1>4. Dooms(b2) /\ \A c \in Contexts : Untouched(b, b2, c)
  BY <1>1, <1>2, QuietUntouched
<1>5. b \in Backends /\ b2 \in Backends
  BY <1>1, <1>2 DEF Wf, Quiet
<1>6. \A c \in Contexts : Going(b, f, c) =>
        /\ WaitsForOne(b2, f, c) /\ b2.ctx[c].type = "SPLICE"
        /\ \A o \in BOOLEAN : Drains(b, c, o) => Drains(b2, c, o)
  <2>1. SUFFICES ASSUME NEW c \in Contexts, Going(b, f, c)
                 PROVE  /\ WaitsForOne(b2, f, c) /\ b2.ctx[c].type = "SPLICE"
                        /\ \A o \in BOOLEAN : Drains(b, c, o) => Drains(b2, c, o)
    OBVIOUS
  <2>2. WaitsForOne(b, f, c) /\ b.ctx[c].type = "SPLICE" /\ c # b2.event
    BY <1>3, <2>1 DEF Going, WaitsForOne, Waits, Mine
  <2>3. b2.ctx[c] = b.ctx[c] /\ Untouched(b, b2, c)
    BY <1>4, <1>5, UntouchedOut
  <2>4. QED
    BY <1>3, <1>5, <2>2, <2>3, UntouchedWaits
<1>7. /\ WaitsForOne(b2, f, t.aux) /\ b2.ctx[t.aux].type = "SPLICE"
      /\ t.ctx # NoCtx => WaitsForOne(b2, f, t.ctx) /\ b2.ctx[t.ctx].type = "SPLICE"
      /\ Drains(b2, t.aux, t.ctx # NoCtx)
  BY <1>6 DEF PipeAwaits, Going
<1>8. "double_splice" \notin OneRequestOps \cup ReadWriteOps \cup PlainOps \cup WriteOps
          \cup ChainOps \cup EventOps
  BY DEF OneRequestOps, ReadWriteOps, PlainOps, WriteOps, ReadOps, ChainOps, EventOps
<1>9. AwaitOK(b2, f, t)
  BY <1>7, <1>8 DEF AwaitOK, PipeAwaits
<1>10. FiberOK(b2, f, t)
  BY <1>3, <1>9 DEF FiberOK, PipeAwaits, TimerOK, Piping, NoValue
<1>11. BackendOK(b2, fs')
  BY <1>3, <1>4, <1>10, Leave
<1>12. QED
  BY <1>2, <1>11, BackendAssumption DEF UInv

LEMMA StartDoubleSpliceAction ==
  ASSUME UInv, NEW f \in Fibers, StartDoubleSplice(f)
  PROVE  UInv'
<1> DEFINE c == Acquired(bk)
           b1 == prepare_double_splice_ctx(bk, f, "SPLICE")
           d == Acquired(b1)
           b2 == prepare_double_splice_ctx(b1, f, "DRAIN")
           s == Entered(f, "double_splice")
           m == fs[f].timer
           s1 == [[s EXCEPT !.ctx = c] EXCEPT !.pc = "await"]
           t == [[s EXCEPT !.ctx = c, !.aux = d] EXCEPT !.pc = "await"]
<1>1. /\ Running(f, "double_splice") /\ CanAcquire(bk, 2)
      /\ bk' = FlushAtLimit(b2) /\ cur' = NoFiber /\ fs' = [fs EXCEPT ![f] = t]
  BY DEF StartDoubleSplice, Await
<1>2. /\ Ready(bk, f) /\ fs[f] \in FiberStates /\ fs[f].ctx = NoCtx /\ fs[f].aux = NoCtx
      /\ "double_splice" \in OpNames
  BY <1>1, RunningReady DEF Running, OpNames
<1>3. /\ s \in FiberStates /\ s.op = "double_splice" /\ s.aux = NoCtx /\ s.timer = m
  BY <1>2, EnteredFields
<1>4. Piping(bk, f, Left(fs[f])) /\ Wf(bk)
  BY <1>2 DEF Piping, Ready, SqOK, Mid, Between, Good
<1>5. CanAcquire(bk, 1)
  <2>1. Len(bk.avail) + (MaxContexts - bk.made) \in Int
    <3>1. bk.avail \in Seq(Contexts) /\ bk.made \in 0..MaxContexts /\ MaxContexts \in Nat
      BY <1>4, BackendFields, BackendAssumption DEF Wf, Counts
    <3>2. QED
      BY <3>1
  <2>2. QED
    BY <1>1, <2>1 DEF CanAcquire
<1>6. c \in Contexts /\ c # m
  BY <1>2, <1>4, <1>5, AcquiredFree DEF Ready
<1>7. PipeState(Left(fs[f]), NoCtx, NoCtx, m)
  BY <1>2, LeftFields DEF AtRest, PipeState
<1> HIDE DEF s, c
<1>8. PipeState(s1, c, NoCtx, m)
  BY <1>3, <1>6 DEF PipeState, FiberStates, EventOps
<1> HIDE DEF s1
<1>9. TakesUp(Left(fs[f]), s1, c, bk.event)
  <2>1. OnlyThat(c, NoCtx, NoCtx, c, NoCtx)
    BY DEF OnlyThat
  <2>2. QED
    BY <1>6, <1>7, <1>8, <2>1, PipeChange
<1>10. PipeOpened(bk, b1, f, s1, c, "SPLICE")
  <2>1. c = Acquired(bk)
    BY DEF c
  <2>2. QED
    BY <1>4, <1>5, <1>9, <2>1, PipeOpen
<1> HIDE DEF b1
<1>11. /\ Piping(b1, f, s1) /\ Going(b1, f, c) /\ CanAcquire(b1, 1) /\ b1.ctx[c].ref # 0
  BY <1>1, <1>10 DEF PipeOpened, Going, WaitsForOne, Waits, Mine
<1>12. Wf(b1) /\ TimerOK(b1, f, fs[f])
  BY <1>11 DEF Piping, Mid, Between, Good
<1>13. d \in Contexts /\ b1.ctx[d].ref = 0 /\ d # m /\ d # c
  BY <1>11, <1>12, AcquiredFree
<1> HIDE DEF d
<1>14. PipeState(t, c, d, m)
  BY <1>3, <1>6, <1>13 DEF PipeState, FiberStates, EventOps
<1>15. TakesUp(s1, t, d, b1.event)
  <2>1. OnlyThat(d, c, NoCtx, c, d)
    BY NoCtxContext DEF OnlyThat
  <2>2. QED
    BY <1>8, <1>13, <1>14, <2>1, PipeChange
<1>16. t \in FiberStates /\ t.pc = "await" /\ t.op = "double_splice" /\ t.timer = m /\ t.ctx = c /\ t.aux = d
  BY <1>3, <1>6, <1>13 DEF FiberStates
<1> HIDE DEF t
<1>17. PipeOpened(b1, b2, f, t, d, "DRAIN")
  <2>1. d = Acquired(b1)
    BY DEF d
  <2>2. QED
    BY <1>11, <1>15, <2>1, PipeOpen
<1> HIDE DEF b2
<1>18. Piping(b2, f, t) /\ Going(b2, f, d) /\ \A o \in BOOLEAN : Drains(b2, d, o)
  BY <1>17 DEF PipeOpened
<1>19. Going(b2, f, c)
  BY <1>6, <1>11, <1>12, <1>13, <1>17, StillGoing DEF PipeOpened
<1>20. PipeAwaits(b2, f, t)
  BY <1>6, <1>13, <1>16, <1>18, <1>19, NoCtxContext DEF PipeAwaits
<1>21. QED
  BY <1>1, <1>18, <1>20, PipeAwaitStep

LEMMA PipeCount ==
  ASSUME NEW f \in Fibers, NEW b, NEW s, Mid(b, fs, f, s), NEW c, PipeEnd(b, f, c),
         Uses(s, c, b.event) = 1
  PROVE  b.ctx[c].ref = Out(b, c) + 1 /\ Out(b, c) \in Nat
<1>1. /\ c \in Contexts /\ c # fs[f].timer /\ Mine(b, f, c)
      /\ b.ctx[c].ref \notin {0, MULTISHOT_REFCOUNT} /\ c # b.event
  BY DEF PipeEnd, Mine
<1>2. /\ Between(b, fs, f, Held(Counting(fs, f, s), b.event)) /\ s \in FiberStates
      /\ fs \in [Fibers -> FiberStates] /\ Wf(b)
  BY DEF Mid, Between, Good
<1>3. Private(fs, f, c)
  BY <1>1, <1>2, PrivateContexts
<1>4. HoldersOf(Counting(fs, f, s), b.event, c) = Uses(s, c, b.event)
  BY <1>1, <1>2, <1>3, SoleHolder
<1>5. Uses(s, c, b.event) = 1
  OBVIOUS
<1>6. Held(Counting(fs, f, s), b.event)[c] = 1
  <2>1. Counting(fs, f, s) \in [Fibers -> FiberStates]
    BY <1>2, CountingType
  <2>2. Held(Counting(fs, f, s), b.event)[c] = HoldersOf(Counting(fs, f, s), b.event, c)
    BY <1>1, <2>1, HeldType
  <2>3. QED
    BY <1>4, <1>5, <2>2
<1>7. CountOK(b, c, 1)
  BY <1>1, <1>2, <1>6 DEF Between, Good, ContextOK
<1>8. QED
  BY <1>1, <1>2, <1>7, OutType DEF CountOK, Wf

LEMMA DoubleSpliceAction ==
  ASSUME UInv, NEW f \in Fibers, double_splice_safe(f)
  PROVE  UInv'
<1> DEFINE s == fs[f]
           m == fs[f].timer
           x == fs[f].ctx
           y == fs[f].aux
           b == Unscheduled(f)
           gone == io_uring_backend_immediate_submit(Abandon(Abandon(b, x), y))
           srcDone == x # NoCtx /\ b.ctx[x].ref = 1
           srcEof == srcDone /\ b.ctx[x].result = 0
           b1 == IF srcDone THEN context_store_release(b, x) ELSE b
           b2 == IF srcDone /\ ~srcEof THEN prepare_double_splice_ctx(b1, f, "SPLICE") ELSE b1
           src == IF srcEof THEN NoCtx ELSE IF srcDone THEN Acquired(b1) ELSE x
           dstDone == b.ctx[y].ref = 1
           b3 == context_store_release(b2, y)
           b4 == prepare_double_splice_ctx(b3, f, "DRAIN")
           D(v, w) == [s EXCEPT !.ctx = v, !.aux = w]
<1>1. /\ Resumes(f, "double_splice")
      /\ \/ Raise(f, gone)
         \/ Return(f, gone)
         \/ dstDone /\ b.ctx[y].result = 0 /\ Return(f, b3)
         \/ dstDone /\ Await(f, FlushAtLimit(b4), [s EXCEPT !.ctx = src, !.aux = Acquired(b3)])
         \/ ~dstDone /\ Await(f, FlushAtLimit(b2), [s EXCEPT !.ctx = src])
  BY DEF double_splice_safe
<1>2. /\ BackendOK(bk, fs) /\ SqOK(bk) /\ FiberOK(bk, f, fs[f]) /\ s.pc = "await"
      /\ s.op = "double_splice" /\ s \in FiberStates
  BY <1>1, InvParts DEF Resumes, FiberOK
<1>3. Back(b, f)
  BY <1>2, UnscheduledStep
<1>4. /\ y # NoCtx /\ WaitsForOne(bk, f, y) /\ bk.ctx[y].type = "SPLICE"
      /\ x # NoCtx => WaitsForOne(bk, f, x) /\ bk.ctx[x].type = "SPLICE"
      /\ y # x /\ Drains(bk, y, x # NoCtx)
      /\ x \in Contexts \cup {NoCtx} /\ y \in Contexts
      /\ m # NoCtx => m \notin {x, y}
  BY <1>2 DEF FiberOK, AwaitOK, FiberStates, WaitsForOne, Waits, Mine
<1>5. Wf(b) /\ Mid(b, fs, f, s) /\ Dooms(b) /\ b \in Backends /\ bk \in Backends /\ b.event = bk.event
  BY <1>2, <1>3, InvParts DEF Back, Mid, Between, Good, Wf, SameUring, SameContexts
<1>6. Piping(b, f, s) /\ Dropping(b, f, s)
  BY <1>3 DEF Back, Piping, Dropping, SqOK
<1>7. \A c \in Contexts :
        /\ b.ctx[c] = bk.ctx[c] /\ Out(b, c) = Out(bk, c)
        /\ WaitsForOne(bk, f, c) /\ Out(b, c) = 1 => WaitsForOne(b, f, c)
        /\ \A o \in BOOLEAN : Drains(bk, c, o) => Drains(b, c, o)
        /\ Mine(bk, f, c) => Mine(b, f, c)
  <2>1. SUFFICES ASSUME NEW c \in Contexts
                 PROVE  /\ b.ctx[c] = bk.ctx[c] /\ Out(b, c) = Out(bk, c)
                        /\ WaitsForOne(bk, f, c) /\ Out(b, c) = 1 => WaitsForOne(b, f, c)
                        /\ \A o \in BOOLEAN : Drains(bk, c, o) => Drains(b, c, o)
                        /\ Mine(bk, f, c) => Mine(b, f, c)
    BY Zenon
  <2> HIDE DEF b
  <2>2. b.cq = bk.cq /\ Untouched(bk, b, c)
    BY <1>3 DEF Back, SameUring
  <2>3. /\ ReqsOf(b, c) = ReqsOf(bk, c) /\ Out(b, c) = Out(bk, c) /\ b.ctx[c] = bk.ctx[c]
        /\ Doomed(b, c) => Doomed(bk, c)
    BY <1>5, <2>2, UntouchedOut
  <2>4. Answers(b, c) = Answers(bk, c)
    BY <2>2 DEF Answers
  <2>5. Mine(bk, f, c) => Mine(b, f, c)
    BY <1>5, <2>3 DEF Mine
  <2>6. \A o \in BOOLEAN : Drains(bk, c, o) => Drains(b, c, o)
    BY <2>2, <2>3, <2>4 DEF Drains
  <2>7. Uncancelled(bk, c) => Uncancelled(b, c)
    BY <2>2, <2>3, <2>4 DEF Uncancelled
  <2>8. WaitsForOne(bk, f, c) /\ Out(b, c) = 1 => WaitsForOne(b, f, c)
    BY <2>3, <2>5, <2>7 DEF WaitsForOne, Waits, WillWake
  <2>9. QED
    BY <2>3, <2>5, <2>6, <2>8
<1> HIDE DEF b
<1>8. PipeEnd(b, f, y) /\ (x # NoCtx => PipeEnd(b, f, x))
  <2>1. \A c \in Contexts : c \in {x, y} =>
          /\ Mine(bk, f, c) /\ bk.ctx[c].ref # MULTISHOT_REFCOUNT /\ bk.ctx[c].type = "SPLICE"
          /\ c # m
    BY <1>4, NoCtxContext DEF WaitsForOne, Waits
  <2>2. \A c \in Contexts : c \in {x, y} => PipeEnd(b, f, c)
    BY <1>7, <2>1 DEF PipeEnd
  <2>3. QED
    BY <1>4, <2>2
<1>9. \A c \in Contexts : c \in {x, y} =>
        /\ b.ctx[c].ref = 1 => Out(b, c) = 0
        /\ b.ctx[c].ref # 1 => Going(b, f, c)
  <2>1. SUFFICES ASSUME NEW c \in Contexts, c \in {x, y}
                 PROVE  /\ b.ctx[c].ref = 1 => Out(b, c) = 0
                        /\ b.ctx[c].ref # 1 => Going(b, f, c)
    OBVIOUS
  <2>2. PipeEnd(b, f, c) /\ WaitsForOne(bk, f, c)
    BY <1>4, <1>8, <2>1, NoCtxContext
  <2>3. PipeState(s, x, y, m)
    BY <1>2, OpsDiffer DEF PipeState, EventOps
  <2>4. b.ctx[c].ref = Out(b, c) + 1 /\ Out(b, c) \in Nat
    <3>1. Uses(s, c, b.event) = One(c \in {x, y}) + One(m = c)
      BY <2>3, PipeUses
    <3>2. Uses(s, c, b.event) = 1
      BY <2>1, <2>2, <3>1 DEF One, PipeEnd
    <3>3. QED
      BY <1>5, <2>2, <3>2, PipeCount
  <2>5. Out(b, c) <= 1
    BY <1>7, <2>2 DEF WaitsForOne
  <2>6. b.ctx[c].ref # 1 => Out(b, c) = 1
    BY <2>4, <2>5
  <2>7. QED
    BY <1>7, <2>2, <2>4, <2>6 DEF Going, PipeEnd
<1>10. /\ \A v, w \in Contexts \cup {NoCtx} :
             /\ D(v, w) \in FiberStates /\ D(v, w).pc = "await" /\ D(v, w).op = "double_splice"
             /\ D(v, w).timer = m /\ D(v, w).ctx = v /\ D(v, w).aux = w
       /\ D(x, y) = s
  <2>1. ASSUME NEW v \in Contexts \cup {NoCtx}, NEW w \in Contexts \cup {NoCtx}
        PROVE  /\ D(v, w) \in FiberStates /\ D(v, w).pc = "await" /\ D(v, w).op = "double_splice"
               /\ D(v, w).timer = m /\ D(v, w).ctx = v /\ D(v, w).aux = w
    BY <1>2 DEF FiberStates
  <2>2. D(x, y) = s
    BY <1>2 DEF FiberStates
  <2> HIDE DEF D
  <2>3. QED
    BY <2>1, <2>2
<1> HIDE DEF D
<1>11. \A v, w \in Contexts \cup {NoCtx} : PipeState(D(v, w), v, w, m)
  BY <1>10 DEF PipeState, EventOps
<1>12. \A e : /\ x # NoCtx => LetsGo(D(x, y), D(NoCtx, y), x, e)
              /\ \A v \in Contexts \cup {NoCtx} : v # y => LetsGo(D(v, y), D(v, NoCtx), y, e)
              /\ \A v \in Contexts, w \in Contexts \cup {NoCtx} :
                    v # m /\ v # w => TakesUp(D(NoCtx, w), D(v, w), v, e)
              /\ \A v \in Contexts \cup {NoCtx}, w \in Contexts :
                    w # m /\ v # w => TakesUp(D(v, NoCtx), D(v, w), w, e)
  <2>1. NoCtx \notin Contexts /\ m \notin {x, y} \ {NoCtx}
    BY <1>4, NoCtxContext
  <2>2. ASSUME NEW e, x # NoCtx PROVE LetsGo(D(x, y), D(NoCtx, y), x, e)
    <3>1. OnlyThat(x, x, y, NoCtx, y)
      BY <2>1 DEF OnlyThat
    <3>2. x \in Contexts /\ x # m /\ x # NoCtx /\ x # y /\ NoCtx \in Contexts \cup {NoCtx}
      BY <1>4, <2>1, <2>2
    <3>3. PipeState(D(x, y), x, y, m) /\ PipeState(D(NoCtx, y), NoCtx, y, m)
      BY <1>4, <1>11
    <3>4. QED
      BY <3>1, <3>2, <3>3, PipeChange
  <2>3. ASSUME NEW e, NEW v \in Contexts \cup {NoCtx}, v # y
        PROVE  LetsGo(D(v, y), D(v, NoCtx), y, e)
    <3>1. OnlyThat(y, v, y, v, NoCtx)
      BY <2>1 DEF OnlyThat
    <3>2. y # m /\ y # v /\ y # NoCtx /\ NoCtx \in Contexts \cup {NoCtx}
      BY <1>4, <2>1, <2>3
    <3>3. QED
      BY <1>4, <1>11, <3>1, <3>2, PipeChange
  <2>4. ASSUME NEW e, NEW v \in Contexts, NEW w \in Contexts \cup {NoCtx}, v # m, v # w
        PROVE  TakesUp(D(NoCtx, w), D(v, w), v, e)
    <3>1. OnlyThat(v, NoCtx, w, v, w)
      BY <2>1 DEF OnlyThat
    <3>2. NoCtx \in Contexts \cup {NoCtx}
      OBVIOUS
    <3>3. QED
      BY <1>11, <2>4, <3>1, <3>2, PipeChange
  <2>5. ASSUME NEW e, NEW v \in Contexts \cup {NoCtx}, NEW w \in Contexts, w # m, v # w
        PROVE  TakesUp(D(v, NoCtx), D(v, w), w, e)
    <3>1. OnlyThat(w, v, NoCtx, v, w)
      BY <2>1 DEF OnlyThat
    <3>2. NoCtx \in Contexts \cup {NoCtx}
      OBVIOUS
    <3>3. QED
      BY <1>11, <2>5, <3>1, <3>2, PipeChange
  <2>6. QED
    BY <2>2, <2>3, <2>4, <2>5
<1>13. ASSUME Raise(f, gone) \/ Return(f, gone) PROVE UInv'
  <2> DEFINE ba == Abandon(b, x)
             bb == Abandon(ba, y)
  <2>1. Dropping(ba, f, D(NoCtx, y)) /\ PipeEnd(ba, f, y)
    <3>1. CASE x = NoCtx
      <4>1. ba = b /\ D(NoCtx, y) = s
        BY <1>10, <3>1 DEF Abandon
      <4>2. QED
        BY <1>6, <1>8, <4>1
    <3>2. CASE x # NoCtx
      <4>1. LetsGo(s, D(NoCtx, y), x, b.event) /\ PipeEnd(b, f, x)
        BY <1>8, <1>10, <1>12, <3>2
      <4>2. Dropping(ba, f, D(NoCtx, y)) /\ Touches(b, ba, x) /\ ba.event = b.event
        BY <1>6, <4>1, PipeDrop
      <4> HIDE DEF ba
      <4>3. PipeEnd(ba, f, y)
        BY <1>4, <1>5, <1>8, <3>2, <4>2, StillGoing
      <4>4. QED
        BY <4>2, <4>3
    <3>3. QED
      BY <3>1, <3>2
  <2> HIDE DEF ba
  <2>2. LetsGo(D(NoCtx, y), D(NoCtx, NoCtx), y, ba.event)
    BY <1>4, <1>12
  <2>3. Dropping(bb, f, D(NoCtx, NoCtx))
    BY <2>1, <2>2, PipeDrop
  <2>4. gone = io_uring_backend_immediate_submit(bb)
    BY DEF gone, bb, ba
  <2> HIDE DEF bb, gone
  <2>5. Left(fs[f]) \in FiberStates /\ PipeState(Left(fs[f]), NoCtx, NoCtx, m)
    BY <1>2, LeftFields DEF AtRest, PipeState
  <2>6. SameUses(D(NoCtx, NoCtx), Left(fs[f]), bb.event)
    <3>1. PipeState(D(NoCtx, NoCtx), NoCtx, NoCtx, m)
      BY <1>11
    <3>2. QED
      BY <2>5, <3>1, PipeUses DEF SameUses
  <2>7. Ready(gone, f)
    BY <2>3, <2>4, <2>5, <2>6, PipeDropped
  <2>8. QED
    BY <1>13, <2>7, ReturnStep
<1>14. Drains(b, y, x # NoCtx)
  BY <1>4, <1>7
<1>15. y \in Contexts /\ y # b.event
  BY <1>4, <1>8 DEF PipeEnd, Mine
<1> DEFINE Staged(z, c) ==
             /\ Piping(z, f, D(c, y)) /\ c \in Contexts \cup {NoCtx} /\ c # y
             /\ c # NoCtx => Going(z, f, c) /\ c # m
             /\ PipeEnd(z, f, y) /\ z.ctx[y] = b.ctx[y] /\ Drains(z, y, c # NoCtx)
             /\ b.ctx[y].ref # 1 => Going(z, f, y)
             /\ x = NoCtx => c = NoCtx
<1>16. Staged(b2, src)
  <2>1. CASE ~srcDone
    <3>1. b2 = b /\ src = x
      BY <2>1 DEF b1, b2, src, srcEof
    <3>2. x # NoCtx => Going(b, f, x) /\ x # m
      BY <1>4, <1>9, <2>1 DEF srcDone
    <3>3. Staged(b, x)
      BY <1>4, <1>6, <1>8, <1>9, <1>10, <1>14, <3>2
    <3>4. QED
      BY <3>1, <3>3
  <2>2. CASE srcDone
    <3>1. x # NoCtx /\ b.ctx[x].ref = 1 /\ x \in Contexts /\ x # y
      BY <1>4, <2>2 DEF srcDone
    <3>2. b1 = context_store_release(b, x)
      BY <2>2 DEF b1
    <3> HIDE DEF srcDone
    <3> HIDE DEF b1
    <3>3. LetsGo(s, D(NoCtx, y), x, b.event) /\ PipeEnd(b, f, x)
      BY <1>8, <1>10, <1>12, <3>1
    <3>4. /\ Piping(b1, f, D(NoCtx, y)) /\ Touches(b, b1, x) /\ b1.event = b.event
          /\ b1.ctx[x].ref = 0
      BY <1>6, <3>1, <3>2, <3>3, PipeClose
    <3>5. Wf(b1) /\ TimerOK(b1, f, fs[f])
      BY <3>4 DEF Touches, Piping
    <3>6. /\ Going(b, f, y) => Going(b1, f, y)
          /\ \A o \in BOOLEAN : Drains(b, y, o) => Drains(b1, y, o)
          /\ PipeEnd(b1, f, y) /\ b1.ctx[y] = b.ctx[y]
      BY <1>5, <1>8, <1>15, <3>1, <3>4, StillGoing
    <3>7. Drains(b1, y, TRUE) /\ Drains(b1, y, FALSE)
      <4>1. Drains(b, y, TRUE)
        BY <1>14, <3>1 DEF Drains
      <4>2. QED
        BY <3>6, <4>1 DEF Drains
    <3>8. b.ctx[y].ref # 1 => Going(b1, f, y)
      BY <1>9, <1>15, <3>6
    <3>9. CASE srcEof
      <4>1. b2 = b1 /\ src = NoCtx
        BY <3>9 DEF b2, src
      <4>2. Drains(b1, y, NoCtx # NoCtx)
        BY <3>7 DEF Drains
      <4>3. Staged(b1, NoCtx)
        BY <1>4, <3>4, <3>6, <3>8, <4>2
      <4>4. QED
        BY <4>1, <4>3
    <3>10. CASE ~srcEof
      <4>1. b2 = prepare_double_splice_ctx(b1, f, "SPLICE") /\ src = Acquired(b1)
        BY <2>2, <3>10 DEF b2, src
      <4> HIDE DEF b2, src, srcEof
      <4>2. CanAcquire(b1, 1)
        BY <3>1, <3>4, <3>5, OneIsFree
      <4>3. src \in Contexts /\ b1.ctx[src].ref = 0 /\ src # m
        BY <3>5, <4>1, <4>2, AcquiredFree
      <4>4. src # y /\ src # NoCtx
        BY <3>6, <4>3, NoCtxContext DEF PipeEnd, Mine
      <4>5. TakesUp(D(NoCtx, y), D(src, y), src, b1.event)
        BY <1>12, <1>15, <4>3, <4>4
      <4>6. PipeOpened(b1, b2, f, D(src, y), src, "SPLICE")
        BY <3>4, <4>1, <4>2, <4>5, PipeOpen
      <4>7. /\ Going(b1, f, y) => Going(b2, f, y)
            /\ \A o \in BOOLEAN : Drains(b1, y, o) => Drains(b2, y, o)
            /\ PipeEnd(b2, f, y) /\ b2.ctx[y] = b1.ctx[y]
        BY <1>15, <3>4, <3>5, <3>6, <4>3, <4>4, <4>6, StillGoing DEF PipeOpened
      <4>8. Drains(b2, y, src # NoCtx)
        <5>1. Drains(b2, y, TRUE)
          BY <3>7, <4>7
        <5>2. QED
          BY <4>4, <5>1 DEF Drains
      <4>9. QED
        BY <3>1, <3>6, <3>8, <4>3, <4>4, <4>6, <4>7, <4>8 DEF PipeOpened
    <3> HIDE DEF Staged, b2, src, srcEof
    <3>11. QED
      BY <3>9, <3>10
  <2> HIDE DEF Staged, b1, b2, src, srcEof, srcDone
  <2>3. QED
    BY <2>1, <2>2
<1> HIDE DEF b2, src, b1, srcEof, srcDone, gone
<1>17. Wf(b2) /\ TimerOK(b2, f, fs[f])
  BY <1>16 DEF Piping, Mid, Between, Good
<1>18. CASE ~dstDone /\ Await(f, FlushAtLimit(b2), [s EXCEPT !.ctx = src])
  <2>1. [[s EXCEPT !.ctx = src] EXCEPT !.pc = "await"] = D(src, y)
    <3>1. s = [op |-> s.op, pc |-> s.pc, ctx |-> s.ctx, aux |-> s.aux, left |-> s.left,
               total |-> s.total, moved |-> s.moved, timer |-> s.timer, queue |-> s.queue,
               step |-> s.step]
      BY <1>2 DEF FiberStates
    <3>2. QED
      BY <1>2, <3>1 DEF D
  <2>2. bk' = FlushAtLimit(b2) /\ cur' = NoFiber /\ fs' = [fs EXCEPT ![f] = D(src, y)]
    <3> HIDE DEF s
    <3>1. Await(f, FlushAtLimit(b2), [s EXCEPT !.ctx = src])
      BY <1>18
    <3>2. QED
      BY <2>1, <3>1, Zenon DEF Await
  <2>3. Going(b2, f, y) /\ Piping(b2, f, D(src, y))
    BY <1>16, <1>18
  <2>4. PipeAwaits(b2, f, D(src, y))
    <3>1. /\ D(src, y) \in FiberStates /\ D(src, y).pc = "await" /\ D(src, y).op = "double_splice"
          /\ D(src, y).timer = m /\ D(src, y).ctx = src /\ D(src, y).aux = y
      BY <1>10, <1>15, <1>16
    <3>2. m # NoCtx => m # src /\ m # y
      BY <1>4, <1>16
    <3>3. QED
      BY <1>4, <1>16, <2>3, <3>1, <3>2 DEF PipeAwaits
  <2>5. QED
    BY <2>2, <2>3, <2>4, PipeAwaitStep
<1>19. ASSUME dstDone
       PROVE  /\ Piping(b3, f, D(src, NoCtx)) /\ Touches(b2, b3, y) /\ b3.event = b2.event
              /\ b3.ctx[y].ref = 0 /\ SameSq(b2, b3)
  <2>1. LetsGo(D(src, y), D(src, NoCtx), y, b2.event)
    BY <1>12, <1>16
  <2>2. b2.ctx[y].ref = 1
    BY <1>16, <1>19
  <2>3. QED
    BY <1>16, <2>1, <2>2, PipeClose
<1>20. CASE dstDone /\ b.ctx[y].result = 0 /\ Return(f, b3)
  <2>1. x = NoCtx
    <3>1. Out(b, y) = 0
      BY <1>9, <1>15, <1>20
    <3>2. QED
      BY <1>14, <1>20, <3>1 DEF Drains
  <2>2. src = NoCtx /\ b2 = b
    BY <1>16, <2>1 DEF b2, b1, srcDone
  <2>3. Piping(b3, f, D(NoCtx, NoCtx)) /\ SameSq(b, b3)
    BY <1>19, <1>20, <2>2
  <2> HIDE DEF b3
  <2>4. SqOK(b3)
    BY <1>3, <2>3, SameSqOK DEF Back
  <2>5. Left(fs[f]) \in FiberStates /\ PipeState(Left(fs[f]), NoCtx, NoCtx, m)
    BY <1>2, LeftFields DEF AtRest, PipeState
  <2>6. SameUses(D(NoCtx, NoCtx), Left(fs[f]), b3.event)
    <3>1. PipeState(D(NoCtx, NoCtx), NoCtx, NoCtx, m)
      BY <1>11
    <3>2. QED
      BY <2>5, <3>1, PipeUses DEF SameUses
  <2>7. Mid(b3, fs, f, Left(fs[f]))
    BY <2>3, <2>5, <2>6, MidSameUses DEF Piping
  <2>8. Ready(b3, f)
    BY <2>3, <2>4, <2>7 DEF Ready, Piping
  <2>9. QED
    BY <1>20, <2>8, ReturnStep
<1>21. CASE dstDone /\ Await(f, FlushAtLimit(b4), [s EXCEPT !.ctx = src, !.aux = Acquired(b3)])
  <2> DEFINE w == Acquired(b3)
             t == D(src, w)
  <2>1. /\ Piping(b3, f, D(src, NoCtx)) /\ Touches(b2, b3, y) /\ b3.event = b2.event
        /\ b3.ctx[y].ref = 0
    BY <1>19, <1>21
  <2> HIDE DEF b3
  <2>2. Wf(b3) /\ TimerOK(b3, f, fs[f])
    BY <2>1 DEF Touches, Piping
  <2>3. CanAcquire(b3, 1)
    BY <1>15, <2>1, <2>2, OneIsFree
  <2>4. w \in Contexts /\ b3.ctx[w].ref = 0 /\ w # m
    BY <2>2, <2>3, AcquiredFree
  <2>5. src # NoCtx => Going(b3, f, src)
    BY <1>15, <1>16, <1>17, <2>1, StillGoing
  <2>6. src # w
    BY <2>4, <2>5, NoCtxContext DEF Going, WaitsForOne, Waits, Mine
  <2>7. w = Acquired(b3)
    OBVIOUS
  <2>8. [[s EXCEPT !.ctx = src, !.aux = w] EXCEPT !.pc = "await"] = D(src, w)
    <3> HIDE DEF w
    <3>1. s = [op |-> s.op, pc |-> s.pc, ctx |-> s.ctx, aux |-> s.aux, left |-> s.left,
               total |-> s.total, moved |-> s.moved, timer |-> s.timer, queue |-> s.queue,
               step |-> s.step]
      BY <1>2 DEF FiberStates
    <3>2. QED
      BY <1>2, <3>1 DEF D
  <2>9. bk' = FlushAtLimit(b4) /\ cur' = NoFiber /\ fs' = [fs EXCEPT ![f] = t]
    BY <1>21, <2>8 DEF Await
  <2> HIDE DEF w
  <2>10. TakesUp(D(src, NoCtx), D(src, w), w, b3.event)
    BY <1>12, <1>16, <2>4, <2>6
  <2>11. PipeOpened(b3, b4, f, t, w, "DRAIN")
    BY <2>1, <2>3, <2>7, <2>10, PipeOpen
  <2> HIDE DEF b4
  <2>12. src # NoCtx => Going(b4, f, src)
    BY <1>16, <2>2, <2>4, <2>5, <2>6, <2>11, StillGoing DEF PipeOpened
  <2>13. /\ t \in FiberStates /\ t.pc = "await" /\ t.op = "double_splice"
         /\ t.timer = m /\ t.ctx = src /\ t.aux = w
    BY <1>10, <1>16, <2>4
  <2>14. m # NoCtx => m # src /\ m # w
    BY <1>16, <2>4
  <2> HIDE DEF t
  <2>15. Drains(b4, w, src # NoCtx)
    BY <2>11 DEF PipeOpened
  <2>16. PipeAwaits(b4, f, t)
    BY <2>4, <2>6, <2>11, <2>12, <2>13, <2>14, <2>15, NoCtxContext DEF PipeAwaits, PipeOpened
  <2>17. QED
    BY <2>9, <2>11, <2>16, PipeAwaitStep DEF PipeOpened
<1>22. QED
  BY <1>1, <1>13, <1>18, <1>20, <1>21
----------------------------------------------------------------------------
(* Waiting for an event *)

\* A fiber that runs through the calls of an event wait, holding the context
\* a of a multishot accept, counts as in a state s that waits (w = 1) or not.
Watch(s, w, a, m) ==
    /\ s \in FiberStates /\ s.pc = "await" /\ s.ctx = NoCtx /\ s.aux = a /\ s.timer = m
    /\ IsWaiter(s) <=> w = 1

LEMMA WatchUses ==
  ASSUME NEW w, NEW a, NEW m, NEW s, Watch(s, w, a, m), NEW d \in Contexts, NEW e
  PROVE  Uses(s, d, e) = One(d = a) + One(m = d) + One(d = e /\ w = 1)
<1>1. d # NoCtx
  BY NoCtxContext
<1>2. One(s.pc = "await" /\ d \in {s.ctx, s.aux}) = One(d = a)
  BY <1>1 DEF Watch, One
<1>3. One(s.timer = d) = One(m = d) /\ One(d = e /\ IsWaiter(s)) = One(d = e /\ w = 1)
  BY DEF Watch, One
<1>4. QED
  BY <1>2, <1>3 DEF Uses

\* The context of the event is held by those that wait, and nobody else.
LEMMA EventHolders ==
  ASSUME NEW F \in [Fibers -> FiberStates], NEW f \in Fibers, NEW c \in Contexts,
         Private(F, f, c), NEW w, NEW a, NEW m, NEW s, Watch(s, w, a, m), c # a, c # m
  PROVE  /\ HoldersOf(Counting(F, f, s), c, c) = Cardinality(EventWaiters(Counting(F, f, s)))
         /\ HoldersOf(Counting(F, f, s), c, c) \in Nat
         /\ HoldersOf(Counting(F, f, s), c, c) <= Cardinality(Fibers)
         /\ HoldersOf(Counting(F, f, s), NoCtx, c) = 0
<1> DEFINE G == Counting(F, f, s)
<1>1. /\ G \in [Fibers -> FiberStates] /\ G[f] = s
      /\ \A g \in Fibers : g # f => G[g] = F[g]
  BY CountingType DEF Watch
<1> HIDE DEF G
<1>2. c # NoCtx
  BY NoCtxContext
<1>3. Users(G, c) = {}
  BY <1>1, <1>2 DEF Users, Private, Claims, Watch
<1>4. Timed(G, c) = {}
  BY <1>1, <1>2 DEF Timed, Private, Claims, Watch
<1>5. Cardinality(EventWaiters(G)) \in Nat /\ Cardinality(EventWaiters(G)) <= Cardinality(Fibers)
  <2>1. EventWaiters(G) \subseteq Fibers
    BY DEF EventWaiters
  <2>2. QED
    BY <2>1, BackendAssumption, FS_Subset, FS_CardinalityType
<1>6. Cardinality(Users(G, c)) = 0 /\ Cardinality(Timed(G, c)) = 0
  BY <1>3, <1>4, FS_EmptySet
<1>7. QED
  BY <1>2, <1>5, <1>6 DEF HoldersOf, G

\* One waiter more or less.
LEMMA EventRecount ==
  ASSUME NEW F \in [Fibers -> FiberStates], NEW f \in Fibers, NEW c \in Contexts,
         NEW v, NEW w, NEW a, NEW m, NEW s, NEW t,
         Watch(s, v, a, m), Watch(t, w, a, m), c # a, c # m
  PROVE  /\ HoldersOf(Counting(F, f, s), c, c) \in Nat
         /\ HoldersOf(Counting(F, f, t), c, c) \in Nat
         /\ v # 1 /\ w = 1 =>
              HoldersOf(Counting(F, f, t), c, c) = HoldersOf(Counting(F, f, s), c, c) + 1
         /\ v = 1 /\ w # 1 =>
              HoldersOf(Counting(F, f, s), c, c) = HoldersOf(Counting(F, f, t), c, c) + 1
<1> DEFINE G == Counting(F, f, s)
<1>1. /\ G \in [Fibers -> FiberStates] /\ G[f] = s /\ Counting(F, f, t) = [G EXCEPT ![f] = t]
      /\ Counting(F, f, t) \in [Fibers -> FiberStates]
  BY CountingType DEF Counting, Watch
<1> HIDE DEF G
<1>2. t \in FiberStates
  BY DEF Watch
<1>3. Recount(G, f, t, c, c)
  BY <1>1, <1>2, Reheld
<1>4. Uses(s, c, c) = One(v = 1) /\ Uses(t, c, c) = One(w = 1)
  <2>1. Uses(s, c, c) = One(c = a) + One(m = c) + One(c = c /\ v = 1)
    BY WatchUses
  <2>2. Uses(t, c, c) = One(c = a) + One(m = c) + One(c = c /\ w = 1)
    BY WatchUses
  <2>3. QED
    BY <2>1, <2>2 DEF One
<1>5. Uses(G[f], c, c) = One(v = 1)
  BY <1>1, <1>4, Zenon
<1>6. HoldersOf(G, c, c) >= One(v = 1) /\ HoldersOf(G, c, c) \in Nat
      /\ HoldersOf([G EXCEPT ![f] = t], c, c) = HoldersOf(G, c, c) - One(v = 1) + One(w = 1)
  BY <1>3, <1>4, <1>5 DEF Recount
<1>7. HoldersOf(Counting(F, f, t), c, c) = HoldersOf(G, c, c) - One(v = 1) + One(w = 1)
  BY <1>1, <1>6, Zenon
<1>8. QED
  BY <1>6, <1>7 DEF One, G

\* A multishot accept that goes on.
ShotOK(b, f, a) ==
    a # NoCtx => /\ Mine(b, f, a) /\ b.ctx[a].ref = MULTISHOT_REFCOUNT
                 /\ a # fs[f].timer

\* The fiber may go on or switch out.
Steady(b, f, a) ==
    /\ Dooms(b) /\ SqOK(b) /\ TimerOK(b, f, fs[f]) /\ ShotOK(b, f, a)
    /\ b.sched[f] \in {NoValue, "nil"}
Calm(b, f, s, w, a) ==
    Mid(b, fs, f, s) /\ Steady(b, f, a) /\ Watch(s, w, a, fs[f].timer)

LEMMA SteadyTouched ==
  ASSUME NEW b, NEW f, NEW a, Steady(b, f, a), NEW b2, NEW c, Touches(b, b2, c),
         b2.event \in {b.event, c, NoCtx}, c # a, c # fs[f].timer, Dooms(b2), SqOK(b2)
  PROVE  Steady(b2, f, a)
<1>1. TimerOK(b2, f, fs[f])
  BY MineTouched DEF TimerOK, Steady
<1>2. ShotOK(b2, f, a)
  BY MineTouched DEF ShotOK, Steady
<1>3. b2.sched = b.sched
  BY DEF Touches, OthersKept, SameRest
<1>4. QED
  BY <1>1, <1>2, <1>3 DEF Steady

\* A call that changes the run queue of f and the accept queues.
LEMMA CalmSame ==
  ASSUME NEW f \in Fibers, NEW b, NEW s, NEW w, NEW a, Calm(b, f, s, w, a),
         NEW b2, SameUring(b, b2), \A g \in Fibers : g # f => b2.sched[g] = b.sched[g],
         b2.sched[f] \in {NoValue, "nil"}
  PROVE  Calm(b2, f, s, w, a) /\ b2.event = b.event /\ b2.avail = b.avail /\ b2.made = b.made
<1>1. Mid(b, fs, f, s) /\ Dooms(b) /\ SqOK(b)
  BY DEF Calm, Steady
<1>2. \A g \in Fibers : g # f => SchedKept(b, b2, g, fs[g])
  BY <1>1 DEF SchedKept, Mid, Between, FiberOK
<1>3. Mid(b2, fs, f, s) /\ Dooms(b2) /\ SqOK(b2) /\ b2.event = b.event /\ b2.ctx = b.ctx
  BY <1>1, <1>2, MidSameUring
<1>4. TimerOK(b2, f, fs[f]) /\ ShotOK(b2, f, a)
  BY <1>3 DEF TimerOK, ShotOK, Mine, Calm, Steady
<1>5. b2.avail = b.avail /\ b2.made = b.made
  BY DEF SameUring, SameContexts
<1>6. QED
  BY <1>3, <1>4, <1>5 DEF Calm, Steady

\* The holders of the other contexts do not depend on which one is the event's.
LEMMA OtherEvent ==
  ASSUME NEW F \in [Fibers -> FiberStates], NEW f \in Fibers, NEW v, NEW w, NEW a, NEW m,
         NEW s, NEW t, Watch(s, v, a, m), Watch(t, w, a, m), NEW c, NEW e \in {c, NoCtx},
         NEW e2 \in {c, NoCtx}, NEW d \in Contexts, d # c
  PROVE  HoldersOf(Counting(F, f, t), e2, d) = HoldersOf(Counting(F, f, s), e, d)
<1>1. d # NoCtx /\ s \in FiberStates /\ t \in FiberStates
  BY NoCtxContext DEF Watch
<1>2. \A G : HoldersOf(G, e, d) = HoldersOf(G, NoCtx, d) /\ HoldersOf(G, e2, d) = HoldersOf(G, NoCtx, d)
  BY <1>1 DEF HoldersOf
<1>3. OnlyUses(s, t, NoCtx, NoCtx)
  <2>1. ASSUME NEW x \in Contexts PROVE Uses(s, x, NoCtx) = Uses(t, x, NoCtx)
    <3>1. Uses(s, x, NoCtx) = One(x = a) + One(m = x) + One(x = NoCtx /\ v = 1)
      BY WatchUses
    <3>2. Uses(t, x, NoCtx) = One(x = a) + One(m = x) + One(x = NoCtx /\ w = 1)
      BY WatchUses
    <3>3. One(x = NoCtx /\ v = 1) = 0 /\ One(x = NoCtx /\ w = 1) = 0
      BY NoCtxContext DEF One
    <3>4. QED
      BY <3>1, <3>2, <3>3
  <2>2. QED
    BY <2>1 DEF OnlyUses
<1>4. HoldersOf(Counting(F, f, t), NoCtx, d) = HoldersOf(Counting(F, f, s), NoCtx, d)
  BY <1>1, <1>3, OnlyHolders
<1>5. QED
  BY <1>2, <1>4

\* The first that waits makes the poll.
LEMMA EventFirst ==
  ASSUME NEW f \in Fibers, NEW b, NEW s, NEW a, Calm(b, f, s, 0, a), b.event = NoCtx,
         CanAcquire(b, 1), NEW t, Watch(t, 1, a, fs[f].timer),
         NEW b2, b2 = EventBegin(b, f)
  PROVE  /\ Calm(b2, f, t, 1, a) /\ b2.event # NoCtx /\ SameRest(b, b2)
<1> DEFINE reqs == <<EventRequest>>
           b1 == Issue(b, f, "POLL", reqs)
           c == Acquired(b)
           x == NewContext("POLL", f)
<1>1. /\ Mid(b, fs, f, s) /\ Steady(b, f, a) /\ Dooms(b) /\ fs \in [Fibers -> FiberStates]
      /\ Between(b, fs, f, Held(Counting(fs, f, s), b.event))
      /\ Watch(s, 0, a, fs[f].timer) /\ TimerOK(b, f, fs[f]) /\ ShotOK(b, f, a)
  BY DEF Calm, Steady, Mid, Between
<1>2. Reusable(b) /\ Wf(b)
  BY <1>1, MidReusable
<1>3. /\ reqs \in Seq(Requests) /\ reqs # <<>> /\ Len(reqs) = 1 /\ DOMAIN reqs = {1}
      /\ reqs[1].kind = "EVENT"
  <2>1. 0 \in Lengths /\ "EVENT" \in Kinds
    BY BackendAssumption DEF Lengths, Kinds
  <2>2. QED
    BY <2>1, RequestType DEF EventRequest
<1>4. /\ x \in ContextRecords /\ x.ref = 2 /\ x.type = "POLL" /\ x.fiber = f
      /\ x.resume = "nil" /\ x.buffers = "none"
  <2>1. NewContext("POLL", f) \in ContextRecords
    BY NewContextType DEF Types, Kinds
  <2>2. QED
    BY <2>1 DEF NewContext
<1>5. IsEvent(b1, b2, c)
  BY DEF EventBegin, EventRequest, IsEvent
<1>6. b1 = IssuedNow(b, "POLL", f, reqs) /\ "POLL" \in Types
  BY DEF Issue, IssuedNow, AcquiredAndPrepared, Types, Kinds
<1> HIDE DEF reqs, b1, x
<1>7. IssuedAs(b, b1, c, x, reqs) /\ SqOK(b1)
  BY <1>2, <1>3, <1>6, Issued DEF x
<1>8. c \in Contexts /\ c # fs[f].timer /\ b.ctx[c].ref = 0
  BY <1>1, <1>2, AcquiredFree
<1>9. c # a
  BY <1>1, <1>8, NoCtxContext DEF ShotOK, Mine
<1> HIDE DEF c
<1>10. Private(fs, f, c)
  BY <1>1, <1>8, PrivateContexts
<1>11. FreshContext(x, f, reqs)
  BY <1>3, <1>4 DEF FreshContext
<1>12. FreshKinds(x, reqs)
  BY <1>3, <1>4 DEF FreshKinds, BufferKinds
<1>13. ContextOK(b, c, 0)
  <2>1. ContextOK(b, c, Held(Counting(fs, f, s), b.event)[c])
    BY <1>1, <1>8 DEF Between, Good
  <2>2. Held(Counting(fs, f, s), b.event)[c] = 0
    BY <1>8, <2>1 DEF ContextOK, FreeOK
  <2>3. QED
    BY <2>1, <2>2
<1>14. Settles(b1, c, 1) /\ b1.ctx[c] = x /\ ~Doomed(b1, c) /\ ReqsOf(b1, c) = reqs
  BY <1>2, <1>3, <1>7, <1>8, <1>11, <1>12, <1>13, TakenUp DEF IssuedAs
<1>15. EventKeeps(b1, b2, c) /\ Wf(b1)
  BY <1>5, <1>7, <1>8, WithEvent DEF IssuedAs, Touches
<1>16. Touches(b1, b2, c)
  BY <1>15 DEF EventKeeps, Touches, OthersKept
<1>17. Touches(b, b2, c)
  BY <1>7, <1>16, TouchesTwice DEF IssuedAs
<1>18. Untouched(b1, b2, c)
  <2>1. b1.cq \in Seq(Completions) /\ b2.cq = b1.cq
    BY <1>15, BackendFields DEF Wf, EventKeeps, SameRest
  <2>2. Moved(b1, b2, c, 0)
    BY <2>1, MovedNone
  <2>3. QED
    BY <1>8, <1>15, <2>2 DEF Untouched, EventKeeps
<1>19. Settles(b2, c, 1)
  BY <1>14, <1>15, <1>18, UntouchedContext DEF Settles, EventKeeps, Wf
<1>20. EventOK(b2)
  <2>1. ReqsOf(b2, c) = <<EventRequest>> /\ ~Doomed(b2, c) /\ b2.ctx[c] = x /\ b2.event = c
    BY <1>8, <1>14, <1>15 DEF EventKeeps, SameChain, reqs
  <2>2. QED
    BY <1>4, <1>8, <2>1, NotMultishot DEF EventOK
<1>21. \A g \in Fibers : g # f => ~IsWaiter(fs[g])
  BY <1>1 DEF Between, FiberOK, AwaitOK, IsWaiter
<1>22. EventMoves(b, b2, fs, f, c)
  BY <1>15, <1>20, <1>21 DEF EventMoves, EventKeeps
<1>23. HeldAlike(b, b2, fs, f, s, t, c)
  <2>1. b2.event \in {c, NoCtx} /\ b.event \in {c, NoCtx}
    BY <1>15 DEF EventKeeps
  <2>2. QED
    BY <1>1, <2>1, OtherEvent DEF HeldAlike
<1>24. HoldersOf(Counting(fs, f, t), c, c) = 1
  <2>1. HoldersOf(Counting(fs, f, t), c, c) = Cardinality(EventWaiters(Counting(fs, f, t)))
    BY <1>1, <1>8, <1>9, <1>10, EventHolders
  <2>2. EventWaiters(Counting(fs, f, t)) = {f}
    <3>1. Counting(fs, f, t)[f] = t /\ \A g \in Fibers : g # f => Counting(fs, f, t)[g] = fs[g]
      BY <1>1, CountingType DEF Watch
    <3>2. QED
      BY <1>21, <3>1 DEF EventWaiters, IsWaiter, Watch
  <2>3. QED
    BY <2>1, <2>2, FS_Singleton
<1>25. Settles(b2, c, HoldersOf(Counting(fs, f, t), b2.event, c))
  <2>1. b2.event = c
    BY <1>15 DEF EventKeeps
  <2>2. QED
    BY <1>19, <1>24, <2>1
<1>26. Mid(b2, fs, f, t)
  BY <1>1, <1>8, <1>10, <1>17, <1>22, <1>23, <1>25, MidTouched DEF Watch
<1>27. Dooms(b2)
  <2>1. ~Doomed(b2, c)
    BY <1>8, <1>14, <1>15 DEF EventKeeps, SameChain
  <2>2. QED
    BY <1>1, <1>2, <1>8, <1>17, <2>1, TouchedDooms
<1>28. SqOK(b2)
  BY <1>7, <1>15, SameSqOK DEF EventKeeps
<1>29. b2.event = c
  BY <1>15 DEF EventKeeps
<1>30. Steady(b2, f, a)
  BY <1>1, <1>8, <1>9, <1>17, <1>27, <1>28, <1>29, SteadyTouched
<1>31. QED
  BY <1>8, <1>17, <1>26, <1>29, <1>30, NoCtxContext DEF Calm, Touches, OthersKept

\* The count of references does not reach the value that marks a multishot
\* accept.
FewFibers == Cardinality(Fibers) + 4 < MULTISHOT_REFCOUNT

\* What is known of the event's context: its poll, and those that wait.
EventKnown(b, f, s, c) ==
    /\ c \in Contexts /\ Private(fs, f, c) /\ Out(b, c) = 1
    /\ ContextOK(b, c, HoldersOf(Counting(fs, f, s), c, c))
    /\ b.ctx[c].ref = HoldersOf(Counting(fs, f, s), c, c) + 1
    /\ b.ctx[c].ref + 1 < MULTISHOT_REFCOUNT
    /\ HoldersOf(Counting(fs, f, s), c, c) = Cardinality(EventWaiters(Counting(fs, f, s)))
    /\ HoldersOf(Counting(fs, f, s), c, c) \in Nat
    /\ b.ctx[c].type = "POLL" /\ ReqsOf(b, c) = <<EventRequest>> /\ ~Doomed(b, c)

LEMMA EventContext ==
  ASSUME FewFibers, NEW f \in Fibers, NEW b, NEW s, NEW w, NEW a, Calm(b, f, s, w, a),
         b.event # NoCtx
  PROVE  EventKnown(b, f, s, b.event) /\ b.event # a /\ b.event # fs[f].timer
<1> DEFINE c == b.event
           n == HoldersOf(Counting(fs, f, s), c, c)
<1>1. /\ fs \in [Fibers -> FiberStates] /\ EventOK(b) /\ Wf(b)
      /\ Between(b, fs, f, Held(Counting(fs, f, s), b.event))
      /\ Watch(s, w, a, fs[f].timer) /\ TimerOK(b, f, fs[f]) /\ ShotOK(b, f, a)
  BY DEF Calm, Steady, Mid, Between, Good
<1>2. /\ c \in Contexts /\ ReqsOf(b, c) = <<EventRequest>> /\ ~Doomed(b, c)
      /\ b.ctx[c].ref \notin {0, MULTISHOT_REFCOUNT} /\ b.ctx[c].type = "POLL"
  BY <1>1 DEF EventOK
<1>3. c # a /\ c # fs[f].timer
  BY <1>1, <1>2, NoCtxContext DEF ShotOK, TimerOK, Mine
<1>4. Private(fs, f, c)
  BY <1>1, <1>2, PrivateContexts
<1>5. ContextOK(b, c, n)
  BY <1>1, <1>2 DEF Between, Good, Held
<1>6. n = Cardinality(EventWaiters(Counting(fs, f, s))) /\ n \in Nat /\ n <= Cardinality(Fibers)
  BY <1>1, <1>2, <1>3, <1>4, EventHolders
<1> HIDE DEF n
<1>7. b.ctx[c].ref = Out(b, c) + n /\ Out(b, c) <= 1
  BY <1>2, <1>5 DEF ContextOK, CountOK
<1>8. Out(b, c) = 1
  <2>1. Len(ReqsOf(b, c)) = 1
    BY <1>2
  <2>2. Out(b, c) = Len(ReqsOf(b, c)) + Done(b, c) /\ Done(b, c) \in Nat
    BY <1>1, <1>2, OutType DEF Wf
  <2>3. Out(b, c) = 1 + Done(b, c)
    BY <2>1, <2>2, Zenon
  <2>4. QED
    BY <1>7, <2>2, <2>3
<1>9. b.ctx[c].ref = n + 1
  <2>1. b.ctx[c].ref = 1 + n
    BY <1>7, <1>8
  <2>2. QED
    BY <1>6, <2>1
<1>10. Cardinality(Fibers) \in Nat
  BY BackendAssumption, FS_CardinalityType
<1>11. b.ctx[c].ref + 1 < MULTISHOT_REFCOUNT
  BY <1>6, <1>9, <1>10 DEF FewFibers, MULTISHOT_REFCOUNT
<1>12. QED
  BY <1>2, <1>3, <1>4, <1>5, <1>6, <1>8, <1>9, <1>11 DEF EventKnown, n

\* The event stays while one of its references comes or goes.
LEMMA EventCounts ==
  ASSUME FewFibers, NEW f \in Fibers, NEW b, NEW s, NEW v, NEW a, Calm(b, f, s, v, a),
         b.event # NoCtx, NEW c, c = b.event, NEW w, NEW t, Watch(t, w, a, fs[f].timer),
         NEW b2, Touches(b, b2, c), b2.event = b.event, SameChain(b, b2, c), SameSq(b, b2),
         Settles(b2, c, HoldersOf(Counting(fs, f, t), c, c)),
         b2.ctx[c].ref \notin {0, MULTISHOT_REFCOUNT}, b2.ctx[c].type = "POLL"
  PROVE  Calm(b2, f, t, w, a)
<1>1. /\ Mid(b, fs, f, s) /\ Steady(b, f, a) /\ Dooms(b) /\ SqOK(b) /\ Wf(b)
      /\ fs \in [Fibers -> FiberStates] /\ Watch(s, v, a, fs[f].timer)
      /\ \A g \in Fibers : g # f /\ IsWaiter(fs[g]) => b.event # NoCtx
  BY DEF Calm, Steady, Mid, Between, Good
<1>2. EventKnown(b, f, s, c) /\ c # a /\ c # fs[f].timer
  BY EventContext
<1>3. EventOK(b2)
  BY <1>2 DEF EventOK, EventKnown, SameChain
<1>4. EventMoves(b, b2, fs, f, c)
  BY <1>1, <1>3 DEF EventMoves
<1>5. HeldAlike(b, b2, fs, f, s, t, c)
  <2>1. b2.event \in {c, NoCtx} /\ b.event \in {c, NoCtx}
    OBVIOUS
  <2>2. QED
    BY <1>1, <2>1, OtherEvent DEF HeldAlike
<1>6. Settles(b2, c, HoldersOf(Counting(fs, f, t), b2.event, c))
  OBVIOUS
<1>7. c \in Contexts /\ Private(fs, f, c) /\ t \in FiberStates
  BY <1>2 DEF EventKnown, Watch
<1>8. Mid(b2, fs, f, t)
  BY <1>1, <1>4, <1>5, <1>6, <1>7, MidTouched
<1>9. Dooms(b2) /\ SqOK(b2)
  <2>1. ~Doomed(b2, c)
    BY <1>2 DEF EventKnown, SameChain
  <2>2. QED
    BY <1>1, <1>7, <2>1, TouchedDooms, SameSqOK
<1>10. Steady(b2, f, a)
  BY <1>1, <1>2, <1>9, SteadyTouched
<1>11. QED
  BY <1>8, <1>10 DEF Calm

\* The others take a reference of it.
LEMMA EventMore ==
  ASSUME FewFibers, NEW f \in Fibers, NEW b, NEW s, NEW a, Calm(b, f, s, 0, a),
         b.event # NoCtx, NEW t, Watch(t, 1, a, fs[f].timer), NEW b2, b2 = EventBegin(b, f)
  PROVE  Calm(b2, f, t, 1, a) /\ b2.event # NoCtx /\ SameRest(b, b2)
<1> DEFINE c == b.event
           n == HoldersOf(Counting(fs, f, s), c, c)
           k == b.ctx[c].ref + 1
           y == [b.ctx[c] EXCEPT !.ref = k]
<1>1. EventKnown(b, f, s, c) /\ c # a /\ c # fs[f].timer /\ Wf(b) /\ b \in Backends
  BY EventContext DEF Calm, Mid, Between, Good, Wf
<1>2. c \in Contexts /\ b.ctx[c] \in ContextRecords /\ b.ctx[c].ref = n + 1 /\ n \in Nat
      /\ ContextOK(b, c, n) /\ Out(b, c) = 1 /\ b.ctx[c].type = "POLL"
  BY <1>1, ContextFields DEF EventKnown
<1>3. HoldersOf(Counting(fs, f, t), c, c) = n + 1
  <2>1. fs \in [Fibers -> FiberStates] /\ Watch(s, 0, a, fs[f].timer)
    BY DEF Calm, Mid, Between
  <2>2. QED
    BY <1>1, <1>2, <2>1, EventRecount
<1>4. k \in Nat /\ k # 0 /\ k # MULTISHOT_REFCOUNT /\ k = n + 2
  <2>1. k < MULTISHOT_REFCOUNT
    BY <1>1 DEF EventKnown
  <2>2. QED
    BY <1>2, <2>1 DEF MULTISHOT_REFCOUNT
<1>5. IsPut(b, b2, c, y)
  BY DEF EventBegin, IsPut
<1> HIDE DEF n, k
<1>6. /\ y \in ContextRecords /\ y.ref = k /\ y.fiber = b.ctx[c].fiber /\ y.type = "POLL"
      /\ y.resume = b.ctx[c].resume /\ y.buffers = b.ctx[c].buffers
  BY <1>2, <1>4 DEF ContextRecords
<1> HIDE DEF y
<1>7. FreeAlike(b.ctx[c], y)
  BY <1>2, <1>4, <1>6 DEF FreeAlike
<1>8. PutKeeps(b, b2, c, y)
  BY <1>1, <1>2, <1>5, <1>6, <1>7, WithRecord
<1>9. Touches(b, b2, c) /\ b2.event = c /\ SameChain(b, b2, c) /\ SameSq(b, b2) /\ b2.ctx[c] = y
  BY <1>2, <1>8 DEF PutKeeps, Touches, SameSq
<1>10. Answers(b2, c) = Answers(b, c) /\ b2.cq = b.cq /\ Out(b2, c) = Out(b, c)
       /\ ReqsOf(b2, c) = ReqsOf(b, c)
  BY <1>9 DEF Touches, OthersKept, SameRest, Answers, Out, Done, SameChain
<1>11. Settles(b2, c, n + 1)
  <2>1. /\ CountOK(b, c, n) /\ KeptOK(b, c, n) /\ b.ctx[c].fiber \in Fibers
        /\ b.ctx[c].resume = "timeout" => b.ctx[c].type = "TIMEOUT"
    <3>1. b.ctx[c].ref \notin {0, MULTISHOT_REFCOUNT}
      BY <1>1, <1>2 DEF EventKnown, MULTISHOT_REFCOUNT
    <3>2. QED
      BY <1>2, <3>1 DEF ContextOK
  <2>2. b2.ctx[c].ref = Out(b2, c) + (n + 1)
    BY <1>2, <1>4, <1>6, <1>9, <1>10
  <2>7. b2.ctx[c].type = b.ctx[c].type /\ b.ctx[c].type \notin BufferKinds \cup {"CHAIN", "SPLICE"}
    BY <1>2, <1>6, <1>9 DEF BufferKinds
  <2>3. CountOK(b2, c, n + 1)
    <3>1. /\ \A i \in Answers(b2, c) : ~b2.cq[i].more
          /\ \A i \in DOMAIN ReqsOf(b2, c) : ReqsOf(b2, c)[i].kind # "MULTISHOT_ACCEPT"
      BY <1>10, <2>1, Zenon DEF CountOK
    <3>2. Out(b2, c) <= 4 /\ Out(b2, c) <= 1
      BY <1>2, <1>10
    <3>3. QED
      BY <2>2, <3>1, <3>2, Zenon DEF CountOK
  <2>4. KeptOK(b2, c, n + 1)
    BY <1>10, <2>1, <2>7, Zenon DEF KeptOK
  <2>5. ContextOK(b2, c, n + 1)
    BY <1>2, <1>4, <1>6, <1>9, <2>1, <2>3, <2>4 DEF ContextOK
  <2>6. QED
    BY <1>2, <2>5 DEF Settles
<1>12. Settles(b2, c, HoldersOf(Counting(fs, f, t), c, c))
  BY <1>3, <1>11
<1>13. Calm(b2, f, t, 1, a)
  BY <1>4, <1>6, <1>9, <1>12, EventCounts
<1>14. QED
  BY <1>9, <1>13 DEF Touches, OthersKept

LEMMA EventBeginStep ==
  ASSUME FewFibers, NEW f \in Fibers, NEW b, NEW s, NEW a, Calm(b, f, s, 0, a),
         CanWaitEvent(b), NEW t, Watch(t, 1, a, fs[f].timer), NEW b2, b2 = EventBegin(b, f)
  PROVE  Calm(b2, f, t, 1, a) /\ b2.event # NoCtx /\ SameRest(b, b2)
  BY EventFirst, EventMore DEF CanWaitEvent

\* The last that waits cancels the poll.
LEMMA EventDropped ==
  ASSUME FewFibers, NEW f \in Fibers, NEW b, NEW s, NEW a, Calm(b, f, s, 0, a),
         NEW c, c = b.event, c # NoCtx, b.ctx[c].ref = 1,
         NEW b1, b1 = io_uring_backend_immediate_submit(prep_cancel(b, c)),
         NEW b2, IsEvent(b1, b2, NoCtx)
  PROVE  Calm(b2, f, s, 0, a) /\ SameRest(b, b2)
<1> DEFINE b0 == prep_cancel(b, c)
<1>1. /\ Mid(b, fs, f, s) /\ Steady(b, f, a) /\ Dooms(b) /\ SqOK(b) /\ Wf(b)
      /\ fs \in [Fibers -> FiberStates] /\ Watch(s, 0, a, fs[f].timer)
  BY DEF Calm, Steady, Mid, Between, Good
<1>2. EventKnown(b, f, s, c) /\ c # a /\ c # fs[f].timer
  BY EventContext
<1>3. c \in Contexts /\ Private(fs, f, c)
  BY <1>2 DEF EventKnown
<1>4. /\ Wf(b0) /\ SameRest(b, b0) /\ SameContexts(b, b0)
      /\ \A d \in Contexts : d # c => SameChain(b, b0, d)
      /\ ReqsOf(b0, c) = ReqsOf(b, c)
  BY <1>1, <1>3, PreparedCancel
<1> HIDE DEF b0
<1>5. /\ Wf(b1) /\ SameRest(b0, b1) /\ SameContexts(b0, b1) /\ b1.sq = <<>> /\ b1.pending = 0
      /\ \A d \in Contexts : SameChain(b0, b1, d)
  BY <1>4, Flushed DEF b0
<1>6. EventKeeps(b1, b2, NoCtx)
  BY <1>5, WithEvent
<1>7. /\ b2.ctx = b.ctx /\ ReqsOf(b2, c) = ReqsOf(b, c) /\ b2.sq = <<>> /\ b2.pending = 0
      /\ b2.event = NoCtx /\ Wf(b2) /\ SameRest(b, b2)
  BY <1>3, <1>4, <1>5, <1>6 DEF EventKeeps, SameContexts, SameChain, SameSq, SameRest
<1>8. Touches(b, b2, c)
  <2>1. \A d \in Contexts : d # c => SameChain(b, b2, d)
    BY <1>4, <1>5, <1>6 DEF EventKeeps, SameChain, SameAsked
  <2>2. QED
    BY <1>7, <2>1 DEF Touches, OthersKept
<1>9. HoldersOf(Counting(fs, f, s), c, c) = 0 /\ ContextOK(b, c, 0)
  <2>1. b.ctx[c].ref = HoldersOf(Counting(fs, f, s), c, c) + 1
        /\ HoldersOf(Counting(fs, f, s), c, c) \in Nat
        /\ ContextOK(b, c, HoldersOf(Counting(fs, f, s), c, c))
    BY <1>2 DEF EventKnown
  <2>2. HoldersOf(Counting(fs, f, s), c, c) = 0
    BY <2>1
  <2>3. QED
    BY <2>1, <2>2
<1>10. Settles(b2, c, 0)
  <2>1. Answers(b2, c) = Answers(b, c) /\ b2.cq = b.cq /\ Out(b2, c) = Out(b, c)
        /\ ReqsOf(b2, c) = ReqsOf(b, c) /\ b2.ctx[c] = b.ctx[c]
    BY <1>7 DEF SameRest, Answers, Out, Done
  <2>2. 1 # MULTISHOT_REFCOUNT
    BY NotMultishot
  <2>3. CountOK(b, c, 0) /\ KeptOK(b, c, 0)
    BY <1>9, <2>2 DEF ContextOK
  <2>4. CountOK(b2, c, 0)
    BY <2>1, <2>3, Zenon DEF CountOK
  <2>5. KeptOK(b2, c, 0)
    BY <2>1, <2>3, Zenon DEF KeptOK
  <2>6. ContextOK(b2, c, 0)
    BY <1>9, <2>1, <2>2, <2>4, <2>5 DEF ContextOK
  <2>7. QED
    BY <2>6 DEF Settles
<1>11. \A g \in Fibers : g # f => ~IsWaiter(fs[g])
  <2>1. EventWaiters(Counting(fs, f, s)) = {}
    <3>1. Cardinality(EventWaiters(Counting(fs, f, s))) = 0
      BY <1>2, <1>9 DEF EventKnown
    <3>2. IsFiniteSet(EventWaiters(Counting(fs, f, s)))
      BY BackendAssumption, FS_Subset DEF EventWaiters
    <3>3. QED
      BY <3>1, <3>2, FS_EmptySet
  <2>2. \A g \in Fibers : g # f => Counting(fs, f, s)[g] = fs[g]
    BY <1>1, CountingType DEF Watch
  <2>3. QED
    BY <2>1, <2>2 DEF EventWaiters, IsWaiter
<1>12. EventMoves(b, b2, fs, f, c)
  BY <1>7, <1>11 DEF EventMoves, EventOK
<1>13. HeldAlike(b, b2, fs, f, s, s, c)
  <2>1. b2.event \in {c, NoCtx} /\ b.event \in {c, NoCtx}
    BY <1>7
  <2>2. QED
    BY <1>1, <2>1, OtherEvent DEF HeldAlike
<1>14. Settles(b2, c, HoldersOf(Counting(fs, f, s), b2.event, c))
  <2>1. HoldersOf(Counting(fs, f, s), NoCtx, c) = 0
    BY <1>1, <1>2, <1>3, EventHolders
  <2>2. QED
    BY <1>7, <1>10, <2>1
<1>15. Mid(b2, fs, f, s)
  BY <1>1, <1>3, <1>8, <1>12, <1>13, <1>14, MidTouched DEF Watch
<1>16. Dooms(b2) /\ SqOK(b2)
  BY <1>7, FlushedDooms, BackendAssumption DEF SqOK
<1>17. Steady(b2, f, a)
  BY <1>1, <1>2, <1>7, <1>8, <1>16, SteadyTouched
<1>18. QED
  BY <1>1, <1>7, <1>15, <1>17 DEF Calm

LEMMA EventEndStep ==
  ASSUME FewFibers, NEW f \in Fibers, NEW b, NEW s, NEW a, Calm(b, f, s, 1, a),
         b.event # NoCtx, NEW t, Watch(t, 0, a, fs[f].timer), NEW b2, b2 = EventEnd(b)
  PROVE  Calm(b2, f, t, 0, a) /\ SameRest(b, b2)
<1> DEFINE c == b.event
           b1 == context_store_release(b, c)
           n == HoldersOf(Counting(fs, f, t), c, c)
<1>1. EventKnown(b, f, s, c) /\ c # a /\ c # fs[f].timer /\ Wf(b)
  BY EventContext DEF Calm, Mid, Between, Good, Wf
<1>2. HoldersOf(Counting(fs, f, s), c, c) = n + 1 /\ n \in Nat
  <2>1. fs \in [Fibers -> FiberStates] /\ Watch(s, 1, a, fs[f].timer)
    BY DEF Calm, Mid, Between
  <2>2. QED
    BY <1>1, <2>1, EventRecount DEF EventKnown
<1>3. /\ c \in Contexts /\ b.ctx[c].ref = n + 1 + 1 /\ b.ctx[c].ref + 1 < MULTISHOT_REFCOUNT
      /\ ContextOK(b, c, n + 1) /\ b.ctx[c].type = "POLL"
  BY <1>1, <1>2 DEF EventKnown
<1> HIDE DEF n
<1>4. /\ b.ctx[c].ref # 0 /\ b.ctx[c].ref # 1 /\ b.ctx[c].ref # MULTISHOT_REFCOUNT
      /\ b.ctx[c].ref # MULTISHOT_REFCOUNT + 1 /\ b.ctx[c].ref - 1 # MULTISHOT_REFCOUNT
      /\ b.ctx[c].ref - 1 # 0
  BY <1>2, <1>3 DEF MULTISHOT_REFCOUNT
<1>5. Counted1(b.ctx[c])
  BY <1>4 DEF Counted1
<1>6. GaveUp(b, b1, c) /\ SameSq(b, b1) /\ SameChain(b, b1, c)
  BY <1>1, <1>3, <1>5, ReleasedGaveUp
<1>7. b2 = IF b1.ctx[c].ref = 1
           THEN [io_uring_backend_immediate_submit(prep_cancel(b1, c)) EXCEPT !.event = NoCtx]
           ELSE b1
  BY DEF EventEnd
<1> HIDE DEF b1
<1>8. b1.ctx[c].ref = b.ctx[c].ref - 1 /\ b1.ctx[c].type = "POLL" /\ b1.event = c
      /\ Touches(b, b1, c)
  BY <1>3, <1>4, <1>6 DEF GaveUp
<1>9. BuffersKept(b, b1, c)
  BY <1>3 DEF BuffersKept, BufferKinds
<1>10. Settles(b1, c, n)
  BY <1>1, <1>2, <1>3, <1>4, <1>5, <1>6, <1>9, GivenUp
<1>11. Calm(b1, f, t, 0, a)
  <2>1. Settles(b1, c, HoldersOf(Counting(fs, f, t), c, c))
    BY <1>10 DEF n
  <2>2. b1.ctx[c].ref \notin {0, MULTISHOT_REFCOUNT}
    BY <1>4, <1>8
  <2>3. QED
    BY <1>6, <1>8, <2>1, <2>2, EventCounts
<1>12. SameRest(b, b1)
  BY <1>8 DEF Touches, OthersKept
<1>13. CASE b1.ctx[c].ref = 1
  <2> DEFINE b3 == io_uring_backend_immediate_submit(prep_cancel(b1, c))
  <2>1. IsEvent(b3, b2, NoCtx)
    BY <1>7, <1>13 DEF IsEvent
  <2>2. b3 = io_uring_backend_immediate_submit(prep_cancel(b1, c))
    OBVIOUS
  <2> HIDE DEF b3
  <2>3. Calm(b2, f, t, 0, a) /\ SameRest(b1, b2)
    BY <1>8, <1>11, <1>13, <2>1, <2>2, EventDropped
  <2>4. QED
    BY <1>12, <2>3 DEF SameRest
<1>14. CASE b1.ctx[c].ref # 1
  BY <1>7, <1>11, <1>12, <1>14
<1>15. QED
  BY <1>13, <1>14

\* The fiber does not wait, and holds the context a.
Idling(f, a) == [fs[f] EXCEPT !.op = "snooze", !.pc = "await", !.ctx = NoCtx, !.aux = a]

LEMMA IdlingWatch ==
  ASSUME NEW f, fs[f] \in FiberStates, NEW a \in Contexts \cup {NoCtx}
  PROVE  Watch(Idling(f, a), 0, a, fs[f].timer)
<1>1. "snooze" \in OpNames /\ "snooze" \notin EventOps
  BY DEF OpNames, EventOps
<1> DEFINE s == Idling(f, a)
<1>2. s \in FiberStates
  BY <1>1 DEF Idling, FiberStates, NoCtx
<1>3. s.op = "snooze" /\ s.pc = "await" /\ s.ctx = NoCtx /\ s.aux = a /\ s.timer = fs[f].timer
  BY DEF Idling, FiberStates
<1> HIDE DEF s
<1>4. ~ IsWaiter(s)
  BY <1>1, <1>3 DEF IsWaiter
<1>5. QED
  BY <1>2, <1>3, <1>4 DEF Watch, s

LEMMA IdleUses ==
  ASSUME NEW f \in Fibers, fs[f] \in FiberStates, NEW s, Watch(s, 0, NoCtx, fs[f].timer), NEW e
  PROVE  SameUses(s, Left(fs[f]), e) /\ SameUses(Left(fs[f]), s, e)
<1>1. Left(fs[f]).pc = "app" /\ Left(fs[f]).timer = fs[f].timer
  BY LeftFields DEF AtRest
<1>2. ASSUME NEW d \in Contexts PROVE Uses(s, d, e) = Uses(Left(fs[f]), d, e)
  <2>1. Uses(s, d, e) = One(d = NoCtx) + One(fs[f].timer = d) + One(d = e /\ 0 = 1)
    BY WatchUses
  <2>2. One(d = NoCtx) = 0 /\ One(d = e /\ 0 = 1) = 0 /\ One(fs[f].timer = d) \in Nat
    BY NoCtxContext DEF One
  <2>3. Uses(Left(fs[f]), d, e) = One(fs[f].timer = d)
    BY <1>1, RestUses
  <2>4. QED
    BY <2>1, <2>2, <2>3
<1>3. QED
  BY <1>2 DEF SameUses

LEMMA ReadyCalm ==
  ASSUME NEW f \in Fibers, NEW b, Ready(b, f)
  PROVE  Calm(b, f, Idling(f, NoCtx), 0, NoCtx)
<1> DEFINE s == Idling(f, NoCtx)
<1>1. fs[f] \in FiberStates /\ Mid(b, fs, f, Left(fs[f]))
  BY DEF Ready, Mid, Between
<1>2. Watch(s, 0, NoCtx, fs[f].timer)
  BY <1>1, IdlingWatch
<1> HIDE DEF s
<1>3. SameUses(Left(fs[f]), s, b.event) /\ s \in FiberStates
  BY <1>1, <1>2, IdleUses DEF Watch
<1>4. Mid(b, fs, f, s)
  BY <1>1, <1>3, MidSameUses
<1>5. Steady(b, f, NoCtx)
  BY DEF Ready, Steady, ShotOK
<1>6. QED
  BY <1>2, <1>4, <1>5 DEF Calm, s

LEMMA CalmReady ==
  ASSUME NEW f \in Fibers, NEW b, NEW s, Calm(b, f, s, 0, NoCtx), b.sched[f] = NoValue
  PROVE  Ready(b, f)
<1>1. Mid(b, fs, f, s) /\ fs[f] \in FiberStates /\ Watch(s, 0, NoCtx, fs[f].timer)
  BY DEF Calm, Mid, Between
<1>2. SameUses(s, Left(fs[f]), b.event) /\ Left(fs[f]) \in FiberStates
  BY <1>1, IdleUses, LeftFields DEF AtRest
<1>3. Mid(b, fs, f, Left(fs[f]))
  BY <1>1, <1>2, MidSameUses
<1>4. QED
  BY <1>3 DEF Ready, Calm, Steady

\* The fiber switches out.
EventState(t, a) ==
    /\ t.op = "accept_loop" <=> a # NoCtx
    /\ t.op = "accept_queued" => t.queue \in Fibers

LEMMA CalmAwait ==
  ASSUME NEW f \in Fibers, NEW b, NEW t, NEW a, Calm(b, f, t, 1, a), b.event # NoCtx,
         EventState(t, a), bk' = b, cur' = NoFiber, fs' = [fs EXCEPT ![f] = t]
  PROVE  UInv'
<1>1. /\ Mid(b, fs, f, t) /\ Dooms(b) /\ SqOK(b) /\ TimerOK(b, f, fs[f]) /\ ShotOK(b, f, a)
      /\ b.sched[f] # "timeout"
  BY DEF Calm, Steady, NoValue
<1>2. /\ t \in FiberStates /\ t.pc = "await" /\ t.ctx = NoCtx /\ t.aux = a
      /\ t.timer = fs[f].timer /\ t.op \in EventOps
  BY DEF Calm, Watch, IsWaiter
<1>3. t.op \notin OneRequestOps \cup ReadWriteOps \cup PlainOps \cup WriteOps \cup ChainOps
         \cup {"timer_loop", "double_splice", "snooze", "chain", "splice_chunks"}
  BY <1>2 DEF OneRequestOps, ReadWriteOps, PlainOps, WriteOps, ReadOps, ChainOps, EventOps
<1>4. AwaitOK(b, f, t)
  BY <1>1, <1>2, <1>3 DEF AwaitOK, EventState, ShotOK
<1>5. t.timer # NoCtx => t.timer \notin {t.ctx, t.aux}
  BY <1>1, <1>2 DEF ShotOK
<1>6. FiberOK(b, f, t)
  BY <1>1, <1>2, <1>4, <1>5 DEF FiberOK, TimerOK
<1>7. BackendOK(b, [fs EXCEPT ![f] = t])
  BY <1>1, <1>6, Leave
<1>8. QED
  BY <1>1, <1>7, BackendAssumption DEF UInv

\* The fiber comes back from its wait.
LEMMA EventBack ==
  ASSUME UInv, NEW f \in Fibers, NEW o \in EventOps, Resumes(f, o)
  PROVE  /\ Calm(Unscheduled(f), f, fs[f], 1, fs[f].aux) /\ Unscheduled(f).event # NoCtx
         /\ Unscheduled(f).sched[f] = NoValue /\ EventState(fs[f], fs[f].aux)
         /\ fs[f] \in FiberStates /\ fs[f].aux \in Contexts \cup {NoCtx}
         /\ Unscheduled(f) \in Backends
<1> DEFINE b == Unscheduled(f)
<1>1. BackendOK(bk, fs) /\ SqOK(bk) /\ FiberOK(bk, f, fs[f]) /\ fs[f] \in FiberStates
  BY InvParts DEF UInv
<1>2. Back(b, f)
  BY <1>1, UnscheduledStep
<1> HIDE DEF b
<1>3. fs[f].pc = "await" /\ fs[f].op = o /\ AwaitOK(bk, f, fs[f])
  BY <1>1 DEF Resumes, FiberOK
<1>4. /\ fs[f].ctx = NoCtx /\ bk.event # NoCtx
      /\ o # "accept_loop" => fs[f].aux = NoCtx
      /\ o = "accept_loop" =>
            /\ fs[f].aux # NoCtx /\ Mine(bk, f, fs[f].aux)
            /\ bk.ctx[fs[f].aux].ref = MULTISHOT_REFCOUNT
      /\ o = "accept_queued" => fs[f].queue \in Fibers
  BY <1>3 DEF AwaitOK
<1>5. b.event = bk.event /\ b.ctx = bk.ctx /\ b.sched[f] = NoValue
  BY <1>2 DEF Back, SameUring, SameContexts
<1>6. Watch(fs[f], 1, fs[f].aux, fs[f].timer)
  BY <1>1, <1>3, <1>4 DEF Watch, IsWaiter
<1>7. ShotOK(b, f, fs[f].aux)
  <2>1. fs[f].aux # NoCtx => fs[f].aux # fs[f].timer
    BY <1>1 DEF FiberOK
  <2>2. QED
    BY <1>4, <1>5, <2>1 DEF ShotOK, Mine
<1>8. Calm(b, f, fs[f], 1, fs[f].aux)
  BY <1>2, <1>6, <1>7 DEF Calm, Steady, Back
<1>9. EventState(fs[f], fs[f].aux)
  BY <1>3, <1>4 DEF EventState
<1>10. fs[f].aux \in Contexts \cup {NoCtx}
  BY <1>1 DEF FiberStates
<1>11. b \in Backends
  BY <1>2 DEF Back, SameUring
<1>12. QED
  BY <1>1, <1>4, <1>5, <1>8, <1>9, <1>10, <1>11 DEF b

\* The state of a fiber that begins to wait.
LEMMA EnteredWatch ==
  ASSUME NEW f \in Fibers, fs[f] \in FiberStates, fs[f].ctx = NoCtx, NEW o \in EventOps,
         NEW a \in Contexts \cup {NoCtx}, NEW q \in Fibers \cup {NoFiber}, NEW t,
         t = [[Entered(f, o) EXCEPT !.aux = a, !.queue = q] EXCEPT !.pc = "await"]
  PROVE  Watch(t, 1, a, fs[f].timer) /\ t.op = o /\ t.queue = q
<1>1. o \in OpNames
  BY DEF OpNames
<1>2. /\ Entered(f, o) \in FiberStates /\ Entered(f, o).op = o
      /\ Entered(f, o).ctx = NoCtx /\ Entered(f, o).timer = fs[f].timer
  BY <1>1, EnteredFields
<1>3. QED
  BY <1>2 DEF Watch, IsWaiter, FiberStates

LEMMA StartEventAction ==
  ASSUME FewFibers, UInv, NEW f \in Fibers, StartEvent(f)
  PROVE  UInv'
<1> DEFINE s == Entered(f, "wait_event")
           t == [s EXCEPT !.pc = "await"]
           b2 == EventBegin(bk, f)
<1>1. /\ cur = f /\ CanWaitEvent(bk) /\ bk' = b2 /\ cur' = NoFiber
      /\ fs' = [fs EXCEPT ![f] = t]
  BY DEF StartEvent, Running, Await
<1>2. Ready(bk, f) /\ fs[f] \in FiberStates /\ fs[f].ctx = NoCtx /\ fs[f].aux = NoCtx
  BY <1>1, RunningReady
<1>3. Calm(bk, f, Idling(f, NoCtx), 0, NoCtx)
  BY <1>2, ReadyCalm
<1>4. Watch(t, 1, NoCtx, fs[f].timer) /\ t.op = "wait_event"
  <2>1. "wait_event" \in OpNames /\ "wait_event" \in EventOps
    BY DEF OpNames, EventOps
  <2>2. /\ s \in FiberStates /\ s.op = "wait_event" /\ s.ctx = NoCtx /\ s.aux = NoCtx
        /\ s.timer = fs[f].timer
    BY <1>2, <2>1, EnteredFields
  <2> HIDE DEF s
  <2>3. QED
    BY <2>1, <2>2 DEF Watch, IsWaiter, FiberStates
<1> HIDE DEF t, b2
<1>5. Calm(b2, f, t, 1, NoCtx) /\ b2.event # NoCtx
  BY <1>1, <1>3, <1>4, EventBeginStep DEF b2
<1>6. EventState(t, NoCtx)
  BY <1>4 DEF EventState
<1>7. QED
  BY <1>1, <1>5, <1>6, CalmAwait

LEMMA WaitEventAction ==
  ASSUME FewFibers, UInv, NEW f \in Fibers, Backend_wait_event(f)
  PROVE  UInv'
<1> DEFINE b == Unscheduled(f)
           b2 == EventEnd(b)
<1>1. Resumes(f, "wait_event") /\ (Return(f, b2) \/ Raise(f, b2))
  BY DEF Backend_wait_event
<1>2. /\ Calm(b, f, fs[f], 1, fs[f].aux) /\ b.event # NoCtx /\ b.sched[f] = NoValue
      /\ EventState(fs[f], fs[f].aux) /\ fs[f] \in FiberStates
  BY <1>1, EventBack DEF EventOps
<1>3. fs[f].aux = NoCtx
  BY <1>1, <1>2 DEF EventState, Resumes
<1> HIDE DEF b
<1>4. Watch(Idling(f, NoCtx), 0, NoCtx, fs[f].timer)
  BY <1>2, IdlingWatch
<1>5. Calm(b2, f, Idling(f, NoCtx), 0, NoCtx) /\ SameRest(b, b2)
  BY <1>2, <1>3, <1>4, EventEndStep
<1> HIDE DEF b2
<1>6. Ready(b2, f)
  BY <1>2, <1>5, CalmReady DEF SameRest
<1>7. QED
  BY <1>1, <1>6, ReturnStep

----------------------------------------------------------------------------
(* The queues of multishot accepts *)

QueueAs(b, b2, q, w) ==
    /\ SameUring(b, b2) /\ b2.sched = b.sched /\ b2.acceptq = b.acceptq /\ b2.queues[q] = w
    /\ CanWaitEvent(b) => CanWaitEvent(b2)

LEMMA QueueSame ==
  ASSUME NEW b \in Backends, NEW q \in Fibers, NEW w \in AcceptQueues, NEW b2,
         IsQueue(b, b2, q, w)
  PROVE  QueueAs(b, b2, q, w)
<1>1. b.queues \in [Fibers -> AcceptQueues]
  BY BackendFields
<1>2. [b.queues EXCEPT ![q] = w] \in [Fibers -> AcceptQueues]
  BY <1>1
<1>3. b2 = [b EXCEPT !.queues = [b.queues EXCEPT ![q] = w]]
  BY DEF IsQueue
<1>4. b2 \in Backends
  BY <1>2, <1>3 DEF Backends
<1>5. b2.queues = [b.queues EXCEPT ![q] = w]
  BY <1>3 DEF Backends
<1>6. /\ b2.ctx = b.ctx /\ b2.avail = b.avail /\ b2.made = b.made /\ b2.event = b.event
      /\ b2.sq = b.sq /\ b2.kern = b.kern /\ b2.cq = b.cq /\ b2.pending = b.pending
      /\ b2.acceptq = b.acceptq /\ b2.sched = b.sched
  BY <1>3 DEF Backends
<1>7. b2.queues[q] = w
  BY <1>1, <1>5
<1>8. CanWaitEvent(b) => CanWaitEvent(b2)
  BY <1>6 DEF CanWaitEvent, CanAcquire
<1>9. QED
  BY <1>4, <1>6, <1>7, <1>8 DEF SameUring, SameContexts, QueueAs

LEMMA CalmQueue ==
  ASSUME NEW f \in Fibers, NEW b, NEW s, NEW w, NEW a, Calm(b, f, s, w, a),
         NEW b2, NEW q, NEW r, QueueAs(b, b2, q, r)
  PROVE  Calm(b2, f, s, w, a)
<1>1. b.sched[f] \in {NoValue, "nil"}
  BY DEF Calm, Steady
<1>2. /\ SameUring(b, b2) /\ b2.sched[f] \in {NoValue, "nil"}
      /\ \A g \in Fibers : g # f => b2.sched[g] = b.sched[g]
  BY <1>1 DEF QueueAs
<1>3. QED
  BY <1>2, CalmSame

LEMMA CalmBackend ==
  ASSUME NEW b, NEW f, NEW s, NEW w, NEW a, Calm(b, f, s, w, a)
  PROVE  Wf(b) /\ b \in Backends
  BY DEF Calm, Mid, Between, Good, Wf

LEMMA ShiftBeginStep ==
  ASSUME FewFibers, NEW f \in Fibers, NEW b, NEW s, NEW a, Calm(b, f, s, 0, a),
         CanWaitEvent(b), NEW q \in Fibers, NEW t, Watch(t, 1, a, fs[f].timer),
         NEW b2, b2 = ShiftBegin(b, f, q)
  PROVE  Calm(b2, f, t, 1, a) /\ b2.event # NoCtx
<1> DEFINE b0 == Fiber_make_runnable(b, f, "nil")
           b1 == IF b.queues[q].fds = <<>> THEN b ELSE b0
           r == Append(b1.queues[q].waiters, f)
           w == [b1.queues[q] EXCEPT !.waiters = r]
           b3 == [b1 EXCEPT !.queues[q].waiters = Append(@, f)]
<1>1. b2 = EventBegin(b3, f)
  BY DEF ShiftBegin
<1>2. Calm(b1, f, s, 0, a) /\ CanWaitEvent(b1)
  <2>1. CASE b.queues[q].fds = <<>>
    BY <2>1
  <2>2. CASE b.queues[q].fds # <<>>
    <3>1. /\ Mid(b, fs, f, s) /\ Dooms(b) /\ SqOK(b) /\ b.sched[f] \in {NoValue, "nil"}
      BY DEF Calm, Steady
    <3>2. "nil" \in Values /\ b \in Backends
      BY CalmBackend DEF Values
    <3> HIDE DEF b0
    <3>3. b0 = [b EXCEPT !.sched[f] = "nil"]
      BY <3>1 DEF b0, Fiber_make_runnable, IS_EXCEPTION, NoValue
    <3>4. SchedAs(b, b0, f, "nil")
      BY <3>2, <3>3, SchedSame DEF IsSched
    <3>5. /\ SameUring(b, b0) /\ b0.sched[f] \in {NoValue, "nil"}
          /\ \A g \in Fibers : g # f => b0.sched[g] = b.sched[g]
      BY <3>4 DEF SchedAs
    <3>6. Calm(b0, f, s, 0, a) /\ b0.event = b.event /\ b0.avail = b.avail /\ b0.made = b.made
      BY <3>5, CalmSame
    <3>7. CanWaitEvent(b0)
      BY <3>6 DEF CanWaitEvent, CanAcquire
    <3>8. QED
      BY <2>2, <3>6, <3>7
  <2>3. QED
    BY <2>1, <2>2
<1> HIDE DEF b1
<1>3. b1 \in Backends
  BY <1>2, CalmBackend
<1>4. b1.queues[q].waiters \in Seq(Fibers)
  BY <1>3, QueueFields
<1>5. r \in Seq(Fibers)
  BY <1>4
<1>6. IsQueue(b1, b3, q, w)
  BY DEF IsQueue
<1> HIDE DEF r
<1>7. w \in AcceptQueues
  BY <1>3, <1>5, QueueFields
<1> HIDE DEF w, b3
<1>8. QueueAs(b1, b3, q, w)
  BY <1>3, <1>6, <1>7, QueueSame
<1>9. Calm(b3, f, s, 0, a)
  BY <1>2, <1>8, CalmQueue
<1>10. CanWaitEvent(b3)
  BY <1>2, <1>8 DEF QueueAs
<1>11. QED
  BY <1>1, <1>9, <1>10, EventBeginStep

LEMMA ShiftEndStep ==
  ASSUME FewFibers, UInv, NEW f \in Fibers, NEW o \in EventOps, Resumes(f, o),
         NEW q \in Fibers, NEW b2, b2 = ShiftEnd(f, q)
  PROVE  /\ Calm(b2, f, Idling(f, fs[f].aux), 0, fs[f].aux) /\ b2.sched[f] = NoValue
         /\ EventState(fs[f], fs[f].aux) /\ fs[f] \in FiberStates
         /\ fs[f].aux \in Contexts \cup {NoCtx} /\ Watch(fs[f], 1, fs[f].aux, fs[f].timer)
<1> DEFINE b == Unscheduled(f)
           b1 == EventEnd(b)
           r == RemoveFirst(b1.queues[q].waiters, f)
           w == [b1.queues[q] EXCEPT !.waiters = r]
<1>1. /\ Calm(b, f, fs[f], 1, fs[f].aux) /\ b.event # NoCtx /\ b.sched[f] = NoValue
      /\ EventState(fs[f], fs[f].aux) /\ fs[f] \in FiberStates
      /\ fs[f].aux \in Contexts \cup {NoCtx}
  BY EventBack
<1>2. IsQueue(b1, b2, q, w)
  BY DEF ShiftEnd, IsQueue
<1> HIDE DEF b
<1>3. Watch(Idling(f, fs[f].aux), 0, fs[f].aux, fs[f].timer)
  BY <1>1, IdlingWatch
<1>4. Calm(b1, f, Idling(f, fs[f].aux), 0, fs[f].aux) /\ SameRest(b, b1)
  BY <1>1, <1>3, EventEndStep
<1>5. b1.sched[f] = NoValue
  BY <1>1, <1>4 DEF SameRest
<1> HIDE DEF b1
<1>6. b1 \in Backends
  BY <1>4, CalmBackend
<1>7. b1.queues[q].waiters \in Seq(Fibers)
  BY <1>6, QueueFields
<1>8. r \in Seq(Fibers)
  BY <1>7, RemovedType
<1> HIDE DEF r
<1>9. w \in AcceptQueues
  BY <1>6, <1>8, QueueFields
<1> HIDE DEF w
<1>10. QueueAs(b1, b2, q, w)
  BY <1>2, <1>6, <1>9, QueueSame
<1>11. Calm(b2, f, Idling(f, fs[f].aux), 0, fs[f].aux)
  BY <1>4, <1>10, CalmQueue
<1>12. b2.sched[f] = NoValue
  BY <1>5, <1>10 DEF QueueAs
<1>13. QED
  BY <1>1, <1>11, <1>12 DEF Calm

LEMMA ShiftedStep ==
  ASSUME NEW f \in Fibers, NEW b, NEW s, NEW w, NEW a, Calm(b, f, s, w, a), NEW q \in Fibers,
         b.queues[q].fds # <<>>, NEW b2, b2 = Shifted(b, q)
  PROVE  /\ Calm(b2, f, s, w, a) /\ b2.sched[f] = b.sched[f]
         /\ CanWaitEvent(b) => CanWaitEvent(b2)
<1> DEFINE r == Tail(b.queues[q].fds)
           v == [b.queues[q] EXCEPT !.fds = r]
<1>1. b \in Backends
  BY CalmBackend
<1>2. b.queues[q].fds \in Seq(Int)
  BY <1>1, QueueFields
<1>3. r \in Seq(Int)
  BY <1>2
<1>4. IsQueue(b, b2, q, v)
  BY DEF Shifted, IsQueue
<1> HIDE DEF r
<1>5. v \in AcceptQueues
  BY <1>1, <1>3, QueueFields
<1> HIDE DEF v
<1>6. QueueAs(b, b2, q, v)
  BY <1>1, <1>4, <1>5, QueueSame
<1>7. QED
  BY <1>6, CalmQueue DEF QueueAs

LEMMA StartQueuedAction ==
  ASSUME FewFibers, UInv, NEW f \in Fibers, StartQueued(f)
  PROVE  UInv'
<1> DEFINE q == bk.acceptq
           t == [[Entered(f, "accept_queued") EXCEPT !.queue = q] EXCEPT !.pc = "await"]
           b2 == ShiftBegin(bk, f, q)
<1>1. /\ cur = f /\ CanWaitEvent(bk) /\ bk' = b2 /\ cur' = NoFiber /\ q # NoFiber
      /\ fs' = [fs EXCEPT ![f] = t]
  BY DEF StartQueued, Running, Await
<1>2. Ready(bk, f) /\ fs[f] \in FiberStates /\ fs[f].ctx = NoCtx /\ fs[f].aux = NoCtx
  BY <1>1, RunningReady
<1>3. Calm(bk, f, Idling(f, NoCtx), 0, NoCtx)
  BY <1>2, ReadyCalm
<1>4. q \in Fibers
  BY <1>1, InvParts, BackendFields
<1> HIDE DEF q
<1>5. Watch(t, 1, NoCtx, fs[f].timer) /\ t.op = "accept_queued" /\ t.queue = q
  <2> DEFINE s == Entered(f, "accept_queued")
  <2>1. "accept_queued" \in OpNames /\ "accept_queued" \in EventOps
    BY DEF OpNames, EventOps
  <2>2. /\ s \in FiberStates /\ s.op = "accept_queued" /\ s.ctx = NoCtx /\ s.aux = NoCtx
        /\ s.timer = fs[f].timer
    BY <1>2, <2>1, EnteredFields
  <2>3. t = [[s EXCEPT !.queue = q] EXCEPT !.pc = "await"]
    OBVIOUS
  <2> HIDE DEF s, t
  <2>4. t \in FiberStates
    BY <1>4, <2>2, <2>3 DEF FiberStates
  <2>5. /\ t.op = "accept_queued" /\ t.ctx = NoCtx /\ t.aux = NoCtx /\ t.pc = "await"
        /\ t.timer = fs[f].timer /\ t.queue = q
    BY <2>2, <2>3 DEF FiberStates
  <2>6. QED
    BY <2>1, <2>4, <2>5 DEF Watch, IsWaiter
<1> HIDE DEF t
<1>6. Calm(b2, f, t, 1, NoCtx) /\ b2.event # NoCtx
  BY <1>1, <1>3, <1>4, <1>5, ShiftBeginStep
<1> HIDE DEF b2
<1>7. EventState(t, NoCtx)
  BY <1>4, <1>5 DEF EventState
<1>8. QED
  BY <1>1, <1>6, <1>7, CalmAwait

\* Switching out once more, in the same state.
LEMMA AgainStep ==
  ASSUME FewFibers, NEW f \in Fibers, NEW b, NEW s, NEW a, Calm(b, f, s, 0, a),
         CanWaitEvent(b), NEW q \in Fibers, Watch(fs[f], 1, a, fs[f].timer),
         EventState(fs[f], a), fs[f] \in FiberStates, Await(f, ShiftBegin(b, f, q), fs[f])
  PROVE  UInv'
<1> DEFINE b2 == ShiftBegin(b, f, q)
<1>1. [fs[f] EXCEPT !.pc = "await"] = fs[f]
  <2>1. fs[f].pc = "await"
    BY DEF Watch
  <2>2. QED
    BY <2>1 DEF FiberStates
<1>2. bk' = b2 /\ cur' = NoFiber /\ fs' = [fs EXCEPT ![f] = fs[f]]
  BY <1>1 DEF Await
<1>3. Calm(b2, f, fs[f], 1, a) /\ b2.event # NoCtx
  BY ShiftBeginStep
<1> HIDE DEF b2
<1>4. QED
  BY <1>2, <1>3, CalmAwait

LEMMA QueuedAction ==
  ASSUME FewFibers, UInv, NEW f \in Fibers, Backend_accept(f)
  PROVE  UInv'
<1> DEFINE q == fs[f].queue
           b == ShiftEnd(f, q)
<1>1. Resumes(f, "accept_queued") /\ "accept_queued" \in EventOps
  BY DEF Backend_accept, EventOps
<1>2. q \in Fibers
  BY <1>1, EventBack DEF EventState, Resumes
<1>3. \/ Raise(f, b)
      \/ CanWaitEvent(b) /\ Await(f, ShiftBegin(b, f, q), fs[f])
      \/ /\ b.queues[q].fds # <<>>
         /\ Raise(f, Shifted(b, q)) \/ Return(f, Shifted(b, q))
  BY DEF Backend_accept
<1> HIDE DEF q
<1>4. /\ Calm(b, f, Idling(f, fs[f].aux), 0, fs[f].aux) /\ b.sched[f] = NoValue
      /\ EventState(fs[f], fs[f].aux) /\ fs[f] \in FiberStates
      /\ Watch(fs[f], 1, fs[f].aux, fs[f].timer)
  BY <1>1, <1>2, ShiftEndStep
<1>5. fs[f].aux = NoCtx
  BY <1>1, <1>4 DEF EventState, Resumes
<1> HIDE DEF b
<1>6. CASE Raise(f, b)
  BY <1>4, <1>5, <1>6, CalmReady, ReturnStep
<1>7. CASE CanWaitEvent(b) /\ Await(f, ShiftBegin(b, f, q), fs[f])
  BY <1>2, <1>4, <1>7, AgainStep
<1>8. CASE b.queues[q].fds # <<>> /\ (Raise(f, Shifted(b, q)) \/ Return(f, Shifted(b, q)))
  <2> DEFINE b2 == Shifted(b, q)
  <2>1. Calm(b2, f, Idling(f, fs[f].aux), 0, fs[f].aux) /\ b2.sched[f] = NoValue
    BY <1>2, <1>4, <1>8, ShiftedStep
  <2>2. Raise(f, b2) \/ Return(f, b2)
    BY <1>8
  <2> HIDE DEF b2
  <2>3. QED
    BY <1>5, <2>1, <2>2, CalmReady, ReturnStep
<1>9. QED
  BY <1>3, <1>6, <1>7, <1>8

LEMMA ShotSettles ==
  ASSUME NEW b, Wf(b), NEW c \in Contexts, ContextOK(b, c, 0), NEW f \in Fibers,
         NEW x, ShotRecord(x, f), NEW b2, IssuedAs(b, b2, c, x, <<MultishotRequest>>)
  PROVE  Settles(b2, c, 1) /\ ~Doomed(b2, c)
<1>1. /\ b.ctx[c].ref = 0 /\ b2.ctx[c] = x /\ ReqsOf(b2, c) = <<MultishotRequest>>
      /\ ~Doomed(b2, c)
  BY DEF IssuedAs
<1>2. Answers(b2, c) = {}
  <2>1. Answers(b2, c) = Answers(b, c)
    BY DEF IssuedAs, Touches, OthersKept, SameRest, Answers
  <2>2. QED
    BY <1>1, <2>1 DEF ContextOK, FreeOK
<1>3. GoesOn(b2, c)
  BY <1>1, <1>2, Zenon DEF GoesOn
<1>4. MultishotOK(b2, c, 1)
  BY <1>1, <1>3 DEF MultishotOK, ShotRecord
<1>5. KeptOK(b2, c, 1)
  <2>1. \A i \in DOMAIN ReqsOf(b2, c) : ReqsOf(b2, c)[i].kind = "MULTISHOT_ACCEPT"
    BY <1>1, MultishotRequestType, Zenon
  <2>2. b2.ctx[c].type = "MULTISHOT_ACCEPT" /\ "MULTISHOT_ACCEPT" \notin BufferKinds
    BY <1>1 DEF ShotRecord, BufferKinds
  <2>3. QED
    BY <2>1, <2>2, Zenon DEF KeptOK
<1>6. b2.ctx[c].ref = MULTISHOT_REFCOUNT /\ b2.ctx[c].fiber \in Fibers
      /\ b2.ctx[c].resume # "timeout"
  BY <1>1 DEF ShotRecord
<1>7. ContextOK(b2, c, 1)
  BY <1>4, <1>5, <1>6, MultishotDistinct DEF ContextOK
<1>8. QED
  BY <1>1, <1>7 DEF Settles

LEMMA ShotOpen ==
  ASSUME NEW f \in Fibers, NEW b, NEW s, Calm(b, f, s, 0, NoCtx), CanAcquire(b, 2),
         CanAcquire(b, 1), NEW c, c = Acquired(b),
         NEW b1, b1 = Issue(b, f, "MULTISHOT_ACCEPT", <<MultishotRequest>>),
         NEW b2, IsShot(b1, b2, c)
  PROVE  Calm(b2, f, Idling(f, c), 0, c) /\ CanWaitEvent(b2) /\ c \in Contexts
<1> DEFINE x == NewContext("MULTISHOT_ACCEPT", f)
           y == [x EXCEPT !.ref = MULTISHOT_REFCOUNT]
           t == Idling(f, c)
<1>1. /\ Mid(b, fs, f, s) /\ Steady(b, f, NoCtx) /\ Dooms(b) /\ fs \in [Fibers -> FiberStates]
      /\ Between(b, fs, f, Held(Counting(fs, f, s), b.event))
      /\ Watch(s, 0, NoCtx, fs[f].timer) /\ TimerOK(b, f, fs[f]) /\ EventOK(b)
      /\ b.sched[f] \in {NoValue, "nil"}
  BY DEF Calm, Steady, Mid, Between
<1>2. Reusable(b) /\ Wf(b)
  BY <1>1, MidReusable
<1>3. /\ x \in ContextRecords /\ x.type = "MULTISHOT_ACCEPT" /\ x.fiber = f
      /\ x.resume = "nil" /\ x.ref # 0
  <2>1. NewContext("MULTISHOT_ACCEPT", f) \in ContextRecords
    BY NewContextType DEF Types, Kinds
  <2>2. QED
    BY <2>1 DEF NewContext
<1>4. b1 = IssuedNow(b, "MULTISHOT_ACCEPT", f, <<MultishotRequest>>)
      /\ "MULTISHOT_ACCEPT" \in Types
  BY DEF Issue, IssuedNow, AcquiredAndPrepared, Types, Kinds
<1> HIDE DEF x
<1>5. IssuedAs(b, b1, c, x, <<MultishotRequest>>) /\ SqOK(b1) /\ CanAcquire(b1, 1)
  BY <1>2, <1>4, MultishotRequestType, Issued DEF x
<1>6. c \in Contexts /\ c # fs[f].timer /\ b.ctx[c].ref = 0
  BY <1>1, <1>2, AcquiredFree
<1>7. ShotRecord(y, f)
  BY <1>3, MultishotDistinct, Recounted DEF ShotRecord
<1>8. IsPut(b1, b2, c, y)
  BY <1>5 DEF IsPut, IsShot, IssuedAs
<1> HIDE DEF y
<1>9. /\ IssuedAs(b, b2, c, y, <<MultishotRequest>>) /\ SameSq(b1, b2)
      /\ b2.avail = b1.avail /\ b2.made = b1.made
  <2>1. y \in ContextRecords /\ y.ref # 0
    BY <1>7, MultishotDistinct DEF ShotRecord
  <2>2. QED
    BY <1>3, <1>5, <1>8, <2>1, IssuedPut
<1>10. Private(fs, f, c)
  BY <1>1, <1>6, PrivateContexts
<1>11. ContextOK(b, c, 0)
  <2>1. ContextOK(b, c, Held(Counting(fs, f, s), b.event)[c])
    BY <1>1, <1>6 DEF Between, Good
  <2>2. Held(Counting(fs, f, s), b.event)[c] = 0
    BY <1>6, <2>1 DEF ContextOK, FreeOK
  <2>3. QED
    BY <2>1, <2>2
<1>12. Settles(b2, c, 1) /\ ~Doomed(b2, c)
  BY <1>2, <1>6, <1>7, <1>9, <1>11, ShotSettles
<1>13. c # b.event
  BY <1>1, <1>6, NoCtxContext DEF EventOK
<1>14. Watch(t, 0, c, fs[f].timer)
  BY <1>1, <1>6, IdlingWatch
<1> HIDE DEF t
<1>15. OnlyUses(s, t, c, b.event)
  <2>1. ASSUME NEW d \in Contexts, d # c PROVE Uses(s, d, b.event) = Uses(t, d, b.event)
    <3>1. Uses(s, d, b.event)
            = One(d = NoCtx) + One(fs[f].timer = d) + One(d = b.event /\ 0 = 1)
      BY <1>1, WatchUses
    <3>2. Uses(t, d, b.event)
            = One(d = c) + One(fs[f].timer = d) + One(d = b.event /\ 0 = 1)
      BY <1>14, WatchUses
    <3>3. One(d = NoCtx) = 0 /\ One(d = c) = 0
      BY <2>1, NoCtxContext DEF One
    <3>4. QED
      BY <3>1, <3>2, <3>3
  <2>2. QED
    BY <2>1 DEF OnlyUses
<1>16. Uses(t, c, b.event) = 1
  <2>1. Uses(t, c, b.event) = One(c = c) + One(fs[f].timer = c) + One(c = b.event /\ 0 = 1)
    BY <1>6, <1>14, WatchUses
  <2>2. QED
    BY <1>6, <1>13, <2>1 DEF One
<1>17. Touches(b, b2, c) /\ b2.event = b.event /\ b2.ctx[c] = y
  BY <1>9 DEF IssuedAs
<1>18. Mid(b2, fs, f, t)
  <2>1. t \in FiberStates
    BY <1>14 DEF Watch
  <2>2. Settles(b2, c, Uses(t, c, b.event))
    BY <1>12, <1>16
  <2>3. QED
    BY <1>1, <1>6, <1>10, <1>13, <1>15, <1>17, <2>1, <2>2, MidTouchedMine
<1>19. Dooms(b2)
  BY <1>1, <1>2, <1>6, <1>12, <1>17, TouchedDooms
<1>20. SqOK(b2)
  BY <1>5, <1>9, SameSqOK
<1>21. ShotOK(b2, f, c)
  BY <1>6, <1>7, <1>13, <1>17, MultishotDistinct DEF ShotOK, ShotRecord, Mine
<1>22. TimerOK(b2, f, fs[f])
  BY <1>1, <1>2, <1>6, <1>17, TimerTouched
<1>23. b2.sched[f] \in {NoValue, "nil"}
  BY <1>1, <1>17 DEF Touches, OthersKept, SameRest
<1>24. CanWaitEvent(b2)
  BY <1>5, <1>9 DEF CanWaitEvent, CanAcquire
<1>25. QED
  BY <1>6, <1>14, <1>18, <1>19, <1>20, <1>21, <1>22, <1>23, <1>24 DEF Calm, Steady, t

LEMMA StartMultishotAction ==
  ASSUME FewFibers, UInv, NEW f \in Fibers, StartMultishot(f)
  PROVE  UInv'
<1> DEFINE w == [bk.queues[f] EXCEPT !.fds = <<>>]
           qs == [bk.queues EXCEPT ![f] = w]
           b == [bk EXCEPT !.acceptq = f, !.queues[f].fds = <<>>]
           b1 == Issue(b, f, "MULTISHOT_ACCEPT", <<Request("MULTISHOT_ACCEPT", 0)>>)
           c == Acquired(b)
           b2 == [b1 EXCEPT !.ctx[c].ref = MULTISHOT_REFCOUNT]
           t == [[Entered(f, "accept_loop") EXCEPT !.aux = c] EXCEPT !.pc = "await"]
           b3 == ShiftBegin(b2, f, f)
<1>1. /\ cur = f /\ CanAcquire(bk, 2) /\ bk' = b3 /\ cur' = NoFiber
      /\ fs' = [fs EXCEPT ![f] = t]
  BY DEF StartMultishot, multishot_accept_start, Running, Await
<1>2. Ready(bk, f) /\ fs[f] \in FiberStates /\ fs[f].ctx = NoCtx /\ fs[f].aux = NoCtx
  BY <1>1, RunningReady
<1>3. Calm(bk, f, Idling(f, NoCtx), 0, NoCtx)
  BY <1>2, ReadyCalm
<1>4. bk \in Backends /\ bk.queues \in [Fibers -> AcceptQueues] /\ bk.sched[f] = NoValue
  BY <1>2, InvParts, BackendFields DEF Ready
<1>5. SameUring(bk, b) /\ b.sched = bk.sched
  <2>1. w \in AcceptQueues
    <3>1. <<>> \in Seq(Int)
      OBVIOUS
    <3>2. QED
      BY <1>4, <3>1, QueueFields
  <2>2. b = [bk EXCEPT !.acceptq = f, !.queues = [bk.queues EXCEPT ![f] = w]]
    BY <1>4 DEF Backends
  <2> HIDE DEF w
  <2>3. qs \in [Fibers -> AcceptQueues]
    BY <1>4, <2>1
  <2>4. IsAccepting(bk, b, f, qs)
    BY <2>2 DEF IsAccepting
  <2> HIDE DEF b, qs
  <2>5. QED
    BY <1>4, <2>3, <2>4, AcceptingSame
<1> HIDE DEF b
<1>6. Calm(b, f, Idling(f, NoCtx), 0, NoCtx) /\ b.avail = bk.avail /\ b.made = bk.made
  <2>1. b.sched[f] \in {NoValue, "nil"} /\ \A g \in Fibers : g # f => b.sched[g] = bk.sched[g]
    BY <1>4, <1>5
  <2>2. QED
    BY <1>3, <1>5, <2>1, CalmSame
<1>7. CanAcquire(b, 2) /\ CanAcquire(b, 1)
  <2>1. Len(bk.avail) \in Nat /\ bk.made \in Nat /\ MaxContexts \in Nat
    BY <1>4, BackendFields, BackendAssumption DEF Counts
  <2>2. QED
    BY <1>1, <1>6, <2>1 DEF CanAcquire
<1>8. b1 = Issue(b, f, "MULTISHOT_ACCEPT", <<MultishotRequest>>)
  BY DEF MultishotRequest
<1>9. IsShot(b1, b2, c)
  BY DEF IsShot
<1>10. c = Acquired(b)
  OBVIOUS
<1> HIDE DEF b1, b2, c
<1>11. Calm(b2, f, Idling(f, c), 0, c) /\ CanWaitEvent(b2) /\ c \in Contexts
  BY <1>6, <1>7, <1>8, <1>9, <1>10, ShotOpen
<1>12. Watch(t, 1, c, fs[f].timer) /\ t.op = "accept_loop"
  <2> DEFINE s == Entered(f, "accept_loop")
  <2>1. "accept_loop" \in OpNames /\ "accept_loop" \in EventOps
    BY DEF OpNames, EventOps
  <2>2. s \in FiberStates /\ s.op = "accept_loop" /\ s.ctx = NoCtx /\ s.timer = fs[f].timer
    BY <1>2, <2>1, EnteredFields
  <2>3. t = [[s EXCEPT !.aux = c] EXCEPT !.pc = "await"]
    OBVIOUS
  <2> HIDE DEF s, t
  <2>4. t \in FiberStates
    BY <1>11, <2>2, <2>3 DEF FiberStates
  <2>5. /\ t.op = "accept_loop" /\ t.ctx = NoCtx /\ t.aux = c /\ t.pc = "await"
        /\ t.timer = fs[f].timer
    BY <2>2, <2>3 DEF FiberStates
  <2>6. QED
    BY <2>1, <2>4, <2>5 DEF Watch, IsWaiter
<1> HIDE DEF t
<1>13. Calm(b3, f, t, 1, c) /\ b3.event # NoCtx
  BY <1>11, <1>12, ShiftBeginStep
<1> HIDE DEF b3
<1>14. EventState(t, c)
  BY <1>11, <1>12, NoCtxContext DEF EventState
<1>15. QED
  BY <1>1, <1>13, <1>14, CalmAwait

\* The multishot accept is cancelled, and its context left to the completion.
LEMMA ShotClosed ==
  ASSUME NEW f \in Fibers, NEW b, NEW s, NEW a, Calm(b, f, s, 0, a), a # NoCtx,
         NEW b1, b1 = prep_cancel(b, a), NEW b2, b2 = io_uring_backend_defer_submit(b1)
  PROVE  Calm(b2, f, Idling(f, NoCtx), 0, NoCtx) /\ SameRest(b, b2)
<1> DEFINE t == Idling(f, NoCtx)
<1>1. /\ Mid(b, fs, f, s) /\ Steady(b, f, a) /\ Dooms(b) /\ fs \in [Fibers -> FiberStates]
      /\ Between(b, fs, f, Held(Counting(fs, f, s), b.event)) /\ Wf(b)
      /\ Watch(s, 0, a, fs[f].timer) /\ TimerOK(b, f, fs[f]) /\ ShotOK(b, f, a)
      /\ b.sched[f] \in {NoValue, "nil"} /\ s \in FiberStates
  BY DEF Calm, Steady, Mid, Between, Good
<1>2. Mine(b, f, a) /\ b.ctx[a].ref = MULTISHOT_REFCOUNT /\ a # fs[f].timer
      /\ a \in Contexts /\ a # b.event
  BY <1>1 DEF ShotOK, Mine
<1>3. Private(fs, f, a)
  BY <1>1, <1>2, PrivateContexts
<1>4. Uses(s, a, b.event) = 1
  <2>1. Uses(s, a, b.event) = One(a = a) + One(fs[f].timer = a) + One(a = b.event /\ 0 = 1)
    BY <1>1, <1>2, WatchUses
  <2>2. QED
    BY <1>2, <2>1 DEF One
<1>5. ContextOK(b, a, 1)
  <2>1. HoldersOf(Counting(fs, f, s), b.event, a) = 1
    BY <1>1, <1>2, <1>3, <1>4, SoleHolder
  <2>2. Counting(fs, f, s) \in [Fibers -> FiberStates]
    BY <1>1, CountingType
  <2>3. Held(Counting(fs, f, s), b.event)[a] = 1
    BY <1>2, <2>1, <2>2, HeldType
  <2>4. ContextOK(b, a, Held(Counting(fs, f, s), b.event)[a])
    BY <1>1, <1>2 DEF Between, Good
  <2>5. QED
    BY <2>3, <2>4
<1>6. GoesOn(b, a) /\ b.ctx[a].type = "MULTISHOT_ACCEPT"
  BY <1>2, <1>5 DEF ContextOK, MultishotOK
<1>7. /\ Wf(b1) /\ SameRest(b, b1) /\ SameContexts(b, b1) /\ ReqsOf(b1, a) = ReqsOf(b, a)
      /\ \A d \in Contexts : d # a => SameChain(b, b1, d)
      /\ Stopped(b1, a) => Stopped(b, a)
  BY <1>1, <1>2, PreparedCancel
<1>8. Wf(b2) /\ SameRest(b1, b2) /\ SameContexts(b1, b2) /\ SqOK(b2)
      /\ \A d \in Contexts : SameChain(b1, b2, d)
  BY <1>7, Deferred DEF SqOK
<1>9. Touches(b, b1, a) /\ Touches(b1, b2, a)
  BY <1>7, <1>8, TouchesNone
<1>10. Touches(b, b2, a)
  BY <1>9, TouchesTwice
<1>11. /\ b2.event = b.event /\ ReqsOf(b2, a) = ReqsOf(b, a) /\ b2.ctx = b.ctx /\ b2.cq = b.cq
       /\ SameRest(b, b2)
  BY <1>2, <1>7, <1>8 DEF SameContexts, SameChain, SameRest
<1>12. Settles(b2, a, 0)
  <2>1. Answers(b2, a) = Answers(b, a)
    BY <1>11 DEF Answers
  <2>2. GoesOn(b2, a)
    BY <1>6, <1>11, <2>1 DEF GoesOn
  <2>3. MultishotOK(b2, a, 0)
    BY <1>6, <1>11, <2>2 DEF MultishotOK
  <2>4. KeptOK(b, a, 1) /\ b2.ctx[a].type \notin BufferKinds \cup {"CHAIN"}
    BY <1>5, <1>6, <1>11 DEF ContextOK, BufferKinds
  <2>5. KeptOK(b2, a, 0)
    BY <1>11, <2>4, Zenon DEF KeptOK
  <2>6. ContextOK(b2, a, 0)
    BY <1>2, <1>5, <1>11, <2>3, <2>5, MultishotDistinct DEF ContextOK
  <2>7. QED
    BY <2>6 DEF Settles
<1>13. Watch(t, 0, NoCtx, fs[f].timer)
  BY <1>1, IdlingWatch
<1> HIDE DEF t
<1>14. OnlyUses(s, t, a, b.event) /\ Uses(t, a, b.event) = 0
  <2>1. ASSUME NEW d \in Contexts
        PROVE  /\ Uses(s, d, b.event)
                    = One(d = a) + One(fs[f].timer = d) + One(d = b.event /\ 0 = 1)
               /\ Uses(t, d, b.event)
                    = One(d = NoCtx) + One(fs[f].timer = d) + One(d = b.event /\ 0 = 1)
    BY <1>1, <1>13, WatchUses
  <2>2. ASSUME NEW d \in Contexts, d # a PROVE Uses(s, d, b.event) = Uses(t, d, b.event)
    <3>1. One(d = NoCtx) = 0 /\ One(d = a) = 0
      BY <2>2, NoCtxContext DEF One
    <3>2. QED
      BY <2>1, <3>1
  <2>3. Uses(t, a, b.event) = 0
    BY <1>2, <2>1, NoCtxContext DEF One
  <2>4. QED
    BY <2>2, <2>3 DEF OnlyUses
<1>15. Mid(b2, fs, f, t)
  <2>1. t \in FiberStates
    BY <1>13 DEF Watch
  <2>2. Settles(b2, a, Uses(t, a, b.event))
    BY <1>12, <1>14
  <2>3. QED
    BY <1>1, <1>2, <1>3, <1>10, <1>11, <1>14, <2>1, <2>2, MidTouchedMine
<1>16. Dooms(b2)
  <2>1. ReqsOf(b2, a) # <<>>
    BY <1>6, <1>11, MultishotRequestType, Zenon DEF GoesOn
  <2>2. ~NoRequest(b2, a)
    BY <2>1 DEF NoRequest
  <2>3. ~Stopped(b, a)
    BY <1>2, <1>5 DEF ContextOK, MultishotOK, Doomed
  <2>4. AskedOK(b2, a)
    BY <1>2, <1>7, <1>8, <1>11, <2>3 DEF AskedOK, SameChain, SameAsked
  <2>5. QED
    BY <1>1, <1>2, <1>10, <2>2, <2>4, TouchedDooms
<1>17. TimerOK(b2, f, fs[f])
  BY <1>1, <1>2, <1>10, <1>11, TimerTouched
<1>18. b2.sched[f] \in {NoValue, "nil"}
  BY <1>1, <1>11 DEF SameRest
<1>19. QED
  BY <1>8, <1>11, <1>13, <1>15, <1>16, <1>17, <1>18 DEF Calm, Steady, ShotOK, t

LEMMA CleanupStep ==
  ASSUME NEW f \in Fibers, NEW b, NEW s, Calm(b, f, s, 0, fs[f].aux), fs[f].aux # NoCtx,
         b.sched[f] = NoValue, NEW b2, b2 = multishot_accept_cleanup(b, f)
  PROVE  Ready(b2, f)
<1> DEFINE b0 == prep_cancel(b, fs[f].aux)
           b1 == io_uring_backend_defer_submit(b0)
<1>1. Calm(b1, f, Idling(f, NoCtx), 0, NoCtx) /\ SameRest(b, b1)
  BY ShotClosed
<1>2. b2 = [b1 EXCEPT !.acceptq = NoFiber]
  BY DEF multishot_accept_cleanup
<1> HIDE DEF b1
<1>3. b1 \in Backends /\ b1.sched[f] = NoValue
  BY <1>1, CalmBackend DEF SameRest
<1>4. IsAccepting(b1, b2, NoFiber, b1.queues)
  <2>1. Shaped(b1)
    BY <1>3, ShapedBackend
  <2>2. QED
    BY <1>2, <2>1 DEF Shaped, IsAccepting
<1>5. SameUring(b1, b2) /\ b2.sched = b1.sched
  <2>1. b1.queues \in [Fibers -> AcceptQueues] /\ NoFiber \in Fibers \cup {NoFiber}
    BY <1>3, BackendFields
  <2>2. QED
    BY <1>3, <1>4, <2>1, AcceptingSame
<1>6. Calm(b2, f, Idling(f, NoCtx), 0, NoCtx) /\ b2.sched[f] = NoValue
  BY <1>1, <1>3, <1>5, CalmSame
<1>7. QED
  BY <1>6, CalmReady

LEMMA AcceptLoopAction ==
  ASSUME FewFibers, UInv, NEW f \in Fibers, accept_loop_from_queue(f)
  PROVE  UInv'
<1> DEFINE b == ShiftEnd(f, f)
           b1 == Shifted(b, f)
<1>1. Resumes(f, "accept_loop") /\ "accept_loop" \in EventOps
  BY DEF accept_loop_from_queue, EventOps
<1>2. \/ Raise(f, multishot_accept_cleanup(b, f))
      \/ CanWaitEvent(b) /\ Await(f, ShiftBegin(b, f, f), fs[f])
      \/ /\ b.queues[f].fds # <<>>
         /\ Raise(f, multishot_accept_cleanup(b1, f))
      \/ /\ b.queues[f].fds # <<>> /\ CanWaitEvent(b)
         /\ Await(f, ShiftBegin(b1, f, f), fs[f])
  BY DEF accept_loop_from_queue
<1>3. /\ Calm(b, f, Idling(f, fs[f].aux), 0, fs[f].aux) /\ b.sched[f] = NoValue
      /\ EventState(fs[f], fs[f].aux) /\ fs[f] \in FiberStates
      /\ Watch(fs[f], 1, fs[f].aux, fs[f].timer)
  BY <1>1, ShiftEndStep
<1>4. fs[f].aux # NoCtx
  BY <1>1, <1>3 DEF EventState, Resumes
<1> HIDE DEF b
<1>5. b.queues[f].fds # <<>> =>
        /\ Calm(b1, f, Idling(f, fs[f].aux), 0, fs[f].aux) /\ b1.sched[f] = NoValue
        /\ CanWaitEvent(b) => CanWaitEvent(b1)
  BY <1>3, ShiftedStep
<1> HIDE DEF b1
<1>6. CASE Raise(f, multishot_accept_cleanup(b, f))
  BY <1>3, <1>4, <1>6, CleanupStep, ReturnStep
<1>7. CASE CanWaitEvent(b) /\ Await(f, ShiftBegin(b, f, f), fs[f])
  BY <1>3, <1>7, AgainStep
<1>8. CASE b.queues[f].fds # <<>> /\ Raise(f, multishot_accept_cleanup(b1, f))
  BY <1>4, <1>5, <1>8, CleanupStep, ReturnStep
<1>9. CASE /\ b.queues[f].fds # <<>> /\ CanWaitEvent(b)
           /\ Await(f, ShiftBegin(b1, f, f), fs[f])
  BY <1>3, <1>5, <1>9, AgainStep
<1>10. QED
  BY <1>2, <1>6, <1>7, <1>8, <1>9
----------------------------------------------------------------------------
(* The thread between two fibers, and a backend without contexts *)

\* No fiber is running through its calls.
LEMMA NobodyBetween ==
  ASSUME NEW b, NEW F
  PROVE  BackendOK(b, F) <=> Between(b, F, NoFiber, Held(F, b.event)) /\ Dooms(b)
<1>1. F \in [Fibers -> FiberStates] => Held(F, b.event) \in [Contexts -> Nat]
  BY HeldType
<1>2. \A g \in Fibers : g # NoFiber
  BY BackendAssumption
<1>3. QED
  BY <1>1, <1>2 DEF BackendOK, Between

LEMMA QuietStep ==
  ASSUME NEW b, NEW F, BackendOK(b, F), NEW b2, Quiet(b, b2)
  PROVE  BackendOK(b2, F)
<1>1. Between(b, F, NoFiber, Held(F, b.event)) /\ Dooms(b) /\ Wf(b)
  BY NobodyBetween DEF BackendOK, Good
<1>2. Between(b2, F, NoFiber, Held(F, b.event))
  BY <1>1, QuietBetween
<1>3. b2.event = b.event /\ Dooms(b2)
  BY <1>1, QuietUntouched
<1>4. QED
  BY <1>2, <1>3, NobodyBetween

LEMMA PollAction ==
  ASSUME UInv, io_uring_backend_poll \/ Backend_poll
  PROVE  UInv'
<1>1. BackendOK(bk, fs) /\ SqOK(bk) /\ Wf(bk) /\ bk \in Backends /\ OneChain(bk) /\ StoreOK(bk)
  BY InvParts DEF Wf
<1>2. Quiet(bk, bk') /\ SqOK(bk')
  <2>1. CASE io_uring_backend_poll
    <3>1. bk' = io_uring_submit(bk)
      BY <2>1 DEF io_uring_backend_poll
    <3>2. /\ bk' \in Backends /\ OneChain(bk') /\ SameRest(bk, bk')
          /\ bk'.sq = <<>> /\ bk'.ctx = bk.ctx /\ bk'.avail = bk.avail /\ bk'.made = bk.made
          /\ bk'.pending = bk.pending /\ bk'.event = bk.event
          /\ \A c \in Contexts : SameChain(bk, bk', c)
      BY <1>1, <3>1, Submitted
    <3>3. SameContexts(bk, bk')
      BY <3>2 DEF SameContexts
    <3>4. StoreOK(bk')
      BY <1>1, <3>3, StoreKept
    <3>5. QED
      BY <1>1, <3>2, <3>3, <3>4 DEF Quiet, Wf, SqOK
  <2>2. CASE Backend_poll
    <3>1. bk' = io_uring_backend_immediate_submit(bk)
      BY <2>2 DEF Backend_poll
    <3>2. /\ Wf(bk') /\ SameRest(bk, bk') /\ SameContexts(bk, bk')
          /\ bk'.sq = <<>> /\ bk'.pending = 0
          /\ \A d \in Contexts : SameChain(bk, bk', d)
      BY <1>1, <3>1, Flushed
    <3>3. QED
      BY <3>2, BackendAssumption DEF Quiet, SqOK
  <2>3. QED
    BY <2>1, <2>2
<1>3. BackendOK(bk', fs)
  BY <1>1, <1>2, QuietStep
<1>4. fs' = fs /\ cur' = cur /\ bk'.sched = bk.sched
  BY <1>2 DEF io_uring_backend_poll, Backend_poll, Quiet, SameRest
<1>5. QED
  BY <1>2, <1>3, <1>4 DEF UInv

BlankFiber(b, f, s) ==
    /\ s \in FiberStates /\ s.pc # "await" /\ s.ctx = NoCtx /\ s.aux = NoCtx
    /\ s.timer = NoCtx /\ b.sched[f] # "timeout"

LEMMA BlankOK ==
  ASSUME NEW b, BlankRing(b), NEW F \in [Fibers -> FiberStates],
         \A f \in Fibers : BlankFiber(b, f, F[f])
  PROVE  BackendOK(b, F)
<1>1. ASSUME NEW c \in Contexts
      PROVE  Queued(b, c) = {} /\ Working(b, c) = {} /\ ~Doomed(b, c) /\ Answers(b, c) = {}
  BY DEF BlankRing, Queued, Working, Doomed, Asked, Stopped, Answers
<1>2. OneChain(b) /\ b \in Backends
  BY <1>1 DEF OneChain, BlankRing
<1>3. ASSUME NEW c \in Contexts PROVE b.ctx[c] = Freed /\ ReqsOf(b, c) = <<>>
  <2>1. IsReqs(b, c, <<>>)
    BY <1>1 DEF IsReqs
  <2>2. QED
    BY <1>2, <2>1, ReqsDetermined DEF BlankRing
<1>4. StoreOK(b)
  <2>1. DOMAIN b.avail = {} /\ \A c \in Contexts : c > b.made
    BY BackendAssumption DEF BlankRing, Contexts
  <2>2. QED
    BY <1>3, <2>1, NewContextType DEF StoreOK, Free
<1>5. ASSUME NEW c \in Contexts PROVE Held(F, b.event)[c] = 0
  <2>1. Users(F, c) = {} /\ Timed(F, c) = {} /\ EventWaiters(F) = {}
    BY NoCtxContext DEF Users, Timed, EventWaiters, BlankFiber
  <2>2. HoldersOf(F, b.event, c) = 0
    BY <2>1, FS_EmptySet DEF HoldersOf
  <2>3. QED
    BY <2>2, HeldType
<1>6. ASSUME NEW c \in Contexts PROVE ContextOK(b, c, 0)
  <2>1. b.ctx[c].ref = 0 /\ b.ctx[c].type = "NONE" /\ b.ctx[c].resume = "nil"
    BY <1>3 DEF Freed, NewContext
  <2>2. FreeOK(b, c, 0)
    BY <1>1, <1>3 DEF FreeOK
  <2>3. DOMAIN ReqsOf(b, c) = {} /\ "NONE" \notin BufferKinds
    BY <1>3 DEF BufferKinds
  <2>4. KeptOK(b, c, 0)
    BY <2>1, <2>3, Zenon DEF KeptOK
  <2>5. QED
    BY <2>1, <2>2, <2>4, MultishotDistinct DEF ContextOK
<1>7. Good(b, Held(F, b.event))
  BY <1>2, <1>4, <1>5, <1>6 DEF Good, Wf
<1>8. Dooms(b) /\ EventOK(b)
  BY <1>1, NotDoomed DEF Dooms, EventOK, BlankRing
<1>9. \A f \in Fibers : FiberOK(b, f, F[f])
  BY DEF BlankFiber, FiberOK
<1>10. QED
  BY <1>7, <1>8, <1>9 DEF BackendOK

LEMMA InitOK ==
  ASSUME Init
  PROVE  UInv
<1> DEFINE sc == [f \in Fibers |-> "nil"]
           qs == [f \in Fibers |-> [fds |-> <<>>, waiters |-> <<>>]]
<1>1. IsInitial(bk, 0, NoFiber, qs, sc)
  <2>1. /\ bk.pending = 0 /\ bk.acceptq = NoFiber /\ bk.queues = qs /\ bk.sched = sc
        /\ bk = InitialBackend /\ Shaped(bk)
    BY DEF Init, InitialBackend, Shaped
  <2> HIDE DEF qs, sc
  <2>2. bk = [bk EXCEPT !.pending = 0, !.acceptq = NoFiber, !.queues = qs, !.sched = sc]
    BY <2>1 DEF Shaped
  <2>3. QED
    BY <2>1, <2>2, Zenon DEF IsInitial
<1>2. sc \in [Fibers -> Values \cup {NoValue}]
  BY DEF Values
<1>3. qs \in [Fibers -> AcceptQueues]
  BY DEF AcceptQueues
<1> HIDE DEF qs
<1>4. BlankRing(bk) /\ bk.pending = 0 /\ bk.sched = sc
  BY <1>1, <1>2, <1>3, InitialTypes
<1>5. fs \in [Fibers -> FiberStates] /\ \A f \in Fibers : fs[f] = NoOp
  BY NoOpType DEF Init
<1>6. \A f \in Fibers : BlankFiber(bk, f, fs[f])
  BY <1>4, <1>5, NoOpType DEF BlankFiber, NoOp
<1>7. BackendOK(bk, fs)
  BY <1>4, <1>5, <1>6, BlankOK
<1>8. SqOK(bk)
  BY <1>4, BackendAssumption DEF BlankRing, SqOK
<1>9. QED
  BY <1>7, <1>8, BackendAssumption DEF UInv, Init

LEMMA ForkAction ==
  ASSUME UInv, NEW f \in Fibers, Backend_post_fork(f)
  PROVE  UInv'
<1> DEFINE sc == [g \in Fibers |-> NoValue]
           s == Left(Entered(f, "fork"))
<1>1. /\ cur = f /\ cur' = f /\ fs[f].timer = NoCtx
      /\ IsInitial(bk', bk.pending, bk.acceptq, bk.queues, sc)
      /\ fs' = [g \in Fibers |-> IF g = f THEN s ELSE [NoOp EXCEPT !.pc = "dead"]]
  BY DEF Backend_post_fork, Running, IsInitial
<1>2. bk \in Backends /\ fs[f] \in FiberStates /\ SqOK(bk)
  BY InvParts
<1>3. sc \in [Fibers -> Values \cup {NoValue}]
  OBVIOUS
<1>4. /\ bk.pending \in Nat /\ bk.acceptq \in Fibers \cup {NoFiber}
      /\ bk.queues \in [Fibers -> AcceptQueues]
  BY <1>2, BackendFields
<1>5. BlankRing(bk') /\ bk'.pending = bk.pending /\ bk'.sched = sc
  <2> DEFINE b == bk'
             n == bk.pending
             p == bk.acceptq
             qs == bk.queues
  <2>1. IsInitial(b, n, p, qs, sc)
    BY <1>1
  <2>2. n \in Nat /\ p \in Fibers \cup {NoFiber} /\ qs \in [Fibers -> AcceptQueues]
    BY <1>4
  <2> HIDE DEF s, sc, b, n, p, qs
  <2>3. BlankRing(b) /\ b.pending = n /\ b.sched = sc
    BY <1>3, <2>1, <2>2, InitialTypes
  <2>4. QED
    BY <2>3 DEF b, n
<1>6. s \in FiberStates /\ s.pc = "app" /\ s.ctx = NoCtx /\ s.aux = NoCtx /\ s.timer = NoCtx
  <2>1. "fork" \in OpNames
    BY DEF OpNames
  <2>2. Entered(f, "fork") \in FiberStates /\ Entered(f, "fork").timer = NoCtx
    BY <1>1, <1>2, <2>1, EnteredFields
  <2>3. QED
    BY <2>2, LeftFields DEF AtRest
<1> HIDE DEF s
<1> DEFINE t == [NoOp EXCEPT !.pc = "dead"]
<1>7. t \in FiberStates /\ t.pc = "dead" /\ t.ctx = NoCtx /\ t.aux = NoCtx /\ t.timer = NoCtx
  BY NoOpType DEF NoOp, FiberStates
<1>8. fs' = [g \in Fibers |-> IF g = f THEN s ELSE t]
  BY <1>1
<1> HIDE DEF t
<1>9. fs' \in [Fibers -> FiberStates]
  BY <1>6, <1>7, <1>8
<1>10. \A g \in Fibers : fs'[g] \in {s, t} /\ bk'.sched[g] = NoValue
  BY <1>5, <1>8
<1>11. \A g \in Fibers : BlankFiber(bk', g, fs'[g])
  BY <1>6, <1>7, <1>10 DEF BlankFiber, NoValue
<1>12. BackendOK(bk', fs')
  BY <1>5, <1>9, <1>11, BlankOK
<1>13. SqOK(bk')
  BY <1>2, <1>5 DEF BlankRing, SqOK
<1>14. fs'[f].pc # "await" /\ bk'.sched[f] = NoValue
  BY <1>6, <1>8, <1>10
<1>15. QED
  BY <1>1, <1>12, <1>13, <1>14 DEF UInv
----------------------------------------------------------------------------
(* What the kernel does, and the completions, while no fiber acts *)

LEMMA AlikeFiber ==
  ASSUME NEW b, NEW b2, NEW f, NEW s, FiberOK(b, f, s),
         \A c \in Claims(s) : Alike(b, b2, f, c), PipeOK(b2, s),
         IsWaiter(s) => b2.event # NoCtx, SchedKept(b, b2, f, s)
  PROVE  FiberOK(b2, f, s)
<1>1. b2.sched[f] = NoValue => b.sched[f] = NoValue
  BY DEF SchedKept
<1>2. /\ s.ctx # NoCtx => Alike(b, b2, f, s.ctx)
      /\ s.aux # NoCtx => Alike(b, b2, f, s.aux)
      /\ s.timer # NoCtx => Alike(b, b2, f, s.timer)
  BY DEF Claims
<1>3. ASSUME s.pc = "await", AwaitOK(b, f, s)
      PROVE  AwaitOK(b2, f, s)
  <2>1. s.op \in EventOps => b2.event # NoCtx
    BY <1>3 DEF IsWaiter
  <2>2. s.op \in ReadWriteOps \cup PlainOps => s.op \in OneRequestOps
    BY DEF OneRequestOps
  <2>3. s.op \in {"chain", "splice_chunks"} => s.op \in ChainOps
    BY DEF ChainOps
  <2>4. s.op \in OneRequestOps =>
          WaitsForOne(b2, f, s.ctx) /\ b2.ctx[s.ctx].type = b.ctx[s.ctx].type
    BY <1>2, <1>3 DEF AwaitOK, Alike
  <2>5. s.op \in ChainOps => Waits(b2, f, s.ctx) /\ b2.ctx[s.ctx].type = b.ctx[s.ctx].type
    BY <1>2, <1>3 DEF AwaitOK, Alike
  <2>6. s.op = "timer_loop" /\ s.ctx # NoCtx =>
          WaitsForOne(b2, f, s.ctx) /\ b2.ctx[s.ctx].type = b.ctx[s.ctx].type
    BY <1>2, <1>3 DEF AwaitOK, Alike
  <2>7. s.op = "double_splice" =>
          /\ WaitsForOne(b2, f, s.aux) /\ b2.ctx[s.aux].type = b.ctx[s.aux].type
          /\ s.ctx # NoCtx =>
                WaitsForOne(b2, f, s.ctx) /\ b2.ctx[s.ctx].type = b.ctx[s.ctx].type
          /\ Drains(b2, s.aux, s.ctx # NoCtx)
    BY <1>2, <1>3 DEF AwaitOK, Alike, PipeOK
  <2>8. s.op = "accept_loop" =>
          Mine(b2, f, s.aux) /\ b2.ctx[s.aux].ref = MULTISHOT_REFCOUNT
    BY <1>2, <1>3 DEF AwaitOK, Alike
  <2>9. QED
    BY <1>1, <1>3, <2>1, <2>2, <2>3, <2>4, <2>5, <2>6, <2>7, <2>8 DEF AwaitOK
<1>4. s.timer # NoCtx =>
        /\ Mine(b2, f, s.timer) /\ b2.ctx[s.timer].type = b.ctx[s.timer].type
        /\ b2.ctx[s.timer].ref # MULTISHOT_REFCOUNT
  BY <1>2 DEF FiberOK, Alike
<1>5. QED
  BY <1>3, <1>4 DEF FiberOK, SchedKept

LEMMA HappensStep ==
  ASSUME NEW b, NEW F, BackendOK(b, F), NEW c \in Contexts, NEW f \in Fibers, NEW b2,
         Happens(b, b2, F, f, c), Settles(b2, c, HoldersOf(F, b.event, c)),
         Bears(b, b2, f, c, F[f])
  PROVE  BackendOK(b2, F)
<1> DEFINE h == Held(F, b.event)
<1>1. /\ Wf(b) /\ Dooms(b) /\ EventOK(b) /\ F \in [Fibers -> FiberStates]
      /\ \A g \in Fibers : FiberOK(b, g, F[g])
  BY DEF BackendOK, Good
<1>2. b \in Backends /\ b2 \in Backends
  BY <1>1 DEF Happens, Wf
<1>3. h \in [Contexts -> Nat] /\ h[c] = HoldersOf(F, b.event, c)
  BY <1>1, HeldType
<1>4. Between(b, F, f, h)
  BY <1>1, <1>3 DEF BackendOK, Between
<1>5. Private(F, f, c)
  BY <1>3, <1>4, PrivateContexts DEF Happens
<1>6. ASSUME NEW d \in Contexts, d # c
      PROVE  /\ ReqsOf(b2, d) = ReqsOf(b, d) /\ (Doomed(b2, d) => Doomed(b, d))
             /\ b2.ctx[d] = b.ctx[d]
  BY <1>2, <1>6, UntouchedOut DEF Happens
<1>7. EventOK(b2)
  BY <1>1, <1>6 DEF EventOK, Happens
<1>8. \A g \in Fibers : IsWaiter(F[g]) => b2.event # NoCtx
  BY <1>1 DEF IsWaiter, FiberOK, AwaitOK, Happens
<1>9. EventMoves(b, b2, F, f, c)
  BY <1>7, <1>8 DEF EventMoves, Happens
<1>10. Between(b2, F, f, [h EXCEPT ![c] = HoldersOf(F, b.event, c)])
  <2>1. Wf(b2) /\ \A d \in Contexts : d # c => Untouched(b, b2, d)
    BY DEF Happens
  <2>2. \A g \in Fibers : g # f => SchedKept(b, b2, g, F[g])
    BY DEF Happens
  <2> HIDE DEF h
  <2>3. QED
    BY <1>4, <1>5, <1>9, <2>1, <2>2, UntouchedBetween
<1>11. [h EXCEPT ![c] = HoldersOf(F, b.event, c)] = h
  BY <1>3
<1>12. Good(b2, Held(F, b2.event)) /\ \A g \in Fibers : g # f => FiberOK(b2, g, F[g])
  BY <1>10, <1>11 DEF Between, Happens
<1>13. Dooms(b2)
  <2>1. ASSUME NEW d \in Contexts, d # c PROVE AskedOK(b2, d)
    BY <1>1, <2>1, SameAskedOK DEF Dooms, Untouched, Happens
  <2>2. QED
    BY <1>1, <1>6, <2>1 DEF Dooms, Happens
<1>14. FiberOK(b2, f, F[f])
  <2>1. FiberOK(b, f, F[f]) /\ SchedKept(b, b2, f, F[f])
    BY <1>1 DEF Happens
  <2>2. \A d \in Claims(F[f]) : d \in Contexts /\ d # b2.event
    BY <1>2, <2>1, ClaimsMine DEF Mine, Happens
  <2>3. ASSUME NEW d \in Claims(F[f]), d # c
        PROVE  Alike(b, b2, f, d) /\ \A o \in BOOLEAN : Drains(b, d, o) => Drains(b2, d, o)
    <3>1. Untouched(b, b2, d) /\ d # b2.event
      BY <2>2, <2>3 DEF Happens
    <3>2. b2.sched[f] = NoValue => b.sched[f] = NoValue
      BY <2>1 DEF SchedKept
    <3>3. QED
      BY <1>2, <3>1, <3>2, UntouchedAlike
  <2>4. \A d \in Claims(F[f]) : Alike(b, b2, f, d)
    BY <2>3 DEF Bears
  <2>5. PipeOK(b2, F[f])
    <3>1. SUFFICES ASSUME F[f].pc = "await", F[f].op = "double_splice", F[f].aux # c
                   PROVE  Drains(b2, F[f].aux, F[f].ctx # NoCtx)
      <4>1. CASE F[f].aux = c
        <5>1. F[f].pc = "await" /\ F[f].op = "double_splice" => c \in Claims(F[f])
          BY <2>1, <4>1 DEF FiberOK, AwaitOK, Claims
        <5>2. QED
          BY <4>1, <5>1 DEF Bears, PipeOK
      <4>2. CASE F[f].aux # c
        BY <4>2 DEF PipeOK
      <4>3. QED
        BY <4>1, <4>2
    <3>2. F[f].aux \in Claims(F[f]) /\ Drains(b, F[f].aux, F[f].ctx # NoCtx)
      BY <2>1, <3>1 DEF FiberOK, AwaitOK, Claims
    <3>3. (F[f].ctx # NoCtx) \in BOOLEAN
      OBVIOUS
    <3>4. QED
      BY <2>3, <3>1, <3>2, <3>3
  <2>6. QED
    BY <1>8, <2>1, <2>4, <2>5, AlikeFiber
<1>15. QED
  BY <1>1, <1>7, <1>12, <1>13, <1>14 DEF BackendOK

\* A context whose request ends is in use, and not by the event.
LEMMA EndingContext ==
  ASSUME NEW b, NEW F, BackendOK(b, F), NEW c \in Contexts, NEW v, Ending(b, c, v),
         ReqsOf(b, c) # <<>>
  PROVE  /\ b.ctx[c].fiber \in Fibers /\ Mine(b, b.ctx[c].fiber, c)
         /\ ContextOK(b, c, HoldersOf(F, b.event, c)) /\ HoldersOf(F, b.event, c) \in Nat
         /\ v # ECANCELED => b.ctx[c].ref # MULTISHOT_REFCOUNT /\ ~Asked(b, c)
         /\ v = ECANCELED => ~Asked(b, c)
         /\ b.ctx[c].ref = MULTISHOT_REFCOUNT =>
               GoesOn(b, c) /\ HoldersOf(F, b.event, c) = 0 /\ v = ECANCELED
<1>1. /\ Wf(b) /\ Dooms(b) /\ EventOK(b) /\ F \in [Fibers -> FiberStates]
      /\ \A d \in Contexts : ContextOK(b, d, Held(F, b.event)[d])
  BY DEF BackendOK, Good
<1>2. HoldersOf(F, b.event, c) \in Nat /\ Held(F, b.event)[c] = HoldersOf(F, b.event, c)
  BY <1>1, HeldType
<1>3. ContextOK(b, c, HoldersOf(F, b.event, c))
  BY <1>1, <1>2
<1>4. b.ctx[c].ref # 0
  BY <1>3 DEF ContextOK, FreeOK
<1>5. b.ctx[c].fiber \in Fibers
  BY <1>3, <1>4 DEF ContextOK
<1>6. c # b.event
  <2>1. SUFFICES ASSUME c = b.event PROVE FALSE
    OBVIOUS
  <2>2. ReqsOf(b, c) = <<EventRequest>> /\ ~Doomed(b, c)
    BY <1>1, <2>1, NoCtxContext DEF EventOK
  <2>3. ReqsOf(b, c)[1].kind = "EVENT"
    BY <2>2, LoneRequest DEF EventRequest, Request
  <2>4. QED
    BY <2>2, <2>3 DEF Ending, Doomed
<1>7. b.ctx[c].ref = MULTISHOT_REFCOUNT => GoesOn(b, c) /\ ReqsOf(b, c)[1].kind = "MULTISHOT_ACCEPT"
  <2>1. SUFFICES ASSUME b.ctx[c].ref = MULTISHOT_REFCOUNT
                 PROVE  GoesOn(b, c) /\ ReqsOf(b, c)[1].kind = "MULTISHOT_ACCEPT"
    OBVIOUS
  <2>2. GoesOn(b, c)
    BY <1>3, <2>1 DEF ContextOK, MultishotOK, HasEnded
  <2>3. QED
    BY <2>2, LoneRequest DEF GoesOn, MultishotRequest, Request
<1>8. v # ECANCELED => b.ctx[c].ref # MULTISHOT_REFCOUNT /\ ~Asked(b, c)
  BY <1>1, <1>7 DEF Ending, Dooms, AskedOK
<1>9. v = ECANCELED => Stopped(b, c) /\ ~Asked(b, c)
  BY <1>1 DEF Ending, Dooms, AskedOK
<1>10. b.ctx[c].ref = MULTISHOT_REFCOUNT => HoldersOf(F, b.event, c) = 0
  BY <1>3, <1>8, <1>9 DEF ContextOK, MultishotOK, Doomed
<1>11. QED
  BY <1>2, <1>3, <1>4, <1>5, <1>6, <1>7, <1>8, <1>9, <1>10 DEF Mine

LEMMA EndedContext ==
  ASSUME NEW b, NEW c \in Contexts, NEW n \in Nat, ContextOK(b, c, n), NEW v, NEW b2, NEW m,
         EndsAs(b, b2, c, v, m), b \in Backends, ReqsOf(b, c) # <<>>,
         b.ctx[c].ref = MULTISHOT_REFCOUNT => GoesOn(b, c) /\ n = 0 /\ v = ECANCELED
  PROVE  ContextOK(b2, c, n)
<1>1. /\ b2.ctx[c] = b.ctx[c] /\ Out(b2, c) = Out(b, c) /\ Len(m) \in Nat /\ Len(m) >= 1
      /\ \A j \in 1..Len(m) : ~m[j].more
      /\ \A i \in DOMAIN ReqsOf(b2, c) :
          \E k \in DOMAIN ReqsOf(b, c) : ReqsOf(b2, c)[i] = ReqsOf(b, c)[k]
  BY DEF EndsAs, SameContexts
<1>2. /\ \A i \in Answers(b, c) : i \in Answers(b2, c) /\ b2.cq[i] = b.cq[i] /\ i <= Len(b.cq)
      /\ \A i \in Answers(b2, c) :
            i \in Answers(b, c) \/ \E j \in 1..Len(m) : i = Len(b.cq) + j /\ b2.cq[i] = m[j]
      /\ \A j \in 1..Len(m) : Len(b.cq) + j \in Answers(b2, c) /\ b2.cq[Len(b.cq) + j] = m[j]
  BY DEF EndsAs, AnswersGrow
<1>3. b.ctx[c].ref # 0
  BY DEF ContextOK, FreeOK
<1>4. ASSUME b.ctx[c].ref # MULTISHOT_REFCOUNT PROVE CountOK(b2, c, n)
  <2>1. CountOK(b, c, n)
    BY <1>3, <1>4 DEF ContextOK
  <2>2. \A i \in Answers(b2, c) : ~b2.cq[i].more
    BY <1>1, <1>2, <2>1 DEF CountOK
  <2>3. \A i \in DOMAIN ReqsOf(b2, c) : ReqsOf(b2, c)[i].kind # "MULTISHOT_ACCEPT"
    BY <1>1, <2>1, Zenon DEF CountOK
  <2>4. QED
    BY <1>1, <2>1, <2>2, <2>3, Zenon DEF CountOK
<1>5. ASSUME b.ctx[c].ref = MULTISHOT_REFCOUNT PROVE MultishotOK(b2, c, n)
  <2>1. GoesOn(b, c) /\ n = 0 /\ v = ECANCELED /\ b.ctx[c].type = "MULTISHOT_ACCEPT"
    BY <1>5 DEF ContextOK, MultishotOK
  <2>2. Len(m) = 1 /\ ReqsOf(b2, c) = <<>>
    BY <2>1, LoneRequest DEF GoesOn, EndsAs
  <2> DEFINE p == Len(b.cq) + 1
  <2>3. p \in Answers(b2, c) /\ ~b2.cq[p].more /\ b2.cq[p].res = ECANCELED
    BY <1>1, <1>2, <2>1, <2>2 DEF EndsAs
  <2>4. \A i \in Answers(b2, c) : i # p => i \in Answers(b, c)
    BY <1>2, <2>2
  <2>5. \A i \in Answers(b, c) : i < p
    BY <1>2, AnswersFinite
  <2> HIDE DEF p
  <2>6. \A i \in Answers(b2, c) : i # p => i < p /\ b2.cq[i].more /\ b2.cq[i].res # ECANCELED
    BY <1>2, <2>1, <2>4, <2>5 DEF GoesOn
  <2>7. HasEnded(b2, c)
    BY <2>2, <2>3, <2>6 DEF HasEnded
  <2>8. QED
    BY <1>1, <2>1, <2>7 DEF MultishotOK
<1>6. KeptOK(b2, c, n)
  <2>1. KeptOK(b, c, n)
    BY DEF ContextOK
  <2>2. b.ctx[c].type \notin BufferKinds \cup {"CHAIN"} =>
          \A i \in DOMAIN ReqsOf(b2, c) : ReqsOf(b2, c)[i].kind \notin BufferKinds
    BY <1>1, <2>1, Zenon DEF KeptOK
  <2>3. b.ctx[c].type \in BufferKinds \cup {"CHAIN"} => b.ctx[c].buffers # "none" \/ n > 0
    BY <2>1, Zenon DEF KeptOK
  <2>4. QED
    BY <1>1, <2>2, <2>3, Zenon DEF KeptOK
<1>7. QED
  BY <1>1, <1>3, <1>4, <1>5, <1>6, Zenon DEF ContextOK

LEMMA EndStep ==
  ASSUME NEW b, NEW F, BackendOK(b, F), NEW c \in Contexts, NEW v, Ending(b, c, v),
         ReqsOf(b, c) # <<>>, NEW b2, NEW m, EndsAs(b, b2, c, v, m),
         NEW f, f = b.ctx[c].fiber, PipeGives(F[f], c, v)
  PROVE  BackendOK(b2, F)
<1>1. /\ f \in Fibers /\ Mine(b, f, c) /\ HoldersOf(F, b.event, c) \in Nat
      /\ ContextOK(b, c, HoldersOf(F, b.event, c)) /\ ~Asked(b, c)
      /\ b.ctx[c].ref = MULTISHOT_REFCOUNT =>
               GoesOn(b, c) /\ HoldersOf(F, b.event, c) = 0 /\ v = ECANCELED
  BY EndingContext
<1>2. /\ Wf(b) /\ b \in Backends /\ b2 \in Backends /\ FiberOK(b, f, F[f])
      /\ \A g \in Fibers : FiberOK(b, g, F[g])
  BY <1>1 DEF BackendOK, Good, Wf, EndsAs
<1>3. Settles(b2, c, HoldersOf(F, b.event, c))
  BY <1>1, <1>2, EndedContext DEF Settles
<1>4. ~Doomed(b2, c) /\ AskedOK(b2, c)
  BY <1>1 DEF EndsAs, Doomed, AskedOK
<1>5. /\ b2.ctx = b.ctx /\ b2.event = b.event /\ b2.sched = b.sched /\ Out(b2, c) = Out(b, c)
      /\ Wf(b2)
  BY DEF EndsAs, SameContexts
<1>6. \A d \in Contexts : d # c => Untouched(b, b2, d)
  BY <1>5 DEF EndsAs, AnswersGrow, Untouched
<1>7. \A g \in Fibers : SchedKept(b, b2, g, F[g])
  BY <1>2, <1>5 DEF SchedKept, FiberOK
<1>8. Happens(b, b2, F, f, c)
  BY <1>1, <1>4, <1>5, <1>6, <1>7 DEF Happens, Mine
<1>9. ASSUME NEW i \in Answers(b2, c), Out(b, c) <= 1
      PROVE  b2.cq[i].res = v \/ \E j \in Answers(b, c) : b2.cq[i] = b.cq[j]
  <2>1. CASE i \in Answers(b, c)
    BY <2>1 DEF EndsAs, AnswersGrow
  <2>2. CASE i \notin Answers(b, c)
    <3>1. PICK j \in 1..Len(m) : b2.cq[i] = m[j]
      BY <2>2 DEF EndsAs, AnswersGrow
    <3>2. m[j].res = v \/ Out(b, c) > 1
      BY <3>1 DEF EndsAs
    <3>3. Out(b, c) \in Nat
      BY <1>2, OutType DEF Wf
    <3>4. QED
      BY <1>9, <3>1, <3>2, <3>3
  <2>3. QED
    BY <2>1, <2>2
<1>10. Mine(b2, f, c) /\ (Waits(b, f, c) => Waits(b2, f, c))
  BY <1>1, <1>5 DEF Mine, Waits, WillWake
<1>11. ASSUME WaitsForOne(b, f, c) PROVE WaitsForOne(b2, f, c)
  <2>1. ~Stopped(b, c) /\ Out(b, c) <= 1
    BY <1>11 DEF WaitsForOne, Uncancelled, Doomed
  <2>2. v # ECANCELED
    BY <2>1 DEF Ending
  <2>3. \A i \in Answers(b2, c) : b2.cq[i].res # ECANCELED
    <3>1. \A j \in Answers(b, c) : b.cq[j].res # ECANCELED
      BY <1>11 DEF WaitsForOne, Uncancelled
    <3>2. SUFFICES ASSUME NEW i \in Answers(b2, c) PROVE b2.cq[i].res # ECANCELED
      OBVIOUS
    <3>3. b2.cq[i].res = v \/ \E j \in Answers(b, c) : b2.cq[i] = b.cq[j]
      BY <1>9, <2>1, <3>2, Zenon
    <3>4. QED
      BY <2>2, <3>1, <3>3, Zenon
  <2>4. Waits(b, f, c) /\ b.ctx[c].result # ECANCELED
    BY <1>11 DEF WaitsForOne, Uncancelled
  <2>5. Uncancelled(b2, c)
    BY <1>4, <1>5, <2>3, <2>4 DEF Uncancelled
  <2>6. QED
    BY <1>5, <1>10, <2>1, <2>4, <2>5 DEF WaitsForOne
<1>12. Alike(b, b2, f, c)
  BY <1>5, <1>10, <1>11 DEF Alike
<1>13. ASSUME c = F[f].aux PROVE PipeOK(b2, F[f])
  <2>1. SUFFICES ASSUME F[f].pc = "await", F[f].op = "double_splice"
                 PROVE  Drains(b2, c, F[f].ctx # NoCtx)
    BY <1>13 DEF PipeOK
  <2>2. WaitsForOne(b, f, c) /\ Drains(b, c, F[f].ctx # NoCtx)
    BY <1>2, <1>13, <2>1 DEF FiberOK, AwaitOK
  <2>3. \A i \in DOMAIN ReqsOf(b2, c) : ReqsOf(b2, c)[i].kind = "DRAIN"
    <3>1. \A i \in DOMAIN ReqsOf(b2, c) :
            \E k \in DOMAIN ReqsOf(b, c) : ReqsOf(b2, c)[i] = ReqsOf(b, c)[k]
      BY DEF EndsAs
    <3>2. \A k \in DOMAIN ReqsOf(b, c) : ReqsOf(b, c)[k].kind = "DRAIN"
      BY <2>2 DEF Drains
    <3>3. QED
      BY <3>1, <3>2, Zenon
  <2>4. ASSUME F[f].ctx # NoCtx
        PROVE  /\ \A i \in Answers(b2, c) : b2.cq[i].res # 0
               /\ Out(b2, c) = 0 => b2.ctx[c].result # 0
    <3>1. v # 0 /\ Out(b, c) <= 1
      BY <1>13, <2>1, <2>2, <2>4 DEF PipeGives, WaitsForOne
    <3>2. /\ \A i \in Answers(b, c) : b.cq[i].res # 0
          /\ Out(b, c) = 0 => b.ctx[c].result # 0
      BY <2>2, <2>4 DEF Drains
    <3>3. ASSUME NEW i \in Answers(b2, c) PROVE b2.cq[i].res # 0
      <4>1. b2.cq[i].res = v \/ \E j \in Answers(b, c) : b2.cq[i] = b.cq[j]
        BY <1>9, <3>1, <3>3, Zenon
      <4>2. QED
        BY <3>1, <3>2, <4>1
    <3>4. QED
      BY <1>5, <3>2, <3>3
  <2>5. QED
    BY <2>3, <2>4 DEF Drains
<1>14. Bears(b, b2, f, c, F[f])
  BY <1>12, <1>13 DEF Bears
<1>15. QED
  BY <1>1, <1>3, <1>8, <1>14, HappensStep

\* Nothing depends on the number of bytes that a fiber has moved.
SameButMoved(s, t) ==
    /\ t \in FiberStates /\ t.op = s.op /\ t.pc = s.pc /\ t.ctx = s.ctx /\ t.aux = s.aux
    /\ t.left = s.left /\ t.timer = s.timer /\ t.queue = s.queue

LEMMA MovedType ==
  ASSUME NEW s \in FiberStates, NEW k \in 0..MaxMoved
  PROVE  SameButMoved(s, [s EXCEPT !.moved = k])
<1>1. [s EXCEPT !.moved = k] \in FiberStates
  BY DEF FiberStates
<1>2. QED
  BY <1>1 DEF FiberStates, SameButMoved

LEMMA MovedOnly ==
  ASSUME NEW b, NEW F, BackendOK(b, F), NEW G, G \in [Fibers -> FiberStates],
         \A g \in Fibers : SameButMoved(F[g], G[g])
  PROVE  BackendOK(b, G)
<1>1. \A g \in Fibers : /\ G[g].pc = F[g].pc /\ G[g].op = F[g].op /\ G[g].ctx = F[g].ctx
                        /\ G[g].aux = F[g].aux /\ G[g].timer = F[g].timer
  BY DEF SameButMoved
<1>2. ASSUME NEW c
      PROVE  /\ Users(G, c) = Users(F, c) /\ Timed(G, c) = Timed(F, c)
             /\ EventWaiters(G) = EventWaiters(F)
  BY <1>1 DEF Users, Timed, EventWaiters
<1>3. \A c : HoldersOf(G, b.event, c) = HoldersOf(F, b.event, c)
  BY <1>2 DEF HoldersOf
<1>4. Held(G, b.event) = Held(F, b.event)
  BY <1>3 DEF Held
<1>5. ASSUME NEW g \in Fibers PROVE FiberOK(b, g, G[g])
  <2> DEFINE s == F[g]
             t == G[g]
  <2>1. FiberOK(b, g, s) /\ SameButMoved(s, t)
    BY <1>5 DEF BackendOK
  <2> HIDE DEF s, t
  <2>2. t \in FiberStates /\ t.op = s.op /\ t.pc = s.pc /\ t.ctx = s.ctx /\ t.aux = s.aux
        /\ t.left = s.left /\ t.timer = s.timer /\ t.queue = s.queue
    BY <2>1 DEF SameButMoved
  <2>3. s.pc = "await" => AwaitOK(b, g, t)
    <3>1. s.pc = "await" => AwaitOK(b, g, s)
      BY <2>1 DEF FiberOK
    <3>2. AwaitOK(b, g, s) => AwaitOK(b, g, t)
      BY <2>2, Zenon DEF AwaitOK
    <3>3. QED
      BY <3>1, <3>2
  <2>4. FiberOK(b, g, t)
    BY <2>1, <2>2, <2>3, Zenon DEF FiberOK
  <2>5. QED
    BY <2>4 DEF t
<1>6. QED
  BY <1>4, <1>5 DEF BackendOK

LEMMA KernelCancelsAction ==
  ASSUME UInv, KernelCancels
  PROVE  UInv'
<1>1. PICK r \in bk.kern : r.cancelled /\ bk' = Complete(bk, r, ECANCELED) /\ fs' = fs /\ cur' = cur
  BY DEF KernelCancels
<1>2. BackendOK(bk, fs) /\ SqOK(bk) /\ Wf(bk)
  BY InvParts
<1> DEFINE v == ECANCELED
           c == r.ctx
           b2 == bk'
           b == bk
<1>3. v \in Outcomes /\ v # 0
  BY BackendAssumption DEF Outcomes, ECANCELED
<1>4. b2 = Complete(b, r, v) /\ v = ECANCELED /\ c = r.ctx /\ b2 = bk' /\ r \in b.kern /\ b = bk
      /\ r.cancelled
  BY <1>1
<1> HIDE DEF v, c, b2, b
<1>5. /\ \E m : EndsAs(b, b2, c, v, m)
      /\ c \in Contexts /\ ReqsOf(b, c) = r.reqs /\ r.reqs # <<>> /\ Stopped(b, c)
  BY <1>2, <1>3, <1>4, KernelEnds
<1>6. PICK m : EndsAs(b, b2, c, v, m)
  BY <1>5
<1>7. Ending(b, c, v)
  BY <1>4, <1>5 DEF Ending
<1> DEFINE f == b.ctx[c].fiber
<1>8. PipeGives(fs[f], c, v)
  BY <1>3 DEF PipeGives
<1> HIDE DEF f
<1>9. BackendOK(b2, fs)
  BY <1>2, <1>4, <1>5, <1>6, <1>7, <1>8, EndStep DEF f
<1>10. SqOK(b2) /\ b2.sched = b.sched
  BY <1>2, <1>4, <1>6 DEF EndsAs, SqOK
<1>11. QED
  BY <1>1, <1>4, <1>9, <1>10 DEF UInv

LEMMA KernelCompletesAction ==
  ASSUME UInv, KernelCompletes
  PROVE  UInv'
<1>0. PICK r \in bk.kern : \E v \in Results(Head(r.reqs)) :
        /\ Head(r.reqs).kind # "MULTISHOT_ACCEPT" /\ Possible(r, v) /\ bk' = Complete(bk, r, v)
        /\ fs' = (IF v > 0 /\ Holds(bk.ctx[r.ctx].fiber, r.ctx)
                        /\ fs[bk.ctx[r.ctx].fiber].op \in Transfers
                  THEN [fs EXCEPT ![bk.ctx[r.ctx].fiber].moved = @ + v] ELSE fs)
        /\ cur' = cur
  BY Zenon DEF KernelCompletes
<1>1. PICK v \in Results(Head(r.reqs)) :
        /\ Head(r.reqs).kind # "MULTISHOT_ACCEPT" /\ Possible(r, v) /\ bk' = Complete(bk, r, v)
        /\ fs' = (IF v > 0 /\ Holds(bk.ctx[r.ctx].fiber, r.ctx)
                        /\ fs[bk.ctx[r.ctx].fiber].op \in Transfers
                  THEN [fs EXCEPT ![bk.ctx[r.ctx].fiber].moved = @ + v] ELSE fs)
        /\ cur' = cur
  BY <1>0, Zenon
<1>2. BackendOK(bk, fs) /\ SqOK(bk) /\ Wf(bk) /\ bk \in Backends /\ fs \in [Fibers -> FiberStates]
  BY InvParts
<1> DEFINE c == r.ctx
           b2 == bk'
           b == bk
           f == b.ctx[c].fiber
<1>3. r.reqs \in Seq(Requests) /\ r.reqs # <<>> /\ Head(r.reqs) \in Requests
      /\ Head(r.reqs) = r.reqs[1]
  BY <1>2, ChainFields
<1>4. v \in Outcomes /\ v # ECANCELED /\ Head(r.reqs).kind # "EVENT" /\ v \in Int
  BY <1>3, ResultTypes
<1>5. b2 = Complete(b, r, v) /\ c = r.ctx /\ b2 = bk' /\ r \in b.kern /\ b = bk
      /\ f = b.ctx[c].fiber
  BY <1>1
<1> HIDE DEF c, b2, b, f
<1>6. /\ \E m : EndsAs(b, b2, c, v, m)
      /\ c \in Contexts /\ ReqsOf(b, c) = r.reqs /\ r.reqs # <<>>
  BY <1>2, <1>4, <1>5, KernelEnds
<1>7. PICK m : EndsAs(b, b2, c, v, m)
  BY <1>6
<1>8. Ending(b, c, v)
  BY <1>1, <1>3, <1>4, <1>6, Zenon DEF Ending
<1>9. f \in Fibers
  BY <1>2, <1>5, <1>6, <1>8, EndingContext
<1>10. PipeGives(fs[f], c, v)
  <2>1. SUFFICES ASSUME fs[f].pc = "await", fs[f].op = "double_splice", fs[f].aux = c,
                        fs[f].ctx # NoCtx
                 PROVE  v # 0
    BY DEF PipeGives
  <2>2. FiberOK(b, f, fs[f])
    BY <1>2, <1>5, <1>9 DEF BackendOK
  <2>3. Drains(b, c, fs[f].ctx # NoCtx)
    BY <2>1, <2>2 DEF FiberOK, AwaitOK
  <2>4. Head(r.reqs).kind = "DRAIN"
    <3>1. 1 \in DOMAIN r.reqs
      BY <1>3
    <3>2. \A i \in DOMAIN r.reqs : r.reqs[i].kind = "DRAIN"
      BY <1>6, <2>3 DEF Drains
    <3>3. QED
      BY <1>3, <3>1, <3>2, Zenon
  <2>5. Holds(bk.ctx[r.ctx].fiber, r.ctx)
    BY <1>5, <2>1 DEF Holds
  <2>6. v = 0 => fs[f].ctx = NoCtx
    BY <1>1, <1>5, <2>4, <2>5 DEF Possible
  <2>7. QED
    BY <2>1, <2>6
<1>11. BackendOK(b2, fs)
  BY <1>2, <1>5, <1>6, <1>7, <1>8, <1>10, EndStep
<1>12. SqOK(b2) /\ b2.sched = b.sched
  BY <1>2, <1>5, <1>7 DEF EndsAs, SqOK
<1>13. fs' \in [Fibers -> FiberStates] /\ \A g \in Fibers : SameButMoved(fs[g], fs'[g])
  <2>1. \A g \in Fibers : SameButMoved(fs[g], fs[g])
    BY <1>2 DEF SameButMoved
  <2>2. CASE fs' = fs
    BY <1>2, <2>1, <2>2
  <2>3. CASE v > 0 /\ Holds(f, c) /\ fs' = [fs EXCEPT ![f].moved = @ + v]
    <3> DEFINE k == fs[f].moved + v
               t == [fs[f] EXCEPT !.moved = k]
    <3>1. fs[f].moved + v <= MaxMoved
      BY <1>1, <1>5, <2>3 DEF Possible
    <3>2. fs[f].moved \in 0..MaxMoved /\ fs[f] \in FiberStates
      BY <1>2, <1>9 DEF FiberStates
    <3>3. k \in 0..MaxMoved
      BY <1>4, <2>3, <3>1, <3>2
    <3>4. fs' = [fs EXCEPT ![f] = t]
      BY <2>3
    <3> HIDE DEF k
    <3>5. SameButMoved(fs[f], t)
      BY <3>2, <3>3, MovedType
    <3> HIDE DEF t
    <3>6. t \in FiberStates
      BY <3>5 DEF SameButMoved
    <3>7. QED
      BY <1>2, <1>9, <2>1, <3>4, <3>5, <3>6
  <2>4. fs' = IF v > 0 /\ Holds(f, c) /\ fs[f].op \in Transfers
              THEN [fs EXCEPT ![f].moved = @ + v] ELSE fs
    BY <1>1, <1>5, Zenon
  <2>5. QED
    BY <2>2, <2>3, <2>4
<1>14. BackendOK(b2, fs')
  <2> DEFINE G == fs'
  <2>1. G \in [Fibers -> FiberStates] /\ \A g \in Fibers : SameButMoved(fs[g], G[g])
    BY <1>13
  <2> HIDE DEF G
  <2>2. BackendOK(b2, G)
    BY <1>11, <2>1, MovedOnly
  <2>3. QED
    BY <2>2 DEF G
<1>15. cur' \in Fibers => fs'[cur'].pc # "await" /\ bk'.sched[cur'] = NoValue
  <2>1. SUFFICES ASSUME cur \in Fibers
                 PROVE  fs'[cur].pc # "await" /\ bk'.sched[cur] = NoValue
    BY <1>1, Zenon
  <2>2. fs[cur].pc # "await" /\ bk.sched[cur] = NoValue
    BY <2>1 DEF UInv
  <2>3. SameButMoved(fs[cur], fs'[cur])
    BY <1>13, <2>1
  <2>4. fs'[cur].pc = fs[cur].pc
    BY <2>3 DEF SameButMoved
  <2>5. bk'.sched = bk.sched
    BY <1>5, <1>12, Zenon
  <2>6. QED
    BY <2>2, <2>4, <2>5, Zenon
<1>16. BackendOK(bk', fs') /\ SqOK(bk')
  BY <1>5, <1>12, <1>14, Zenon
<1>17. cur' \in Fibers \cup {NoFiber}
  BY <1>1 DEF UInv
<1>18. QED
  BY <1>15, <1>16, <1>17, Zenon DEF UInv

\* A connection is accepted: the multishot request stays.
LEMMA KernelAcceptsAction ==
  ASSUME UInv, AcceptErrors = FALSE, KernelAccepts
  PROVE  UInv'
<1>1. PICK r \in bk.kern :
        /\ Head(r.reqs).kind = "MULTISHOT_ACCEPT"
        /\ bk' = [bk EXCEPT !.cq = Append(@, Completion(r.ctx, 1, TRUE))]
        /\ fs' = fs /\ cur' = cur
  BY DEF KernelAccepts
<1>2. BackendOK(bk, fs) /\ SqOK(bk) /\ Wf(bk) /\ bk \in Backends /\ fs \in [Fibers -> FiberStates]
      /\ OneChain(bk) /\ StoreOK(bk) /\ Dooms(bk) /\ EventOK(bk)
      /\ \A g \in Fibers : FiberOK(bk, g, fs[g])
  BY InvParts DEF Wf
<1> DEFINE c == r.ctx
           b2 == bk'
           b == bk
           f == b.ctx[c].fiber
           e == Completion(c, 1, TRUE)
           cq2 == Append(b.cq, e)
           n == HoldersOf(fs, b.event, c)
<1>3. r.reqs \in Seq(Requests) /\ r.reqs # <<>> /\ Head(r.reqs) = r.reqs[1] /\ c \in Contexts
  BY <1>2, ChainFields
<1>4. e \in Completions /\ e.ctx = c /\ e.more /\ e.res # ECANCELED
  BY <1>3, BackendAssumption DEF Completion, Completions, Outcomes, ECANCELED
<1>5. b.cq \in Seq(Completions)
  BY <1>2, BackendFields
<1> HIDE DEF e
<1>6. cq2 \in Seq(Completions) /\ Longer(b.cq, cq2, <<e>>)
  <2>1. Len(cq2) = Len(b.cq) + 1 /\ (\A i \in 1..Len(b.cq) : cq2[i] = b.cq[i])
        /\ cq2[Len(b.cq) + 1] = e /\ cq2 \in Seq(Completions)
    BY <1>4, <1>5
  <2> HIDE DEF cq2
  <2>2. Len(<<e>>) = 1 /\ <<e>>[1] = e
    BY LoneRequest
  <2>3. \A j \in 1..1 : cq2[Len(b.cq) + j] = <<e>>[j]
    BY <2>1, <2>2
  <2>4. QED
    BY <2>1, <2>2, <2>3, Zenon DEF Longer
<1>7. /\ Shaped(b2) /\ b2.cq = cq2 /\ SameContexts(b, b2) /\ b2.sq = b.sq /\ b2.kern = b.kern
      /\ b2.pending = b.pending /\ b2.sched = b.sched /\ b2.acceptq = b.acceptq
      /\ b2.queues = b.queues
  <2>1. Shaped(b) /\ b2 = [b EXCEPT !.cq = cq2]
    BY <1>1, <1>2, ShapedBackend DEF e
  <2> HIDE DEF b, b2, cq2
  <2>2. QED
    BY <2>1 DEF Shaped, SameContexts
<1> b = bk /\ b2 = bk'
  OBVIOUS
<1> HIDE DEF b, b2, cq2, c
<1>8. b2 \in Backends
  <2>1. /\ b.ctx \in [Contexts -> ContextRecords] /\ b.avail \in Seq(Contexts)
        /\ b.made \in Counts /\ b.sq \in Seq(Entries) /\ b.pending \in Nat
        /\ b.kern \in SUBSET Chains
        /\ b.sched \in [Fibers -> Values \cup {NoValue}]
        /\ b.event \in Contexts \cup {NoCtx} /\ b.acceptq \in Fibers \cup {NoFiber}
        /\ b.queues \in [Fibers -> AcceptQueues]
    BY <1>2, BackendFields, Zenon
  <2>2. QED
    BY <1>6, <1>7, <2>1, Rebuilt DEF SameContexts
<1>9. OneChain(b2) /\ \A d \in Contexts : SameChain(b, b2, d)
  BY <1>2, <1>7, <1>8, ChainsKept
<1>10. Wf(b2)
  BY <1>2, <1>7, <1>8, <1>9, StoreKept DEF Wf
<1> DEFINE m == <<e>>
<1>11. AllOf(m, c) /\ Len(m) = 1 /\ m[1] = e
  BY <1>4, SingleSeq, LoneRequest DEF AllOf
<1>12. Longer(b.cq, b2.cq, m)
  BY <1>6, <1>7
<1> HIDE DEF m
<1>13. AnswersGrow(b, b2, c, m)
  BY <1>2, <1>8, <1>11, <1>12, Growing
<1>14. ReqsOf(b, c) = r.reqs
  <2>1. r \in Working(b, c)
    BY DEF Working, c
  <2>2. IsReqs(b, c, r.reqs)
    BY <2>1, Zenon DEF IsReqs
  <2>3. QED
    BY <1>2, <1>3, <2>2, ReqsDetermined
<1>15. n \in Nat /\ ContextOK(b, c, n)
  BY <1>2, <1>3, HeldType DEF BackendOK, Good
<1>16. ReqsOf(b, c)[1].kind = "MULTISHOT_ACCEPT" /\ 1 \in DOMAIN ReqsOf(b, c) /\ ReqsOf(b, c) # <<>>
  BY <1>1, <1>3, <1>14
<1>17. b.ctx[c].ref = MULTISHOT_REFCOUNT /\ b.ctx[c].fiber \in Fibers
  <2>1. b.ctx[c].ref # 0
    BY <1>15, <1>16 DEF ContextOK, FreeOK
  <2>2. ~CountOK(b, c, n)
    BY <1>16, Zenon DEF CountOK
  <2>3. QED
    BY <1>15, <2>1, <2>2 DEF ContextOK
<1>18. MultishotOK(b, c, n) /\ GoesOn(b, c)
  BY <1>15, <1>16, <1>17 DEF ContextOK, MultishotOK, HasEnded
<1>19. b2.ctx = b.ctx /\ b2.event = b.event /\ SameChain(b, b2, c)
  BY <1>3, <1>7, <1>9 DEF SameContexts
<1>20. GoesOn(b2, c)
  <2>1. ASSUME NEW i \in Answers(b2, c) PROVE b2.cq[i].more /\ b2.cq[i].res # ECANCELED
    <3>1. CASE i \in Answers(b, c)
      BY <1>13, <1>18, <3>1 DEF AnswersGrow, GoesOn
    <3>2. CASE i \notin Answers(b, c)
      <4>1. PICK j \in 1..Len(m) : b2.cq[i] = m[j]
        BY <1>13, <2>1, <3>2 DEF AnswersGrow
      <4>2. b2.cq[i] = e
        BY <1>11, <4>1
      <4>3. QED
        BY <1>4, <4>2
    <3>3. QED
      BY <3>1, <3>2
  <2>2. QED
    BY <1>18, <1>19, <2>1 DEF GoesOn, SameChain
<1>21. ContextOK(b2, c, n)
  <2>1. MultishotOK(b2, c, n)
    BY <1>18, <1>19, <1>20 DEF MultishotOK, SameChain
  <2>2. KeptOK(b, c, n) => KeptOK(b2, c, n)
    BY <1>19, Zenon DEF KeptOK, SameChain
  <2>3. QED
    BY <1>15, <1>17, <1>19, <2>1, <2>2, MultishotDistinct DEF ContextOK
<1>22. c # b.event
  BY <1>2, <1>3, <1>17, NoCtxContext DEF EventOK
<1>23. Happens(b, b2, fs, f, c)
  <2>1. \A d \in Contexts : d # c => Untouched(b, b2, d)
    BY <1>9, <1>13, <1>19 DEF AnswersGrow, Untouched
  <2>2. \A g \in Fibers : SchedKept(b, b2, g, fs[g])
    BY <1>2, <1>7 DEF SchedKept, FiberOK
  <2>3. AskedOK(b2, c) /\ (Doomed(b2, c) => ReqsOf(b2, c) # <<>>)
    BY <1>2, <1>3, <1>16, <1>19, SameAskedOK DEF Dooms, SameChain
  <2>4. Mine(b, f, c)
    BY <1>3, <1>17, <1>22, MultishotDistinct DEF Mine
  <2>5. QED
    BY <1>10, <1>19, <1>22, <2>1, <2>2, <2>3, <2>4 DEF Happens
<1>24. Bears(b, b2, f, c, fs[f])
  <2>1. Alike(b, b2, f, c)
    BY <1>17, <1>19 DEF Alike, Mine, Waits, WaitsForOne
  <2>2. c = fs[f].aux => PipeOK(b2, fs[f])
    BY <1>2, <1>17 DEF PipeOK, FiberOK, AwaitOK, WaitsForOne, Waits
  <2>3. QED
    BY <2>1, <2>2 DEF Bears
<1>25. BackendOK(b2, fs)
  <2>1. f \in Fibers /\ Settles(b2, c, HoldersOf(fs, b.event, c))
    BY <1>15, <1>17, <1>21 DEF Settles
  <2> HIDE DEF f
  <2>2. QED
    BY <1>2, <1>3, <1>23, <1>24, <2>1, HappensStep
<1>26. SqOK(b2)
  BY <1>2, <1>7 DEF SqOK
<1>27. QED
  BY <1>1, <1>7, <1>25, <1>26 DEF UInv

\* What is known of a context that has a completion.
LEMMA AnsweredContext ==
  ASSUME NEW b, NEW F, BackendOK(b, F), NEW c \in Contexts, 1 \in Answers(b, c)
  PROVE  /\ b.ctx[c].fiber \in Fibers /\ Mine(b, b.ctx[c].fiber, c) /\ c # b.event
         /\ HoldersOf(F, b.event, c) \in Nat /\ ContextOK(b, c, HoldersOf(F, b.event, c))
         /\ Private(F, b.ctx[c].fiber, c) /\ Done(b, c) \in Nat /\ Done(b, c) >= 1
<1>1. /\ Wf(b) /\ EventOK(b) /\ F \in [Fibers -> FiberStates] /\ b \in Backends /\ OneChain(b)
      /\ \A d \in Contexts : ContextOK(b, d, Held(F, b.event)[d])
  BY DEF BackendOK, Good, Wf
<1>2. HoldersOf(F, b.event, c) \in Nat /\ Held(F, b.event)[c] = HoldersOf(F, b.event, c)
  BY <1>1, HeldType
<1>3. ContextOK(b, c, HoldersOf(F, b.event, c))
  BY <1>1, <1>2
<1>4. Done(b, c) \in Nat /\ Done(b, c) >= 1
  BY <1>1, AnswersFinite
<1>5. b.ctx[c].ref # 0
  BY <1>3 DEF ContextOK, FreeOK
<1>6. c # b.event
  <2>1. SUFFICES ASSUME c = b.event PROVE FALSE
    OBVIOUS
  <2>2. ReqsOf(b, c) = <<EventRequest>> /\ b.ctx[c].ref \notin {0, MULTISHOT_REFCOUNT}
        /\ b.ctx[c].type = "POLL"
    BY <1>1, <2>1, NoCtxContext DEF EventOK
  <2>3. Len(ReqsOf(b, c)) = 1
    BY <2>2, LoneRequest
  <2>4. Out(b, c) <= 1
    BY <1>3, <2>2 DEF ContextOK, CountOK
  <2>5. QED
    BY <1>4, <2>3, <2>4 DEF Out
<1>7. b.ctx[c].fiber \in Fibers
  BY <1>3, <1>5 DEF ContextOK
<1> DEFINE f == b.ctx[c].fiber
<1>8. Mine(b, f, c)
  BY <1>5, <1>6 DEF Mine
<1>9. f \in Fibers /\ f = b.ctx[c].fiber
  BY <1>7
<1> HIDE DEF f
<1>10. Between(b, F, f, Held(F, b.event))
  BY <1>1, HeldType DEF BackendOK, Between
<1>11. Private(F, f, c)
  BY <1>8, <1>9, <1>10, PrivateContexts
<1>12. QED
  BY <1>2, <1>3, <1>4, <1>6, <1>8, <1>9, <1>11

\* A fiber holds a context that it claims, once.
LEMMA ClaimCounts ==
  ASSUME NEW b, NEW F, BackendOK(b, F), NEW c \in Contexts, NEW f \in Fibers, Private(F, f, c),
         c # b.event
  PROVE  /\ HoldersOf(F, b.event, c) \in {0, 1}
         /\ c \in Claims(F[f]) <=> HoldersOf(F, b.event, c) = 1
<1> DEFINE s == F[f]
<1>1. F \in [Fibers -> FiberStates] /\ FiberOK(b, f, s) /\ s \in FiberStates
  BY DEF BackendOK, FiberOK
<1>2. Counting(F, f, s) = F
  BY <1>1, CountingType
<1>3. HoldersOf(F, b.event, c) = Uses(s, c, b.event)
  <2> HIDE DEF s
  <2>1. QED
    BY <1>1, <1>2, SoleHolder
<1> HIDE DEF s
<1>4. c # NoCtx
  BY NoCtxContext
<1>5. s.pc # "await" => s.ctx = NoCtx /\ s.aux = NoCtx
  BY <1>1 DEF FiberOK
<1>6. s.timer = c => c \notin {s.ctx, s.aux}
  BY <1>1, <1>4 DEF FiberOK
<1>7. Uses(s, c, b.event) = One(c \in {s.ctx, s.aux}) + One(s.timer = c)
  BY <1>4, <1>5 DEF Uses, One
<1>8. c \in Claims(s) <=> c \in {s.ctx, s.aux} \/ s.timer = c
  BY <1>4 DEF Claims
<1>9. QED
  BY <1>3, <1>6, <1>7, <1>8 DEF One, s

\* A context that fiber f awaits has no timeout to raise.
LEMMA ClaimsWait ==
  ASSUME NEW b, NEW f, NEW s, FiberOK(b, f, s), NEW c \in Claims(s), c # s.timer,
         b.ctx[c].ref # MULTISHOT_REFCOUNT
  PROVE  Waits(b, f, c)
<1>1. s.pc = "await" /\ c \in {s.ctx, s.aux} /\ c # NoCtx
  BY DEF Claims, FiberOK
<1>2. AwaitOK(b, f, s)
  BY <1>1 DEF FiberOK
<1>3. ASSUME c = s.ctx PROVE Waits(b, f, c)
  BY <1>1, <1>2, <1>3 DEF AwaitOK, WaitsForOne
<1>4. ASSUME c = s.aux PROVE Waits(b, f, c)
  BY <1>1, <1>2, <1>4 DEF AwaitOK, WaitsForOne
<1>5. QED
  BY <1>1, <1>3, <1>4

\* The counts when one completion less is to be handled.
LEMMA DropsCount ==
  ASSUME NEW b, Wf(b), NEW c \in Contexts, NEW n \in Nat, ContextOK(b, c, n),
         b.ctx[c].ref \notin {0, MULTISHOT_REFCOUNT}, NEW v, NEW b2, Drops(b, b2, c, v),
         HeadIs(b, c, v)
  PROVE  /\ AnswersShrink(b, b2, c) /\ Out(b, c) \in Nat /\ Out(b2, c) \in Nat
         /\ Out(b, c) = Out(b2, c) + 1 /\ ReqsOf(b2, c) = ReqsOf(b, c)
         /\ b.ctx[c].ref = Out(b, c) + n /\ Out(b, c) <= 4
<1>1. b \in Backends /\ b2 \in Backends /\ OneChain(b) /\ OneChain(b2) /\ TakenOff(b, b2)
  BY DEF Drops, Wf
<1>2. AnswersShrink(b, b2, c)
  BY <1>1, Shrinking DEF HeadIs
<1>3. ReqsOf(b2, c) = ReqsOf(b, c)
  BY DEF Drops, SameChain
<1>4. /\ Len(ReqsOf(b, c)) \in Nat /\ Done(b, c) \in Nat /\ Done(b2, c) \in Nat
      /\ Out(b, c) \in Nat /\ Out(b2, c) \in Nat
      /\ Out(b, c) = Len(ReqsOf(b, c)) + Done(b, c)
      /\ Out(b2, c) = Len(ReqsOf(b2, c)) + Done(b2, c)
  BY <1>1, OutType
<1>5. Done(b, c) = Done(b2, c) + 1
  BY <1>2 DEF AnswersShrink
<1>6. Out(b, c) = Out(b2, c) + 1
  BY <1>3, <1>4, <1>5
<1>7. CountOK(b, c, n)
  BY DEF ContextOK
<1>8. b.ctx[c].ref = Out(b, c) + n /\ Out(b, c) <= 4
  BY <1>7 DEF CountOK
<1>9. QED
  BY <1>2, <1>3, <1>4, <1>6, <1>8

LEMMA DropsSettles ==
  ASSUME NEW b, Wf(b), NEW c \in Contexts, NEW n \in {0, 1}, ContextOK(b, c, n),
         b.ctx[c].ref \notin {0, MULTISHOT_REFCOUNT}, NEW v, NEW b2, Drops(b, b2, c, v),
         HeadIs(b, c, v)
  PROVE  Settles(b2, c, n)
<1>1. /\ AnswersShrink(b, b2, c) /\ Out(b, c) \in Nat /\ Out(b2, c) \in Nat
      /\ Out(b, c) = Out(b2, c) + 1 /\ ReqsOf(b2, c) = ReqsOf(b, c)
      /\ b.ctx[c].ref = Out(b, c) + n /\ Out(b, c) <= 4
  BY DropsCount
<1>2. b2 \in Backends /\ OneChain(b2)
  BY DEF Drops, Wf
<1>3. CASE b.ctx[c].ref = 1
  <2>1. Out(b2, c) = 0 /\ n = 0
    BY <1>1, <1>3
  <2>2. ReqsOf(b2, c) = <<>> /\ Done(b2, c) = 0
    BY <1>2, <2>1, OutType
  <2>3. FreeOK(b2, c, n)
    BY <1>2, <2>1, <2>2, AnswersFinite DEF FreeOK
  <2>4. b2.ctx[c].ref = 0 /\ b2.ctx[c].type = "NONE" /\ b2.ctx[c].resume = "nil"
    BY <1>3 DEF Drops
  <2>5. \A i \in DOMAIN ReqsOf(b2, c) : FALSE
    BY <1>2, <2>2, OutType
  <2>6. KeptOK(b2, c, n)
    BY <2>2, <2>4, <2>5 DEF KeptOK, BufferKinds
  <2>7. QED
    BY <2>3, <2>4, <2>6, MultishotDistinct DEF Settles, ContextOK
<1>4. CASE b.ctx[c].ref # 1
  <2>1. /\ b2.ctx[c].ref = b.ctx[c].ref - 1
        /\ b2.ctx[c].type = b.ctx[c].type /\ b2.ctx[c].fiber = b.ctx[c].fiber
        /\ b2.ctx[c].resume = b.ctx[c].resume /\ b2.ctx[c].buffers = b.ctx[c].buffers
    BY <1>4 DEF Drops
  <2>2. b2.ctx[c].ref = Out(b2, c) + n /\ b2.ctx[c].ref \in Nat /\ b2.ctx[c].ref <= 5
        /\ b2.ctx[c].ref # 0
    BY <1>1, <1>4, <2>1
  <2>3. b2.ctx[c].ref # MULTISHOT_REFCOUNT
    BY <2>2, NotMultishot
  <2>4. CountOK(b2, c, n)
    <3>1. /\ \A i \in Answers(b, c) : ~b.cq[i].more
          /\ \A i \in DOMAIN ReqsOf(b, c) : ReqsOf(b, c)[i].kind # "MULTISHOT_ACCEPT"
          /\ b.ctx[c].type \notin {"CHAIN", "SPLICE"} => Out(b, c) <= 1
      BY DEF ContextOK, CountOK
    <3>2. \A i \in Answers(b2, c) : ~b2.cq[i].more
      BY <1>1, <3>1 DEF AnswersShrink
    <3>3. \A i \in DOMAIN ReqsOf(b2, c) : ReqsOf(b2, c)[i].kind # "MULTISHOT_ACCEPT"
      BY <1>1, <3>1, Zenon
    <3>4. Out(b2, c) <= 4 /\ (b2.ctx[c].type \notin {"CHAIN", "SPLICE"} => Out(b2, c) <= 1)
      BY <1>1, <2>1, <3>1
    <3>5. QED
      BY <2>2, <3>2, <3>3, <3>4 DEF CountOK
  <2>5. KeptOK(b2, c, n)
    <3>1. KeptOK(b, c, n)
      BY DEF ContextOK
    <3>2. QED
      BY <1>1, <2>1, <3>1, Zenon DEF KeptOK
  <2>6. /\ b2.ctx[c].fiber \in Fibers
        /\ b2.ctx[c].resume = "timeout" => b2.ctx[c].type = "TIMEOUT"
    BY <2>1 DEF ContextOK
  <2>7. QED
    BY <2>2, <2>3, <2>4, <2>5, <2>6 DEF Settles, ContextOK
<1>5. QED
  BY <1>3, <1>4

\* The fiber that holds a context finds it as it should be, one completion later.
LEMMA DropsBears ==
  ASSUME NEW b, NEW F, BackendOK(b, F), NEW c \in Contexts, NEW f \in Fibers, Mine(b, f, c),
         ContextOK(b, c, 1), b.ctx[c].ref # MULTISHOT_REFCOUNT,
         NEW v, HeadIs(b, c, v), NEW b2, Drops(b, b2, c, v), Wakens(b, b2, c, f, v)
  PROVE  Alike(b, b2, f, c) /\ (c = F[f].aux => PipeOK(b2, F[f]))
<1>1. Wf(b) /\ b.ctx[c].ref # 0 /\ FiberOK(b, f, F[f])
  BY DEF Mine, BackendOK, Good
<1>2. /\ AnswersShrink(b, b2, c) /\ Out(b, c) \in Nat /\ Out(b2, c) \in Nat
      /\ Out(b, c) = Out(b2, c) + 1 /\ ReqsOf(b2, c) = ReqsOf(b, c)
      /\ b.ctx[c].ref = Out(b, c) + 1 /\ Out(b, c) <= 4
  BY <1>1, DropsCount
<1>3. /\ b.ctx[c].ref # 1 /\ b.ctx[c].ref - 1 \in Nat /\ b.ctx[c].ref - 1 <= 5
      /\ b.ctx[c].ref - 1 # 0
  BY <1>2
<1>4. /\ b2.ctx[c].ref = b.ctx[c].ref - 1 /\ b2.ctx[c].result = v
      /\ b2.ctx[c].type = b.ctx[c].type /\ b2.ctx[c].fiber = b.ctx[c].fiber
      /\ b2.ctx[c].resume = b.ctx[c].resume /\ b2.event = b.event
      /\ (Doomed(b2, c) => Doomed(b, c))
  BY <1>3 DEF Drops, SameChain
<1>5. b2.ctx[c].ref # 0 /\ b2.ctx[c].ref # MULTISHOT_REFCOUNT
  BY <1>3, <1>4, NotMultishot
<1>6. Mine(b2, f, c)
  BY <1>4, <1>5 DEF Mine
<1>7. WillWake(b2, f, c)
  <2>1. SUFFICES ASSUME Out(b2, c) = 0, b2.sched[f] = NoValue PROVE v = ECANCELED
    BY <1>4 DEF WillWake
  <2>2. b.ctx[c].ref = 2
    BY <1>2, <2>1
  <2>3. QED
    BY <2>1, <2>2 DEF Wakens
<1>8. Waits(b, f, c) => Waits(b2, f, c)
  BY <1>4, <1>5, <1>6, <1>7 DEF Waits
<1>9. 1 \in Answers(b, c) /\ \A j \in Answers(b2, c) : \E i \in Answers(b, c) : b2.cq[j] = b.cq[i]
  BY <1>2 DEF AnswersShrink
<1>10. ASSUME WaitsForOne(b, f, c) PROVE WaitsForOne(b2, f, c)
  <2>1. /\ Waits(b, f, c) /\ ~Doomed(b, c) /\ Out(b, c) <= 1
        /\ \A i \in Answers(b, c) : b.cq[i].res # ECANCELED
    BY <1>10 DEF WaitsForOne, Uncancelled
  <2>2. v # ECANCELED
    BY <1>9, <2>1 DEF HeadIs
  <2>3. \A j \in Answers(b2, c) : b2.cq[j].res # ECANCELED
    BY <1>9, <2>1, Zenon
  <2>4. Uncancelled(b2, c)
    BY <1>4, <2>1, <2>2, <2>3 DEF Uncancelled
  <2>5. QED
    BY <1>2, <1>8, <2>1, <2>4 DEF WaitsForOne
<1>11. Alike(b, b2, f, c)
  BY <1>4, <1>5, <1>6, <1>8, <1>10 DEF Alike
<1>12. ASSUME c = F[f].aux PROVE PipeOK(b2, F[f])
  <2>1. SUFFICES ASSUME F[f].pc = "await", F[f].op = "double_splice"
                 PROVE  Drains(b2, c, F[f].ctx # NoCtx)
    BY <1>12 DEF PipeOK
  <2>2. Drains(b, c, F[f].ctx # NoCtx)
    BY <1>1, <1>12, <2>1 DEF FiberOK, AwaitOK
  <2>3. \A i \in DOMAIN ReqsOf(b2, c) : ReqsOf(b2, c)[i].kind = "DRAIN"
    BY <1>2, <2>2, Zenon DEF Drains
  <2>4. ASSUME F[f].ctx # NoCtx
        PROVE  (\A i \in Answers(b2, c) : b2.cq[i].res # 0) /\ b2.ctx[c].result # 0
    <3>1. \A i \in Answers(b, c) : b.cq[i].res # 0
      BY <2>2, <2>4 DEF Drains
    <3>2. v # 0
      BY <1>9, <3>1 DEF HeadIs
    <3>3. \A j \in Answers(b2, c) : b2.cq[j].res # 0
      BY <1>9, <3>1, Zenon
    <3>4. QED
      BY <1>4, <3>2, <3>3
  <2>5. QED
    BY <2>3, <2>4 DEF Drains
<1>13. QED
  BY <1>11, <1>12

LEMMA DropsStep ==
  ASSUME NEW b, NEW F, BackendOK(b, F), NEW c \in Contexts, 1 \in Answers(b, c),
         b.ctx[c].ref # MULTISHOT_REFCOUNT, NEW v, HeadIs(b, c, v), NEW f, Mine(b, f, c),
         NEW b2, Drops(b, b2, c, v), Wakens(b, b2, c, f, v)
  PROVE  BackendOK(b2, F)
<1> DEFINE n == HoldersOf(F, b.event, c)
<1>1. /\ f \in Fibers /\ Mine(b, f, c) /\ c # b.event /\ n \in Nat /\ ContextOK(b, c, n)
      /\ Private(F, f, c)
  <2>1. b.ctx[c].fiber = f
    BY DEF Mine
  <2>2. QED
    BY <2>1, AnsweredContext
<1>2. n \in {0, 1} /\ (c \in Claims(F[f]) <=> n = 1)
  BY <1>1, ClaimCounts
<1> HIDE DEF n
<1>3. Wf(b) /\ b.ctx[c].ref # 0 /\ Dooms(b) /\ \A g \in Fibers : FiberOK(b, g, F[g])
  BY <1>1 DEF Mine, BackendOK, Good
<1>4. /\ AnswersShrink(b, b2, c) /\ Out(b, c) \in Nat /\ Out(b2, c) \in Nat
      /\ Out(b, c) = Out(b2, c) + 1 /\ ReqsOf(b2, c) = ReqsOf(b, c)
      /\ b.ctx[c].ref = Out(b, c) + n
  BY <1>1, <1>3, DropsCount
<1>5. Settles(b2, c, n)
  BY <1>1, <1>2, <1>3, DropsSettles
<1>6. \A d \in Contexts : d # c => Untouched(b, b2, d)
  <2>1. SUFFICES ASSUME NEW d \in Contexts, d # c PROVE Untouched(b, b2, d)
    OBVIOUS
  <2>2. Moved(b, b2, d, 1)
    BY <1>4, <2>1 DEF AnswersShrink
  <2>3. b2.ctx[d] = b.ctx[d] /\ SameChain(b, b2, d)
    BY <2>1 DEF Drops
  <2>4. QED
    BY <2>2, <2>3 DEF Untouched
<1>7. ASSUME b2.sched[f] # b.sched[f], b2.sched[f] = "timeout" PROVE F[f].timer # NoCtx
  <2>1. b.ctx[c].ref = 2 /\ b.ctx[c].resume = "timeout"
    BY <1>7 DEF Wakens
  <2>2. Out(b, c) <= 1
    <3>1. b.ctx[c].type = "TIMEOUT" /\ CountOK(b, c, n)
      BY <1>1, <1>3, <2>1 DEF ContextOK
    <3>2. QED
      BY <3>1 DEF CountOK
  <2>3. n = 1
    BY <1>2, <1>4, <2>1, <2>2
  <2>4. FiberOK(b, f, F[f]) /\ c \in Claims(F[f])
    BY <1>1, <1>2, <1>3, <2>3
  <2>5. c = F[f].timer
    <3>1. SUFFICES ASSUME c # F[f].timer PROVE FALSE
      OBVIOUS
    <3> DEFINE s == F[f]
    <3>2. FiberOK(b, f, s) /\ c \in Claims(s) /\ c # s.timer
      BY <2>4, <3>1
    <3> HIDE DEF s
    <3>3. Waits(b, f, c)
      BY <3>2, ClaimsWait
    <3>4. QED
      BY <2>1, <3>3 DEF Waits
  <2>6. QED
    BY <2>5, NoCtxContext
<1>8. \A g \in Fibers : SchedKept(b, b2, g, F[g])
  <2>1. SUFFICES ASSUME NEW g \in Fibers PROVE SchedKept(b, b2, g, F[g])
    OBVIOUS
  <2>2. F[g].timer = NoCtx => b.sched[g] # "timeout"
    BY <1>3, <2>1 DEF FiberOK
  <2>3. CASE g # f
    BY <2>2, <2>3 DEF SchedKept, Wakens
  <2>4. CASE g = f
    BY <1>7, <2>2, <2>4 DEF SchedKept, Wakens
  <2>5. QED
    BY <2>3, <2>4
<1>9. AskedOK(b2, c) /\ (Doomed(b2, c) => ReqsOf(b2, c) # <<>>)
  <2>1. AskedOK(b, c) /\ (Doomed(b, c) => ReqsOf(b, c) # <<>>)
    BY <1>3 DEF Dooms
  <2>2. (Asked(b2, c) => Asked(b, c)) /\ (Doomed(b2, c) => Doomed(b, c))
    BY DEF Drops, SameChain, SameAsked
  <2>3. QED
    BY <1>4, <2>1, <2>2 DEF AskedOK
<1>10. Happens(b, b2, F, f, c)
  BY <1>1, <1>6, <1>8, <1>9 DEF Happens, Drops
<1>11. Bears(b, b2, f, c, F[f])
  <2>1. SUFFICES ASSUME c \in Claims(F[f])
                 PROVE  Alike(b, b2, f, c) /\ (c = F[f].aux => PipeOK(b2, F[f]))
    BY DEF Bears
  <2>2. ContextOK(b, c, 1)
    BY <1>1, <1>2, <2>1
  <2>3. QED
    BY <1>1, <2>2, DropsBears
<1>12. QED
  BY <1>1, <1>5, <1>10, <1>11, HappensStep DEF n

LEMMA ClosesStep ==
  ASSUME NEW b, NEW F, BackendOK(b, F), NEW c \in Contexts, 1 \in Answers(b, c),
         b.ctx[c].ref = MULTISHOT_REFCOUNT, HeadIs(b, c, ECANCELED), NEW f, Mine(b, f, c),
         NEW b2, Closes(b, b2, c)
  PROVE  BackendOK(b2, F)
<1> DEFINE n == HoldersOf(F, b.event, c)
<1>1. /\ f \in Fibers /\ c # b.event /\ n \in Nat /\ ContextOK(b, c, n) /\ Private(F, f, c)
  <2>1. b.ctx[c].fiber = f
    BY DEF Mine
  <2>2. QED
    BY <2>1, AnsweredContext
<1>2. n \in {0, 1} /\ (c \in Claims(F[f]) <=> n = 1)
  BY <1>1, ClaimCounts
<1> HIDE DEF n
<1>3. /\ Wf(b) /\ Wf(b2) /\ Dooms(b) /\ b \in Backends /\ b2 \in Backends /\ OneChain(b2)
      /\ \A g \in Fibers : FiberOK(b, g, F[g])
  BY DEF BackendOK, Good, Closes, Wf
<1>4. MultishotOK(b, c, n)
  BY <1>1, MultishotDistinct DEF ContextOK
<1>5. HasEnded(b, c) /\ Answers(b, c) = {1} /\ n = 0
  BY <1>3, <1>4, ShotAnswered DEF ShotKnown
<1>6. AnswersShrink(b, b2, c)
  BY <1>3, Shrinking DEF Closes, HeadIs
<1>7. ReqsOf(b, c) = <<>> /\ ReqsOf(b2, c) = <<>>
  BY <1>5 DEF HasEnded, Closes, SameChain
<1>8. Answers(b2, c) = {}
  <2>1. SUFFICES ASSUME NEW j \in Answers(b2, c) PROVE FALSE
    OBVIOUS
  <2>2. j \in Int /\ j + 1 = 1
    BY <1>5, <1>6, <2>1 DEF AnswersShrink
  <2>3. j \in 1..Len(b2.cq) /\ Len(b2.cq) \in Nat
    BY <1>3, <2>1, AnswersFinite
  <2>4. QED
    BY <2>2, <2>3
<1>9. Settles(b2, c, n)
  <2>1. FreeOK(b2, c, n)
    BY <1>5, <1>7, <1>8 DEF FreeOK
  <2>2. b2.ctx[c].ref = 0 /\ b2.ctx[c].type = "NONE" /\ b2.ctx[c].resume = "nil"
    BY DEF Closes
  <2>3. \A i \in DOMAIN ReqsOf(b2, c) : FALSE
    BY <1>3, <1>7, OutType
  <2>4. KeptOK(b2, c, n)
    BY <1>7, <2>2, <2>3 DEF KeptOK, BufferKinds
  <2>5. QED
    BY <1>1, <2>1, <2>2, <2>4, MultishotDistinct DEF Settles, ContextOK
<1>10. \A d \in Contexts : d # c => Untouched(b, b2, d)
  <2>1. SUFFICES ASSUME NEW d \in Contexts, d # c PROVE Untouched(b, b2, d)
    OBVIOUS
  <2>2. Moved(b, b2, d, 1)
    BY <1>6, <2>1 DEF AnswersShrink
  <2>3. b2.ctx[d] = b.ctx[d] /\ SameChain(b, b2, d)
    BY <2>1 DEF Closes
  <2>4. QED
    BY <2>2, <2>3 DEF Untouched
<1>11. \A g \in Fibers : SchedKept(b, b2, g, F[g])
  BY <1>3 DEF SchedKept, FiberOK, Closes
<1>12. ~Doomed(b2, c) /\ AskedOK(b2, c)
  <2>1. Doomed(b2, c) => Doomed(b, c)
    BY DEF Closes, SameChain
  <2>2. ~Doomed(b, c)
    BY <1>3, <1>7 DEF Dooms
  <2>3. QED
    BY <2>1, <2>2, NotDoomed
<1>13. Happens(b, b2, F, f, c)
  BY <1>1, <1>10, <1>11, <1>12 DEF Happens, Closes
<1>14. Bears(b, b2, f, c, F[f])
  BY <1>2, <1>5 DEF Bears
<1>15. QED
  BY <1>1, <1>9, <1>13, <1>14, HappensStep DEF n

LEMMA ShotResultStep ==
  ASSUME NEW b, NEW F, BackendOK(b, F), NEW c \in Contexts, 1 \in Answers(b, c),
         b.ctx[c].ref = MULTISHOT_REFCOUNT, NEW e, HeadIs(b, c, e.res), e.res # ECANCELED,
         NEW f, Mine(b, f, c), NEW b2, ResultSet(b, b2, c, e)
  PROVE  BackendOK(b2, F)
<1> DEFINE n == HoldersOf(F, b.event, c)
<1>1. /\ f \in Fibers /\ c # b.event /\ n \in Nat /\ ContextOK(b, c, n) /\ Private(F, f, c)
  <2>1. b.ctx[c].fiber = f
    BY DEF Mine
  <2>2. QED
    BY <2>1, AnsweredContext
<1> HIDE DEF n
<1>2. /\ Wf(b) /\ Wf(b2) /\ Dooms(b) /\ b \in Backends /\ b2 \in Backends
      /\ \A g \in Fibers : FiberOK(b, g, F[g])
  BY DEF BackendOK, Good, ResultSet, Wf
<1>3. /\ b2.ctx[c].ref = b.ctx[c].ref /\ b2.ctx[c].type = b.ctx[c].type
      /\ b2.ctx[c].fiber = b.ctx[c].fiber /\ b2.ctx[c].resume = b.ctx[c].resume
      /\ b2.ctx[c].buffers = b.ctx[c].buffers /\ b2.event = b.event /\ b2.sched = b.sched
      /\ SameChain(b, b2, c) /\ TakenOff(b, b2)
  BY DEF ResultSet, SameButResult
<1>4. AnswersShrink(b, b2, c)
  BY <1>2, <1>3, Shrinking DEF HeadIs
<1>5. MultishotOK(b2, c, n)
  <2>1. MultishotOK(b, c, n)
    BY <1>1, MultishotDistinct DEF ContextOK
  <2> DEFINE v == e.res
  <2>2. v # ECANCELED /\ HeadIs(b, c, v)
    OBVIOUS
  <2> HIDE DEF v
  <2>3. QED
    BY <1>2, <1>3, <1>4, <2>1, <2>2, ShotGoesOn
<1>6. KeptOK(b2, c, n)
  <2>1. KeptOK(b, c, n) /\ ReqsOf(b2, c) = ReqsOf(b, c)
    BY <1>1, <1>3 DEF ContextOK, SameChain
  <2>2. QED
    BY <1>3, <2>1, Zenon DEF KeptOK
<1>7. Settles(b2, c, n)
  <2>1. /\ b2.ctx[c].ref = MULTISHOT_REFCOUNT /\ b2.ctx[c].fiber \in Fibers
        /\ b2.ctx[c].resume = "timeout" => b2.ctx[c].type = "TIMEOUT"
    BY <1>1, <1>3, MultishotDistinct DEF ContextOK
  <2>2. QED
    BY <1>1, <1>5, <1>6, <2>1, MultishotDistinct DEF Settles, ContextOK
<1>8. \A d \in Contexts : d # c => Untouched(b, b2, d)
  <2>1. SUFFICES ASSUME NEW d \in Contexts, d # c PROVE Untouched(b, b2, d)
    OBVIOUS
  <2>2. Moved(b, b2, d, 1)
    BY <1>4, <2>1 DEF AnswersShrink
  <2>3. b2.ctx[d] = b.ctx[d] /\ SameChain(b, b2, d)
    BY <2>1 DEF ResultSet
  <2>4. QED
    BY <2>2, <2>3 DEF Untouched
<1>9. \A g \in Fibers : SchedKept(b, b2, g, F[g])
  BY <1>2, <1>3 DEF SchedKept, FiberOK
<1>10. AskedOK(b2, c) /\ (Doomed(b2, c) => ReqsOf(b2, c) # <<>>)
  <2>1. AskedOK(b, c) /\ (Doomed(b, c) => ReqsOf(b, c) # <<>>)
    BY <1>2 DEF Dooms
  <2>2. QED
    BY <1>3, <2>1, SameAskedOK DEF SameChain
<1>11. Happens(b, b2, F, f, c)
  BY <1>1, <1>2, <1>3, <1>8, <1>9, <1>10 DEF Happens
<1>12. Alike(b, b2, f, c)
  BY <1>3 DEF Alike, Mine, Waits, WaitsForOne
<1>13. ASSUME c = F[f].aux PROVE PipeOK(b2, F[f])
  <2>1. SUFFICES ASSUME F[f].pc = "await", F[f].op = "double_splice" PROVE FALSE
    BY DEF PipeOK
  <2>2. WaitsForOne(b, f, c)
    BY <1>1, <1>2, <1>13, <2>1 DEF FiberOK, AwaitOK
  <2>3. QED
    BY <2>2 DEF WaitsForOne, Waits
<1>14. Bears(b, b2, f, c, F[f])
  BY <1>12, <1>13 DEF Bears
<1>15. QED
  BY <1>1, <1>7, <1>11, <1>14, HappensStep DEF n

LEMMA SameUringStep ==
  ASSUME NEW b, NEW F, BackendOK(b, F), NEW b2, SameUring(b, b2), b2.sched = b.sched
  PROVE  BackendOK(b2, F) /\ (SqOK(b) => SqOK(b2))
<1>1. Between(b, F, NoFiber, Held(F, b.event)) /\ Dooms(b) /\ Wf(b)
      /\ \A g \in Fibers : FiberOK(b, g, F[g])
  BY NobodyBetween DEF BackendOK, Good
<1>2. Wf(b2) /\ (\A c \in Contexts : Untouched(b, b2, c)) /\ Dooms(b2) /\ (SqOK(b) => SqOK(b2))
  BY <1>1, SameUringUntouched, SameUringDooms
<1>3. b2.event = b.event
  BY DEF SameUring, SameContexts
<1>4. \A g \in Fibers : SchedKept(b, b2, g, F[g])
  BY <1>1 DEF SchedKept, FiberOK
<1>5. Between(b2, F, NoFiber, Held(F, b.event))
  BY <1>1, <1>2, <1>3, <1>4, AllUntouched
<1>6. QED
  BY <1>2, <1>3, <1>5, NobodyBetween

\* Queue_push on the accept queue of fiber q.
LEMMA PushStep ==
  ASSUME NEW b, NEW F, BackendOK(b, F), SqOK(b), NEW q \in Fibers, NEW fd \in Int,
         NEW b2, b2 = Queue_push(b, q, fd)
  PROVE  BackendOK(b2, F) /\ SqOK(b2)
<1> DEFINE r == Append(b.queues[q].fds, fd)
           u == [b.queues[q] EXCEPT !.fds = r]
           b1 == [b EXCEPT !.queues[q].fds = Append(@, fd)]
           w == b.queues[q].waiters
           f == Head(w)
           b3 == [b1 EXCEPT !.queues[q].waiters = Tail(@)]
<1>1. b \in Backends
  BY DEF BackendOK, Good, Wf
<1>2. b.queues[q].fds \in Seq(Int) /\ w \in Seq(Fibers)
  BY <1>1, QueueFields
<1>3. r \in Seq(Int)
  BY <1>2
<1>4. IsQueue(b, b1, q, u)
  BY DEF IsQueue
<1>5. b2 = IF w = <<>> THEN b1 ELSE Fiber_make_runnable(b3, f, "nil")
  BY DEF Queue_push
<1> HIDE DEF r
<1>6. u \in AcceptQueues
  BY <1>1, <1>3, QueueFields
<1> DEFINE v == Tail(b1.queues[q].waiters)
           t == [b1.queues[q] EXCEPT !.waiters = v]
<1>7. IsQueue(b1, b3, q, t)
  BY DEF IsQueue
<1>8. u.waiters = w
  OBVIOUS
<1> HIDE DEF u, b1, b3, w
<1>9. QueueAs(b, b1, q, u)
  BY <1>1, <1>4, <1>6, QueueSame
<1>10. SameUring(b, b1) /\ b1.sched = b.sched /\ b1.queues[q] = u
  BY <1>9 DEF QueueAs
<1>11. BackendOK(b1, F) /\ SqOK(b1)
  BY <1>10, SameUringStep
<1>12. ASSUME w # <<>> PROVE BackendOK(b2, F) /\ SqOK(b2)
  <2>1. f \in Fibers /\ Tail(w) \in Seq(Fibers)
    BY <1>2, <1>12
  <2>2. v \in Seq(Fibers) /\ b1 \in Backends
    BY <1>8, <1>10, <2>1 DEF SameUring
  <2> HIDE DEF v, f
  <2>3. t \in AcceptQueues
    BY <2>2, QueueFields
  <2> HIDE DEF t
  <2>4. QueueAs(b1, b3, q, t)
    BY <1>7, <2>2, <2>3, QueueSame
  <2>5. BackendOK(b3, F) /\ SqOK(b3)
    BY <1>11, <2>4, SameUringStep DEF QueueAs
  <2>6. "nil" \in Values /\ "nil" # "timeout"
    BY DEF Values
  <2>7. Between(b3, F, f, Held(F, b3.event)) /\ Dooms(b3) /\ FiberOK(b3, f, F[f])
    <3>1. F \in [Fibers -> FiberStates]
      BY <2>5 DEF BackendOK
    <3>2. QED
      BY <2>1, <2>5, <3>1, HeldType DEF Between, BackendOK
  <2>8. b2 = Fiber_make_runnable(b3, f, "nil")
    BY <1>5, <1>12
  <2>9. QED
    BY <2>1, <2>5, <2>6, <2>7, <2>8, MadeRunnable
<1>13. QED
  BY <1>5, <1>11, <1>12

\* ... and of a multishot accept.
LEMMA HandleShot ==
  ASSUME NEW b, NEW F, BackendOK(b, F), SqOK(b), NEW c \in Contexts, 1 \in Answers(b, c),
         b.ctx[c].ref = MULTISHOT_REFCOUNT, NEW e \in Completions, e.ctx = c,
         HeadIs(b, c, e.res), b.cq[1].more = e.more, NEW f, Mine(b, f, c),
         NEW b1, ResultSet(b, b1, c, e), NEW b2, b2 = handle_multishot_accept_completion(b1, e)
  PROVE  BackendOK(b2, F) /\ SqOK(b2)
<1>1. /\ Wf(b) /\ b \in Backends /\ Wf(b1) /\ b1 \in Backends /\ TakenOff(b, b1)
      /\ b1.event = b.event /\ b1.sq = b.sq
      /\ b1.pending = b.pending /\ b1.sched = b.sched /\ b1.acceptq = b.acceptq
      /\ \A d \in Contexts : d # c => b1.ctx[d] = b.ctx[d]
      /\ \A d \in Contexts : SameChain(b, b1, d)
      /\ b1.ctx[c].ref = MULTISHOT_REFCOUNT
  BY DEF ResultSet, Wf, BackendOK, Good, SameButResult
<1>2. SqOK(b1)
  BY <1>1 DEF SqOK
<1>3. CASE e.res = ECANCELED
  <2> DEFINE b3 == context_store_release(b1, c)
  <2>1. b2 = [b3 EXCEPT !.acceptq = NoFiber]
    BY <1>3 DEF handle_multishot_accept_completion
  <2>2. LastReference(b1.ctx[c]) /\ b1.ctx[c].ref # 0
    BY <1>1, MultishotDistinct DEF LastReference
  <2>3. /\ Wf(b3) /\ OthersKept(b1, b3, c) /\ b3.event = b1.event
        /\ b3.sq = b1.sq /\ b3.pending = b1.pending
        /\ (\A d \in Contexts : SameChain(b1, b3, d)) /\ b3.ctx[c] = Freed
    BY <1>1, <2>2, Released
  <2> HIDE DEF b3
  <2>4. b3.cq = b1.cq /\ b3.sched = b1.sched /\ \A d \in Contexts : d # c => b3.ctx[d] = b1.ctx[d]
    BY <2>3 DEF OthersKept, SameRest
  <2>5. Closes(b, b3, c)
    <3>1. b3.ctx[c].ref = 0 /\ b3.ctx[c].type = "NONE" /\ b3.ctx[c].resume = "nil"
      BY <2>3 DEF Freed, NewContext
    <3>2. \A d \in Contexts : SameChain(b, b3, d)
      BY <1>1, <2>3 DEF SameChain, SameAsked
    <3>3. TakenOff(b, b3)
      BY <1>1, <2>4 DEF TakenOff
    <3>4. \A d \in Contexts : d # c => b3.ctx[d] = b.ctx[d]
      BY <1>1, <2>4, Zenon
    <3>5. Wf(b3) /\ b3.event = b.event /\ b3.sched = b.sched
      BY <1>1, <2>3, <2>4
    <3>6. QED
      BY <3>1, <3>2, <3>3, <3>4, <3>5 DEF Closes
  <2>6. BackendOK(b3, F)
    <3>1. HeadIs(b, c, ECANCELED)
      BY <1>3
    <3>2. QED
      BY <2>5, <3>1, ClosesStep
  <2>7. SqOK(b3) /\ b3 \in Backends
    BY <1>2, <2>3 DEF SqOK, Wf
  <2>8. IsAccepting(b3, b2, NoFiber, b3.queues)
    <3>1. Shaped(b3)
      BY <2>7, ShapedBackend
    <3>2. QED
      BY <2>1, <3>1 DEF Shaped, IsAccepting
  <2>9. SameUring(b3, b2) /\ b2.sched = b3.sched
    <3>1. b3.queues \in [Fibers -> AcceptQueues] /\ NoFiber \in Fibers \cup {NoFiber}
      BY <2>7, BackendFields
    <3>2. QED
      BY <2>7, <2>8, <3>1, AcceptingSame
  <2>10. QED
    BY <2>6, <2>7, <2>9, SameUringStep
<1>4. CASE e.res # ECANCELED
  <2>1. BackendOK(b1, F)
    BY <1>4, ShotResultStep
  <2>2. e.more
    <3> DEFINE v == e.res
               n == HoldersOf(F, b.event, c)
    <3>1. ContextOK(b, c, n)
      BY AnsweredContext
    <3>2. MultishotOK(b, c, n)
      BY <3>1, MultishotDistinct DEF ContextOK
    <3>3. HeadIs(b, c, v) /\ v # ECANCELED
      BY <1>4
    <3> HIDE DEF v, n
    <3>4. ShotKnown(b, c, n, v)
      BY <1>1, <3>2, <3>3, ShotAnswered
    <3>5. QED
      BY <3>3, <3>4 DEF ShotKnown
  <2>3. b2 = IF b1.acceptq = NoFiber THEN b1 ELSE Queue_push(b1, b1.acceptq, e.res)
    BY <1>4, <2>2 DEF handle_multishot_accept_completion
  <2>4. CASE b1.acceptq = NoFiber
    BY <1>2, <2>1, <2>3, <2>4
  <2>5. CASE b1.acceptq # NoFiber
    <3> DEFINE q == b1.acceptq
               v == e.res
    <3>1. q \in Fibers
      BY <1>1, <2>5, BackendFields
    <3>2. v \in Int
      BY BackendAssumption DEF Completions, Outcomes, ECANCELED
    <3>3. b2 = Queue_push(b1, q, v)
      BY <2>3, <2>5
    <3> HIDE DEF q, v
    <3>4. QED
      BY <1>2, <2>1, <3>1, <3>2, <3>3, PushStep
  <2>6. QED
    BY <2>4, <2>5
<1>5. QED
  BY <1>3, <1>4

LEMMA HandleStep ==
  ASSUME NEW b, NEW F, BackendOK(b, F), SqOK(b), b.cq # <<>>,
         NEW b0, b0 = [b EXCEPT !.cq = Tail(@)],
         NEW b2, b2 = io_uring_backend_handle_completion(b0, Head(b.cq))
  PROVE  BackendOK(b2, F) /\ SqOK(b2)
<1> DEFINE e == Head(b.cq)
           c == e.ctx
           b1 == [b0 EXCEPT !.ctx[c].result = e.res]
           y == b1.ctx[c]
           b3 == IF Wakes(y) THEN Fiber_make_runnable(b1, y.fiber, y.resume) ELSE b1
<1>1. Wf(b) /\ b \in Backends
  BY DEF BackendOK, Good, Wf
<1>2. c \in Contexts /\ e \in Completions /\ b.cq[1] = e /\ ResultSet(b, b1, c, e)
  BY <1>1, ResultStep
<1>3. b2 = IF y.ref = MULTISHOT_REFCOUNT THEN handle_multishot_accept_completion(b1, e)
           ELSE context_store_release(b3, c)
  BY DEF io_uring_backend_handle_completion
<1>4. 1 \in Answers(b, c)
  <2>1. b.cq \in Seq(Completions)
    BY <1>1, BackendFields
  <2>2. 1 \in DOMAIN b.cq
    BY <2>1
  <2>3. QED
    BY <1>2, <2>2 DEF Answers
<1>5. HeadIs(b, c, e.res) /\ b.cq[1].more = e.more /\ e.ctx = c
  BY <1>2 DEF HeadIs
<1> HIDE DEF e, b1, b3
<1>6. b3 = IF Wakes(y) THEN Fiber_make_runnable(b1, y.fiber, y.resume) ELSE b1
  BY DEF b3
<1> HIDE DEF c
<1> DEFINE f == b.ctx[c].fiber
<1>7. f \in Fibers /\ Mine(b, f, c)
  BY <1>2, <1>4, AnsweredContext
<1>8. y.ref = b.ctx[c].ref /\ y.fiber = f
  BY <1>2 DEF ResultSet, SameButResult
<1> HIDE DEF f
<1>9. CASE b.ctx[c].ref = MULTISHOT_REFCOUNT
  <2>1. b2 = handle_multishot_accept_completion(b1, e)
    BY <1>3, <1>8, <1>9
  <2>2. QED
    BY <1>2, <1>4, <1>5, <1>7, <1>9, <2>1, HandleShot
<1>10. CASE b.ctx[c].ref # MULTISHOT_REFCOUNT
  <2>1. b2 = context_store_release(b3, c)
    BY <1>3, <1>8, <1>10
  <2>2. b3 = IF Wakes(b1.ctx[c]) THEN Fiber_make_runnable(b1, f, b1.ctx[c].resume) ELSE b1
    BY <1>6, <1>8
  <2>3. b.ctx[c].ref \notin {0, MULTISHOT_REFCOUNT}
    BY <1>7, <1>10 DEF Mine
  <2> HIDE DEF y
  <2> DEFINE v == e.res
  <2>4. /\ Drops(b, b2, c, v) /\ Wakens(b, b2, c, f, v)
        /\ b2.sq = b.sq /\ b2.pending = b.pending
    BY <1>1, <1>2, <1>7, <2>1, <2>2, <2>3, HandleCounted
  <2>5. HeadIs(b, c, v)
    BY <1>5
  <2> HIDE DEF v
  <2>6. BackendOK(b2, F)
    BY <1>2, <1>4, <1>7, <1>10, <2>4, <2>5, DropsStep
  <2>7. QED
    BY <2>4, <2>6 DEF SqOK
<1>11. QED
  BY <1>9, <1>10

LEMMA HandleAction ==
  ASSUME UInv, io_uring_backend_handle_ready_cqes
  PROVE  UInv'
<1> DEFINE b0 == [bk EXCEPT !.cq = Tail(@)]
           b2 == io_uring_backend_handle_completion(b0, Head(bk.cq))
<1>1. BackendOK(bk, fs) /\ SqOK(bk)
  BY InvParts
<1>2. bk.cq # <<>> /\ bk' = b2 /\ fs' = fs /\ cur' = NoFiber
  BY DEF io_uring_backend_handle_ready_cqes
<1>3. BackendOK(b2, fs) /\ SqOK(b2)
  BY <1>1, <1>2, HandleStep
<1> HIDE DEF b2
<1>4. NoFiber \notin Fibers
  BY BackendAssumption
<1>5. QED
  BY <1>2, <1>3, <1>4 DEF UInv

----------------------------------------------------------------------------
(* Every step *)

LEMMA Stutter ==
  ASSUME UInv, UNCHANGED vars
  PROVE  UInv'
BY DEF UInv, vars

LEMMA ReadingAction ==
  ASSUME UInv, NEW f \in Fibers,
         \/ Backend_read_loop(f) \/ Backend_feed_loop(f) \/ Backend_recv_loop(f)
         \/ Backend_recv_feed_loop(f)
  PROVE  UInv'
<1>1. PICK o \in ReadOps, t \in {"READ", "RECV"} : ReadLoop(f, o, t)
  BY DEF Backend_read_loop, Backend_feed_loop, Backend_recv_loop, Backend_recv_feed_loop, ReadOps
<1>2. QED
  BY <1>1, ReadLoopAction

LEMMA WritingAction ==
  ASSUME UInv, NEW f \in Fibers,
         Backend_write(f) \/ Backend_writev(f) \/ Backend_send(f) \/ Backend_sendmsg(f)
  PROVE  UInv'
<1>1. PICK o \in WriteOps, t \in {"WRITE", "WRITEV", "SEND", "SENDMSG"} : WriteLoop(f, o, t)
  BY DEF Backend_write, Backend_writev, Backend_send, Backend_sendmsg, WriteOps
<1>2. QED
  BY <1>1, WriteLoopAction

LEMMA FiberStep ==
  ASSUME FewFibers, UInv, NEW f \in Fibers,
        \/ Run(f) \/ Schedule(f) \/ Start(f) \/ StartQueued(f) \/ StartEvent(f)
        \/ StartMultishot(f) \/ StartTimerLoop(f) \/ StartChain(f)
        \/ StartSpliceChunks(f) \/ StartDoubleSplice(f) \/ Backend_snooze(f) \/ Finish(f)
        \/ Backend_post_fork(f) \/ Backend_timeout(f) \/ Backend_timeout_ensure(f)
        \/ Backend_read(f) \/ Backend_read_loop(f) \/ Backend_feed_loop(f)
        \/ Backend_recv(f) \/ Backend_recvmsg(f) \/ Backend_recv_loop(f)
        \/ Backend_recv_feed_loop(f) \/ Backend_write(f) \/ Backend_writev(f)
        \/ Backend_send(f) \/ Backend_sendmsg(f) \/ io_uring_backend_accept(f)
        \/ Backend_accept(f) \/ accept_loop_from_queue(f) \/ Backend_connect(f)
        \/ Backend_close(f) \/ Backend_tee(f) \/ io_uring_backend_splice(f)
        \/ io_uring_backend_wait_fd(f) \/ Backend_wait_event(f) \/ Backend_sleep(f)
        \/ Backend_timer_loop(f) \/ Backend_chain(f) \/ Backend_splice_chunks(f)
        \/ double_splice_safe(f)
  PROVE  UInv'
<1>1. CASE \/ Run(f) \/ Schedule(f) \/ Finish(f) \/ Backend_post_fork(f) \/ Backend_snooze(f)
  BY <1>1, RunAction, ScheduleAction, FinishAction, ForkAction, SnoozeAction, Zenon
<1>2. CASE \/ Start(f) \/ StartTimerLoop(f) \/ StartQueued(f) \/ StartEvent(f) \/ StartMultishot(f)
           \/ StartChain(f) \/ StartSpliceChunks(f) \/ StartDoubleSplice(f)
  BY <1>2, StartAction, StartQueuedAction, StartEventAction, StartMultishotAction,
     StartChainAction, StartDoubleSpliceAction, Zenon
<1>3. CASE \/ Backend_timeout(f) \/ Backend_timeout_ensure(f) \/ Backend_timer_loop(f)
           \/ Backend_wait_event(f) \/ Backend_accept(f) \/ accept_loop_from_queue(f)
  BY <1>3, TimeoutAction, TimeoutEnsureAction, TimerLoopAction, WaitEventAction, QueuedAction,
     AcceptLoopAction, Zenon
<1>4. CASE \/ Backend_read(f) \/ Backend_recv(f) \/ Backend_recvmsg(f)
           \/ Backend_read_loop(f) \/ Backend_feed_loop(f) \/ Backend_recv_loop(f)
           \/ Backend_recv_feed_loop(f) \/ Backend_write(f) \/ Backend_writev(f)
           \/ Backend_send(f) \/ Backend_sendmsg(f)
  BY <1>4, ReadAction, RecvAction, ReadingAction, WritingAction, Zenon
<1>5. CASE \/ io_uring_backend_accept(f) \/ Backend_connect(f) \/ Backend_close(f)
           \/ Backend_tee(f) \/ io_uring_backend_splice(f) \/ io_uring_backend_wait_fd(f)
           \/ Backend_sleep(f)
  BY <1>5, AcceptAction, ConnectAction, SpliceAction, Zenon
<1>6. CASE Backend_chain(f) \/ Backend_splice_chunks(f) \/ double_splice_safe(f)
  BY <1>6, ChainAction, SpliceChunksAction, DoubleSpliceAction, Zenon
<1>7. QED
  BY <1>1, <1>2, <1>3, <1>4, <1>5, <1>6, Zenon

LEMMA UInvStep ==
  ASSUME FewFibers, AcceptErrors = FALSE, UInv, [Next]_vars
  PROVE  UInv'
<1>1. CASE UNCHANGED vars
  BY <1>1, Stutter
<1>2. CASE io_uring_backend_poll \/ Backend_poll \/ io_uring_backend_handle_ready_cqes
  BY <1>2, PollAction, HandleAction, Zenon
<1>3. CASE KernelCompletes \/ KernelCancels \/ KernelAccepts
  BY <1>3, KernelCompletesAction, KernelCancelsAction, KernelAcceptsAction, Zenon
<1>4. CASE Next /\ ~(\/ io_uring_backend_poll \/ Backend_poll
                     \/ io_uring_backend_handle_ready_cqes
                     \/ KernelCompletes \/ KernelCancels \/ KernelAccepts)
  <2>1. PICK f \in Fibers :
        \/ Run(f) \/ Schedule(f) \/ Start(f) \/ StartQueued(f) \/ StartEvent(f)
        \/ StartMultishot(f) \/ StartTimerLoop(f) \/ StartChain(f)
        \/ StartSpliceChunks(f) \/ StartDoubleSplice(f) \/ Backend_snooze(f) \/ Finish(f)
        \/ Backend_post_fork(f) \/ Backend_timeout(f) \/ Backend_timeout_ensure(f)
        \/ Backend_read(f) \/ Backend_read_loop(f) \/ Backend_feed_loop(f)
        \/ Backend_recv(f) \/ Backend_recvmsg(f) \/ Backend_recv_loop(f)
        \/ Backend_recv_feed_loop(f) \/ Backend_write(f) \/ Backend_writev(f)
        \/ Backend_send(f) \/ Backend_sendmsg(f) \/ io_uring_backend_accept(f)
        \/ Backend_accept(f) \/ accept_loop_from_queue(f) \/ Backend_connect(f)
        \/ Backend_close(f) \/ Backend_tee(f) \/ io_uring_backend_splice(f)
        \/ io_uring_backend_wait_fd(f) \/ Backend_wait_event(f) \/ Backend_sleep(f)
        \/ Backend_timer_loop(f) \/ Backend_chain(f) \/ Backend_splice_chunks(f)
        \/ double_splice_safe(f)
    BY <1>4, Zenon DEF Next
  <2>2. QED
    BY <2>1, FiberStep
<1>5. QED
  BY <1>1, <1>2, <1>3, <1>4, Zenon

\* The invariant holds of every behaviour: of any number of fibers short of the
\* marker of a multishot accept, in a kernel that ends one only when it is cancelled.
THEOREM UInvHolds ==
  ASSUME FewFibers, AcceptErrors = FALSE
  PROVE  Spec => []UInv
<1>1. Init => UInv
  BY InitOK
<1>2. UInv /\ [Next]_vars => UInv'
  BY UInvStep, Zenon
<1>3. QED
  BY <1>1, <1>2, PTL DEF Spec

----------------------------------------------------------------------------
(* What follows *)

LEMMA ChainLenNone ==
  ASSUME NEW S, NEW c, \A r \in S : r.ctx # c
  PROVE  ChainLen(S, c) = 0
BY DEF ChainLen

LEMMA ChainLenOne ==
  ASSUME NEW S, NEW c, NEW r \in S, r.ctx = c, \A s \in S : s.ctx = c => s.reqs = r.reqs
  PROVE  ChainLen(S, c) = Len(r.reqs)
<1> DEFINE p == CHOOSE s \in S : s.ctx = c
<1>1. p \in S /\ p.ctx = c
  OBVIOUS
<1>2. p.reqs = r.reqs
  BY <1>1
<1>3. QED
  BY <1>2 DEF ChainLen

LEMMA ChainLens ==
  ASSUME NEW b, Wf(b), NEW c \in Contexts
  PROVE  ChainLen(Range(b.sq) \ {Cancellation(c)}, c) + ChainLen(b.kern, c) = Len(ReqsOf(b, c))
<1> DEFINE S == Range(b.sq) \ {Cancellation(c)}
           K == b.kern
<1>1. b \in Backends /\ OneChain(b)
  BY DEF Wf
<1>2. IsReqs(b, c, ReqsOf(b, c)) /\ ReqsOf(b, c) \in Seq(Requests)
  BY <1>1, ReqsDetermined
<1>3. ASSUME NEW r \in S, r.ctx = c PROVE \E i \in Queued(b, c) : r = b.sq[i]
  <2>1. PICK i \in DOMAIN b.sq : r = b.sq[i]
    BY DEF Range
  <2>2. r \in Entries
    BY <1>1, <2>1, EntryFields
  <2>3. r.reqs # <<>>
    BY <1>3, <2>2, CancellationIs
  <2>4. QED
    BY <1>3, <2>1, <2>3 DEF Queued
<1>4. \A i \in Queued(b, c) : b.sq[i] \in S /\ b.sq[i].ctx = c /\ b.sq[i].reqs # <<>>
  <2>1. Cancellation(c).reqs = <<>>
    BY DEF Cancellation, Chain
  <2>2. SUFFICES ASSUME NEW i \in Queued(b, c)
                 PROVE  b.sq[i] \in S /\ b.sq[i].ctx = c /\ b.sq[i].reqs # <<>>
    OBVIOUS
  <2>3. i \in DOMAIN b.sq /\ b.sq[i].ctx = c /\ b.sq[i].reqs # <<>>
    BY DEF Queued
  <2>4. b.sq[i] # Cancellation(c)
    BY <2>1, <2>3, Zenon
  <2>5. b.sq[i] \in Range(b.sq)
    BY <2>3 DEF Range
  <2>6. QED
    BY <2>3, <2>4, <2>5
<1>5. Len(ReqsOf(b, c)) \in Nat
  BY <1>2
<1> HIDE DEF S, K
<1>6. CASE Queued(b, c) # {}
  <2>1. PICK i \in Queued(b, c) : TRUE
    BY <1>6
  <2>2. (\A j \in Queued(b, c) : j = i) /\ Working(b, c) = {}
    BY <1>1, <2>1 DEF OneChain
  <2>3. ReqsOf(b, c) = b.sq[i].reqs
    BY <1>2, <1>6, <2>2 DEF IsReqs
  <2> DEFINE r == b.sq[i]
  <2>4. r \in S /\ r.ctx = c
    BY <1>4
  <2>5. \A s \in S : s.ctx = c => s.reqs = r.reqs
    BY <1>3, <2>2
  <2> HIDE DEF r
  <2>6. ChainLen(S, c) = Len(r.reqs)
    BY <2>4, <2>5, ChainLenOne
  <2>7. \A s \in K : s.ctx # c
    BY <2>2 DEF Working, K
  <2>8. ChainLen(K, c) = 0
    BY <2>7, ChainLenNone
  <2>9. ChainLen(S, c) = Len(ReqsOf(b, c))
    BY <2>3, <2>6, Zenon DEF r
  <2>10. ChainLen(S, c) \in Nat
    BY <1>5, <2>9, Zenon
  <2>11. ChainLen(S, c) + ChainLen(K, c) = ChainLen(S, c)
    BY <2>8, <2>10
  <2>12. QED
    BY <2>9, <2>11, Zenon DEF S, K
<1>7. CASE Queued(b, c) = {}
  <2>1. \A s \in S : s.ctx # c
    BY <1>3, <1>7
  <2>2. ChainLen(S, c) = 0
    BY <2>1, ChainLenNone
  <2>3. ChainLen(K, c) = Len(ReqsOf(b, c))
    <3>1. CASE Working(b, c) # {}
      <4>1. PICK r \in Working(b, c) : TRUE
        BY <3>1
      <4>2. \A s \in Working(b, c) : s = r
        BY <1>1, <4>1 DEF OneChain
      <4>3. ReqsOf(b, c) = r.reqs
        BY <1>2, <1>7, <3>1, <4>2 DEF IsReqs
      <4>4. r \in K /\ r.ctx = c
        BY <4>1 DEF Working, K
      <4>5. \A s \in K : s.ctx = c => s.reqs = r.reqs
        BY <4>2 DEF Working, K
      <4>6. ChainLen(K, c) = Len(r.reqs)
        BY <4>4, <4>5, ChainLenOne
      <4>7. QED
        BY <4>3, <4>6, Zenon
    <3>2. CASE Working(b, c) = {}
      <4>1. ReqsOf(b, c) = <<>>
        BY <1>2, <1>7, <3>2 DEF IsReqs
      <4>2. Len(ReqsOf(b, c)) = 0
        BY <1>1, <4>1, OutType
      <4>3. \A s \in K : s.ctx # c
        BY <3>2 DEF Working, K
      <4>4. QED
        BY <4>2, <4>3, ChainLenNone
    <3>3. QED
      BY <3>1, <3>2
  <2>4. ChainLen(K, c) \in Nat
    BY <1>5, <2>3, Zenon
  <2>5. ChainLen(S, c) + ChainLen(K, c) = ChainLen(K, c)
    BY <2>2, <2>4
  <2>6. QED
    BY <2>3, <2>5, Zenon DEF S, K
<1>8. QED
  BY <1>6, <1>7

LEMMA OutstandingCounts ==
  ASSUME UInv, NEW c \in Contexts
  PROVE  /\ Outstanding(c) = Out(bk, c) /\ Holders(c) = HoldersOf(fs, bk.event, c)
         /\ Out(bk, c) \in Nat /\ HoldersOf(fs, bk.event, c) \in Nat
         /\ ContextOK(bk, c, HoldersOf(fs, bk.event, c))
<1>1. Wf(bk) /\ fs \in [Fibers -> FiberStates] /\ bk \in Backends /\ OneChain(bk)
  BY InvParts DEF Wf
<1>2. ChainLen(Range(bk.sq) \ {Cancellation(c)}, c) + ChainLen(bk.kern, c) = Len(ReqsOf(bk, c))
  BY <1>1, ChainLens
<1>3. Cardinality({i \in DOMAIN bk.cq : bk.cq[i].ctx = c}) = Done(bk, c)
  BY DEF Done, Answers
<1>4. Outstanding(c) = Len(ReqsOf(bk, c)) + Done(bk, c)
  BY <1>2, <1>3, Zenon DEF Outstanding
<1>5. Out(bk, c) \in Nat /\ Out(bk, c) = Len(ReqsOf(bk, c)) + Done(bk, c)
  BY <1>1, OutType
<1>6. Holders(c) = HoldersOf(fs, bk.event, c)
  <2>1. /\ {f \in Fibers : Holds(f, c)} = Users(fs, c)
        /\ {f \in Fibers : fs[f].timer = c} = Timed(fs, c)
        /\ Waiters = EventWaiters(fs)
    BY DEF Users, Timed, EventWaiters, Holds, Waiters
  <2>2. QED
    BY <2>1, Zenon DEF Holders, HoldersOf
<1>7. HoldersOf(fs, bk.event, c) \in Nat /\ Held(fs, bk.event)[c] = HoldersOf(fs, bk.event, c)
  <2> DEFINE e == bk.event
             n == HoldersOf(fs, e, c)
  <2> HIDE DEF e, n
  <2>1. Held(fs, e) \in [Contexts -> Nat] /\ Held(fs, e)[c] = n
    BY <1>1, HeldType DEF n
  <2>2. n \in Nat
    <3> DEFINE h == Held(fs, e)
    <3> HIDE DEF h
    <3>1. h \in [Contexts -> Nat] /\ h[c] = n
      BY <2>1 DEF h
    <3>2. QED
      BY <3>1
  <2>3. QED
    BY <2>1, <2>2, Zenon DEF n, e
<1>8. ContextOK(bk, c, Held(fs, bk.event)[c])
  BY InvParts DEF BackendOK, Good
<1>9. QED
  BY <1>4, <1>5, <1>6, <1>7, <1>8, Zenon

\* A context in use that is not the event's is its fiber's.
LEMMA OwnContext ==
  ASSUME UInv, NEW c \in Contexts, bk.ctx[c].ref # 0, c # bk.event, NEW f,
         f = bk.ctx[c].fiber
  PROVE  /\ f \in Fibers /\ HoldersOf(fs, bk.event, c) \in {0, 1}
         /\ HoldersOf(fs, bk.event, c) = 1 => Holds(f, c) \/ fs[f].timer = c
         /\ c \in Claims(fs[f]) => HoldersOf(fs, bk.event, c) = 1
         /\ fs[f].timer = c => bk.ctx[c].type = "TIMEOUT"
<1>1. ContextOK(bk, c, HoldersOf(fs, bk.event, c))
  BY OutstandingCounts
<1>2. f \in Fibers
  BY <1>1 DEF ContextOK
<1>3. Mine(bk, f, c)
  BY DEF Mine
<1>4. Between(bk, fs, f, Held(fs, bk.event))
  BY InvParts, HeldType DEF BackendOK, Between
<1>5. Private(fs, f, c)
  BY <1>2, <1>3, <1>4, PrivateContexts
<1>6. /\ HoldersOf(fs, bk.event, c) \in {0, 1}
      /\ c \in Claims(fs[f]) <=> HoldersOf(fs, bk.event, c) = 1
  BY <1>2, <1>5, InvParts, ClaimCounts
<1>7. FiberOK(bk, f, fs[f]) /\ c # NoCtx
  BY <1>2, InvParts, NoCtxContext
<1>8. c \in Claims(fs[f]) => Holds(f, c) \/ fs[f].timer = c
  BY <1>7 DEF Claims, Holds, FiberOK
<1>9. fs[f].timer = c => bk.ctx[c].type = "TIMEOUT"
  BY <1>7 DEF FiberOK
<1>10. QED
  BY <1>2, <1>6, <1>8, <1>9

\* The references of the event's context: its poll, and the fibers that wait.
LEMMA EventReferences ==
  ASSUME UInv, bk.event # NoCtx, NEW c, c = bk.event
  PROVE  c \in Contexts /\ Out(bk, c) = 1 /\ HoldersOf(fs, c, c) <= Cardinality(Fibers)
<1>1. /\ c \in Contexts /\ ReqsOf(bk, c) = <<EventRequest>>
      /\ bk.ctx[c].ref \notin {0, MULTISHOT_REFCOUNT} /\ bk.ctx[c].type = "POLL"
  BY InvParts DEF EventOK
<1>2. Out(bk, c) = 1
  <2>1. Len(ReqsOf(bk, c)) = 1
    BY <1>1, LoneRequest
  <2>2. Out(bk, c) = Len(ReqsOf(bk, c)) + Done(bk, c) /\ Done(bk, c) \in Nat
    BY <1>1, InvParts, OutType DEF Wf
  <2>3. Out(bk, c) = 1 + Done(bk, c)
    BY <2>1, <2>2, Zenon
  <2>4. ContextOK(bk, c, HoldersOf(fs, bk.event, c))
    BY <1>1, OutstandingCounts
  <2>5. Out(bk, c) <= 1
    BY <1>1, <2>4 DEF ContextOK, CountOK
  <2>6. QED
    BY <2>2, <2>3, <2>5
<1>3. \A f \in Fibers : c \notin Claims(fs[f])
  BY InvParts, ClaimsMine DEF Mine
<1>4. c # NoCtx
  OBVIOUS
<1>5. Users(fs, c) = {} /\ Timed(fs, c) = {}
  BY <1>3, <1>4 DEF Users, Timed, Claims
<1>6. Cardinality(EventWaiters(fs)) \in Nat /\ Cardinality(EventWaiters(fs)) <= Cardinality(Fibers)
  <2>1. EventWaiters(fs) \subseteq Fibers /\ IsFiniteSet(Fibers)
    BY BackendAssumption DEF EventWaiters
  <2>2. QED
    BY <2>1, FS_Subset, FS_CardinalityType
<1>7. HoldersOf(fs, c, c) = Cardinality({}) + Cardinality({}) + Cardinality(EventWaiters(fs))
  BY <1>5, Zenon DEF HoldersOf
<1>8. Cardinality({}) = 0
  BY FS_EmptySet
<1>9. HoldersOf(fs, c, c) <= Cardinality(Fibers)
  BY <1>6, <1>7, <1>8
<1>10. QED
  BY <1>1, <1>2, <1>9

LEMMA UInvRefs ==
  ASSUME UInv, NEW c \in Contexts
  PROVE  bk.ctx[c].ref \in 0..(Cardinality(Fibers) + 4) \cup {MULTISHOT_REFCOUNT}
<1>1. Cardinality(Fibers) \in Nat
  BY BackendAssumption, FS_CardinalityType
<1> DEFINE n == HoldersOf(fs, bk.event, c)
<1>2. n \in Nat /\ Out(bk, c) \in Nat /\ ContextOK(bk, c, n)
  BY OutstandingCounts
<1>3. SUFFICES ASSUME bk.ctx[c].ref # 0, bk.ctx[c].ref # MULTISHOT_REFCOUNT
               PROVE  bk.ctx[c].ref \in 0..(Cardinality(Fibers) + 4)
  BY <1>1
<1>4. bk.ctx[c].ref = Out(bk, c) + n /\ Out(bk, c) <= 4
  BY <1>2, <1>3 DEF ContextOK, CountOK
<1>5. n <= Cardinality(Fibers)
  <2>1. CASE c = bk.event
    BY <2>1, EventReferences, NoCtxContext
  <2>2. CASE c # bk.event
    <3> DEFINE f == bk.ctx[c].fiber
    <3>1. f \in Fibers /\ n \in {0, 1}
      BY <1>3, <2>2, OwnContext
    <3>2. Cardinality(Fibers) # 0
      BY <3>1, BackendAssumption, FS_EmptySet
    <3>3. QED
      BY <1>1, <3>1, <3>2
  <2>3. QED
    BY <2>1, <2>2
<1> HIDE DEF n
<1>6. QED
  BY <1>1, <1>2, <1>4, <1>5

LEMMA UInvTypes ==
  ASSUME UInv
  PROVE  TypeOK
<1>1. /\ bk \in Backends /\ SqOK(bk) /\ fs \in [Fibers -> FiberStates]
      /\ cur \in Fibers \cup {NoFiber}
  BY InvParts DEF UInv
<1>2. /\ bk.sched \in [Fibers -> Values \cup {NoValue}] /\ bk.made \in 0..MaxContexts
      /\ bk.pending \in Nat /\ bk.cq \in Seq(Completions)
  BY <1>1, BackendFields DEF Counts
<1>3. bk.pending \in 0..PreparedLimit
  BY <1>1, <1>2, BackendAssumption DEF SqOK
<1>4. \A e \in Range(bk.cq) : e.ctx \in Contexts /\ e.res \in ECANCELED..BufLen
  <2>1. SUFFICES ASSUME NEW i \in DOMAIN bk.cq
                 PROVE  bk.cq[i].ctx \in Contexts /\ bk.cq[i].res \in ECANCELED..BufLen
    BY DEF Range
  <2>2. QED
    BY <1>1, CompletionFields DEF Outcomes
<1>5. \A f \in Fibers :
        /\ fs[f].pc \in {"app", "await", "raise", "dead"}
        /\ {fs[f].ctx, fs[f].aux, fs[f].timer} \subseteq Contexts \cup {NoCtx}
        /\ fs[f].total \in Nat /\ fs[f].moved \in 0..MaxMoved
  <2>1. SUFFICES ASSUME NEW f \in Fibers, NEW s, s = fs[f], s \in FiberStates
                 PROVE  /\ s.pc \in {"app", "await", "raise", "dead"}
                        /\ {s.ctx, s.aux, s.timer} \subseteq Contexts \cup {NoCtx}
                        /\ s.total \in Nat /\ s.moved \in 0..MaxMoved
    BY <1>1
  <2>2. QED
    BY <2>1 DEF FiberStates
<1>6. QED
  BY <1>1, <1>2, <1>3, <1>4, <1>5, UInvRefs DEF TypeOK

LEMMA UInvExact ==
  ASSUME UInv
  PROVE  RefCountExact
<1>1. SUFFICES ASSUME NEW c \in Contexts
               PROVE  /\ bk.ctx[c].ref = MULTISHOT_REFCOUNT => Outstanding(c) >= 1
                      /\ bk.ctx[c].ref # MULTISHOT_REFCOUNT =>
                            bk.ctx[c].ref = Outstanding(c) + Holders(c)
                      /\ (bk.ctx[c].ref = 0) = (c > bk.made \/ c \in Range(bk.avail))
  BY DEF RefCountExact
<1> DEFINE n == HoldersOf(fs, bk.event, c)
<1>2. /\ Outstanding(c) = Out(bk, c) /\ Holders(c) = n
      /\ Out(bk, c) \in Nat /\ n \in Nat /\ ContextOK(bk, c, n)
  BY OutstandingCounts
<1>3. bk \in Backends /\ OneChain(bk) /\ StoreOK(bk)
  BY InvParts DEF Wf
<1>4. /\ Len(ReqsOf(bk, c)) \in Nat /\ Done(bk, c) \in Nat
      /\ Out(bk, c) = Len(ReqsOf(bk, c)) + Done(bk, c)
      /\ (ReqsOf(bk, c) = <<>> <=> Len(ReqsOf(bk, c)) = 0)
      /\ (Done(bk, c) = 0 <=> Answers(bk, c) = {})
  BY <1>3, OutType, AnswersFinite
<1> HIDE DEF n
<1>5. ASSUME bk.ctx[c].ref = MULTISHOT_REFCOUNT PROVE Out(bk, c) >= 1
  <2>1. GoesOn(bk, c) \/ HasEnded(bk, c)
    BY <1>2, <1>5 DEF ContextOK, MultishotOK
  <2>2. CASE GoesOn(bk, c)
    <3>1. ReqsOf(bk, c) # <<>>
      BY <2>2, LoneRequest, Zenon DEF GoesOn
    <3>2. Len(ReqsOf(bk, c)) # 0
      BY <1>4, <3>1, Zenon
    <3> DEFINE l == Len(ReqsOf(bk, c))
    <3>3. l # 0 /\ l \in Nat /\ Out(bk, c) = l + Done(bk, c)
      BY <1>4, <3>2, Zenon
    <3> HIDE DEF l
    <3>4. QED
      BY <1>4, <3>3
  <2>3. CASE HasEnded(bk, c)
    <3>1. Done(bk, c) # 0
      BY <1>4, <2>3, Zenon DEF HasEnded
    <3> DEFINE l == Len(ReqsOf(bk, c))
    <3>2. l \in Nat /\ Out(bk, c) = l + Done(bk, c)
      BY <1>4, Zenon
    <3> HIDE DEF l
    <3>3. QED
      BY <1>4, <3>1, <3>2
  <2>4. QED
    BY <2>1, <2>2, <2>3
<1>6. ASSUME bk.ctx[c].ref # MULTISHOT_REFCOUNT PROVE bk.ctx[c].ref = Out(bk, c) + n
  <2>1. CASE bk.ctx[c].ref = 0
    <3>1. ReqsOf(bk, c) = <<>> /\ Answers(bk, c) = {} /\ n = 0
      BY <1>2, <2>1 DEF ContextOK, FreeOK
    <3>2. Len(ReqsOf(bk, c)) = 0 /\ Done(bk, c) = 0
      BY <1>4, <3>1, Zenon
    <3>3. Out(bk, c) = 0 + 0
      BY <1>4, <3>2, Zenon
    <3>4. QED
      BY <2>1, <3>1, <3>3
  <2>2. CASE bk.ctx[c].ref # 0
    BY <1>2, <1>6, <2>2 DEF ContextOK, CountOK
  <2>3. QED
    BY <2>1, <2>2
<1>7. bk.ctx[c].ref = 0 <=> c > bk.made \/ c \in Range(bk.avail)
  BY <1>3 DEF StoreOK, Free, Range
<1>8. QED
  BY <1>2, <1>5, <1>6, <1>7

\* A request that f awaits is still to be handled, or was and f is scheduled.
LEMMA AwaitedGoes ==
  ASSUME UInv, NEW f \in Fibers, NEW c, Waits(bk, f, c), c # NoCtx, bk.sched[f] = NoValue
  PROVE  /\ bk.ctx[c].result # ECANCELED => InGoodHands(c)
         /\ ~InGoodHands(c) => bk.ctx[c].result = ECANCELED /\ Out(bk, c) = 0
         /\ c \in Contexts /\ bk.ctx[c].ref \notin {0, MULTISHOT_REFCOUNT} /\ c # bk.event
<1>1. /\ c \in Contexts /\ bk.ctx[c].ref \notin {0, MULTISHOT_REFCOUNT} /\ c # bk.event
      /\ (Out(bk, c) = 0 => bk.ctx[c].result = ECANCELED)
  BY DEF Waits, Mine, WillWake
<1>2. Outstanding(c) = Out(bk, c) /\ Out(bk, c) \in Nat
  BY <1>1, OutstandingCounts
<1>3. InGoodHands(c) <=> Out(bk, c) # 0
  BY <1>2 DEF InGoodHands
<1>4. QED
  BY <1>1, <1>3

LEMMA UInvForgetsNobody ==
  ASSUME UInv
  PROVE  NobodyForgotten
<1>1. bk.sq # <<>> => bk.pending > 0
  BY InvParts DEF SqOK
<1>2. ASSUME NEW f \in Fibers, fs[f].pc = "await", bk.sched[f] = NoValue
      PROVE  \/ fs[f].op \in EventOps /\ InGoodHands(bk.event)
             \/ fs[f].op \notin EventOps /\ (InGoodHands(fs[f].ctx) \/ InGoodHands(fs[f].aux))
             \/ BrokenChain(f)
  <2> DEFINE s == fs[f]
             o == s.op
  <2>1. FiberOK(bk, f, s) /\ AwaitOK(bk, f, s) /\ s.pc = "await"
    BY <1>2, InvParts DEF FiberOK
  <2>2. o \in OneRequestOps \cup ChainOps \cup EventOps
                  \cup {"timer_loop", "double_splice", "snooze"}
    BY <2>1 DEF AwaitOK
  <2>3. CASE o \in EventOps
    <3>1. bk.event # NoCtx
      BY <2>1, <2>3 DEF AwaitOK
    <3>2. bk.event \in Contexts /\ Out(bk, bk.event) = 1
      BY <3>1, EventReferences
    <3>3. Outstanding(bk.event) = Out(bk, bk.event)
      BY <3>2, OutstandingCounts
    <3>4. InGoodHands(bk.event)
      BY <3>1, <3>2, <3>3 DEF InGoodHands
    <3>5. QED
      BY <2>3, <3>4
  <2>4. ASSUME NEW c, WaitsForOne(bk, f, c), c # NoCtx PROVE InGoodHands(c)
    <3>1. Waits(bk, f, c) /\ bk.ctx[c].result # ECANCELED
      BY <2>4 DEF WaitsForOne, Uncancelled
    <3>2. QED
      BY <1>2, <2>4, <3>1, AwaitedGoes
  <2>5. CASE o \in OneRequestOps \/ (o = "timer_loop" /\ s.ctx # NoCtx)
    <3>1. WaitsForOne(bk, f, s.ctx) /\ s.ctx # NoCtx
      BY <2>1, <2>5 DEF AwaitOK
    <3>2. o \notin EventOps
      BY <2>5, OpsDiffer
    <3>3. QED
      BY <2>4, <3>1, <3>2
  <2>6. CASE o = "double_splice"
    <3>1. WaitsForOne(bk, f, s.aux) /\ s.aux # NoCtx
      BY <2>1, <2>6 DEF AwaitOK
    <3>2. o \notin EventOps
      BY <2>6, OpsDiffer
    <3>3. QED
      BY <2>4, <3>1, <3>2
  <2>7. CASE o = "snooze" \/ (o = "timer_loop" /\ s.ctx = NoCtx)
    BY <1>2, <2>1, <2>7 DEF AwaitOK
  <2>8. CASE o \in ChainOps
    <3> DEFINE c == s.ctx
    <3>1. Waits(bk, f, c) /\ c # NoCtx
      BY <2>1, <2>8 DEF AwaitOK
    <3>2. o \notin EventOps
      BY <2>8, OpsDiffer
    <3>3. ASSUME ~InGoodHands(c) PROVE BrokenChain(f)
      <4>1. /\ bk.ctx[c].result = ECANCELED /\ Out(bk, c) = 0 /\ c \in Contexts
            /\ bk.ctx[c].ref \notin {0, MULTISHOT_REFCOUNT} /\ c # bk.event
        BY <1>2, <3>1, <3>3, AwaitedGoes
      <4>2. bk.ctx[c].fiber = f
        BY <3>1 DEF Waits, Mine
      <4>3. c \in Claims(s)
        BY <3>1 DEF Claims
      <4>4. HoldersOf(fs, bk.event, c) = 1
        BY <4>1, <4>2, <4>3, OwnContext
      <4>5. ContextOK(bk, c, 1)
        BY <4>1, <4>4, OutstandingCounts
      <4>6. bk.ctx[c].ref = 0 + 1
        BY <4>1, <4>5 DEF ContextOK, CountOK
      <4>7. QED
        BY <2>8, <4>1, <4>6 DEF BrokenChain, ChainOps
    <3>4. QED
      BY <3>2, <3>3
  <2>9. QED
    BY <2>2, <2>3, <2>5, <2>6, <2>7, <2>8
<1>3. QED
  BY <1>1, <1>2 DEF NobodyForgotten

LEMMA UInvKeepsBuffers ==
  ASSUME UInv
  PROVE  BuffersAreKept
<1>1. SUFFICES ASSUME NEW r \in bk.kern, Head(r.reqs).kind \in BufferKinds
               PROVE  \/ Holds(bk.ctx[r.ctx].fiber, r.ctx)
                      \/ bk.ctx[r.ctx].buffers \in {"attached", "rejected"}
  BY DEF BuffersAreKept
<1> DEFINE c == r.ctx
           n == HoldersOf(fs, bk.event, c)
           f == bk.ctx[c].fiber
<1>2. bk \in Backends /\ OneChain(bk) /\ EventOK(bk)
  BY InvParts DEF Wf
<1>3. c \in Contexts /\ r.reqs \in Seq(Requests) /\ r.reqs # <<>>
  BY <1>2, ChainFields
<1>4. r.reqs = ReqsOf(bk, c)
  <2> DEFINE q == r.reqs
             d == c
  <2>1. r \in Working(bk, d) /\ d \in Contexts
    BY <1>3 DEF Working
  <2>2. IsReqs(bk, d, q)
    BY <2>1, Zenon DEF IsReqs
  <2> HIDE DEF q, d
  <2>3. q = ReqsOf(bk, d)
    BY <1>2, <2>1, <2>2, ReqsDetermined
  <2>4. QED
    BY <2>3 DEF q, d
<1>5. 1 \in DOMAIN ReqsOf(bk, c) /\ ReqsOf(bk, c)[1].kind \in BufferKinds
  BY <1>1, <1>3, <1>4
<1>6. ContextOK(bk, c, n) /\ n \in Nat
  BY <1>3, OutstandingCounts
<1>7. bk.ctx[c].type \in BufferKinds \cup {"CHAIN"} /\ (bk.ctx[c].buffers # "none" \/ n > 0)
  <2>1. KeptOK(bk, c, n) /\ ReqsOf(bk, c) # <<>>
    BY <1>1, <1>3, <1>4, <1>6, Zenon DEF ContextOK
  <2>2. bk.ctx[c].type \in BufferKinds \cup {"CHAIN"}
    BY <1>5, <2>1, Zenon DEF KeptOK
  <2>3. QED
    BY <2>1, <2>2, Zenon DEF KeptOK
<1>8. bk.ctx[c].ref # 0
  BY <1>3, <1>4, <1>6 DEF ContextOK, FreeOK
<1>9. c # bk.event /\ bk.ctx[c].type # "TIMEOUT"
  BY <1>2, <1>3, <1>7, NoCtxContext DEF EventOK, BufferKinds
<1>10. n \in {0, 1} /\ (n = 1 => Holds(f, c) \/ fs[f].timer = c) /\ fs[f].timer # c
  BY <1>3, <1>8, <1>9, OwnContext
<1>11. bk.ctx[c].buffers \in Attachments
  BY <1>2, <1>3, ContextFields
<1> HIDE DEF n
<1>12. QED
  BY <1>6, <1>7, <1>10, <1>11 DEF Attachments

LEMMA UInvWakes ==
  ASSUME UInv
  PROVE  WakesTheHolder
<1>1. SUFFICES ASSUME bk.cq # <<>>, NEW e, e = Head(bk.cq),
                      NEW x, x = [bk.ctx[e.ctx] EXCEPT !.result = e.res], Wakes(x)
               PROVE  \/ Holds(x.fiber, e.ctx) \/ fs[x.fiber].timer = e.ctx
                      \/ e.ctx = bk.event
                      \/ x.type \in {"CHAIN", "SPLICE"} /\ Outstanding(e.ctx) = 2
  BY DEF WakesTheHolder
<1> DEFINE c == e.ctx
           y == bk.ctx[c]
           n == HoldersOf(fs, bk.event, c)
<1>2. bk \in Backends /\ bk.cq \in Seq(Completions)
  BY InvParts, BackendFields
<1>3. e \in Completions
  BY <1>1, <1>2
<1>4. c \in Contexts
  BY <1>3 DEF Completions
<1>5. y \in ContextRecords
  BY <1>2, <1>4, ContextFields
<1>6. x.ref = y.ref /\ x.fiber = y.fiber /\ x.type = y.type
  BY <1>1, <1>5 DEF ContextRecords
<1>7. y.ref = 2
  BY <1>1, <1>6 DEF Wakes
<1>8. y.ref # 0 /\ y.ref # MULTISHOT_REFCOUNT
  BY <1>7, NotMultishot
<1>9. /\ Outstanding(c) = Out(bk, c) /\ Out(bk, c) \in Nat /\ n \in Nat /\ ContextOK(bk, c, n)
  BY <1>4, OutstandingCounts
<1>10. 2 = Out(bk, c) + n /\ (y.type \notin {"CHAIN", "SPLICE"} => Out(bk, c) <= 1)
  BY <1>7, <1>8, <1>9 DEF ContextOK, CountOK
<1>11. SUFFICES ASSUME c # bk.event
                PROVE  \/ Holds(y.fiber, c) \/ fs[y.fiber].timer = c
                       \/ y.type \in {"CHAIN", "SPLICE"} /\ Outstanding(c) = 2
  BY <1>6
<1>12. n \in {0, 1} /\ (n = 1 => Holds(y.fiber, c) \/ fs[y.fiber].timer = c)
  BY <1>4, <1>8, <1>11, OwnContext
<1> HIDE DEF n, y, c
<1>13. QED
  BY <1>9, <1>10, <1>12

LEMMA UInvTimeouts ==
  ASSUME UInv
  PROVE  TimeoutStaysInside
BY InvParts DEF TimeoutStaysInside, FiberOK

----------------------------------------------------------------------------
(* The theorems.  Each one is about any number of fibers that does not reach the  *)
(* marker MULTISHOT_REFCOUNT, any number of contexts, any programs of the fibers, *)
(* and a kernel that ends a multishot accept only when it is cancelled.           *)

\* context_store_release and the completions count exactly: every context has a
\* reference for each request that is not handled and each fiber that will release
\* it, and is in the store if and only if it has none.
THEOREM WellFormedHolds ==
  ASSUME FewFibers, AcceptErrors = FALSE
  PROVE  Spec => []WellFormed
<1>1. UInv => WellFormed
  BY UInvTypes, UInvExact DEF WellFormed
<1>2. QED
  BY <1>1, UInvHolds, PTL

\* Every fiber that awaits a request in io_uring_backend_defer_submit_and_await is
\* scheduled, or the request will wake it, unless its chain was broken; and what is
\* prepared will be submitted.
THEOREM NobodyForgottenHolds ==
  ASSUME FewFibers, AcceptErrors = FALSE
  PROVE  Spec => []NobodyForgotten
<1>1. UInv => NobodyForgotten
  BY UInvForgetsNobody
<1>2. QED
  BY <1>1, UInvHolds, PTL

\* The buffers of a read or a write that was given up, alone or in a chain, are
\* attached to its context for as long as the kernel has the request.  Exempt are
\* the writes in front of an operation that Backend_chain refuses, and the strings
\* of Backend_splice_chunks.
THEOREM BuffersAreKeptHolds ==
  ASSUME FewFibers, AcceptErrors = FALSE
  PROVE  Spec => []BuffersAreKept
<1>1. UInv => BuffersAreKept
  BY UInvKeepsBuffers
<1>2. QED
  BY <1>1, UInvHolds, PTL

\* io_uring_backend_handle_completion schedules the fiber that holds the context,
\* and no fiber that gave it up, but for a chain given up with two requests left.
THEOREM WakesTheHolderHolds ==
  ASSUME FewFibers, AcceptErrors = FALSE
  PROVE  Spec => []WakesTheHolder
<1>1. UInv => WakesTheHolder
  BY UInvWakes
<1>2. QED
  BY <1>1, UInvHolds, PTL

\* The timer of Backend_timeout schedules its fiber only inside of the block.
THEOREM TimeoutStaysInsideHolds ==
  ASSUME FewFibers, AcceptErrors = FALSE
  PROVE  Spec => []TimeoutStaysInside
<1>1. UInv => TimeoutStaysInside
  BY UInvTimeouts
<1>2. QED
  BY <1>1, UInvHolds, PTL
----------------------------------------------------------------------------
(* Bytes.  What is left alone by fiber f: the contexts of the others. *)

Apart(f, c) == fs[f].ctx \in Nat \ {c} /\ fs[f].aux \in Nat \ {c} /\ fs[f].timer \in Nat \ {c}
Spares(f, b) ==
    \A c \in Contexts : Apart(f, c) /\ Spared(bk, c, bk.cq, bk.ctx[c])
                            => Spared(b, c, bk.cq, bk.ctx[c])

LEMMA SparesOwn ==
  ASSUME NEW f, NEW b, Spares(f, b), NEW d \in {fs[f].ctx, fs[f].aux, fs[f].timer}
  PROVE  /\ Spares(f, context_store_release(b, d)) /\ Spares(f, io_uring_backend_cancel(b, d))
         /\ Spares(f, CancelNow(b, d)) /\ Spares(f, context_attach_buffers(b, d))
<1>1. \A c : Apart(f, c) => d \in Nat /\ d # c
  BY DEF Apart
<1>2. QED
  BY <1>1, SparedRelease, SparedCancel DEF Spares

LEMMA SparesAny ==
  ASSUME NEW f, NEW b, Spares(f, b)
  PROVE  /\ Spares(f, io_uring_submit(b)) /\ Spares(f, io_uring_backend_immediate_submit(b))
         /\ Spares(f, io_uring_backend_defer_submit(b))
         /\ \A g, v : /\ Spares(f, Fiber_make_runnable(b, g, v))
                      /\ Spares(f, [b EXCEPT !.sched[g] = v])
         /\ \A k \in Others : \A v : Spares(f, [b EXCEPT ![k] = v])
         /\ \A d, reqs, open : Spares(f, prep(b, d, reqs, open)) /\ Spares(f, prep_cancel(b, d))
<1>1. \A k \in Others : \A v : Spares(f, [b EXCEPT ![k] = v])
  BY SparedField DEF Spares
<1>2. \A g, v : /\ Spares(f, Fiber_make_runnable(b, g, v))
                /\ Spares(f, [b EXCEPT !.sched[g] = v])
  BY SparedSched DEF Spares
<1>3. \A d, reqs, open : Spares(f, prep(b, d, reqs, open)) /\ Spares(f, prep_cancel(b, d))
  BY SparedPrep DEF Spares
<1>4. QED
  BY <1>1, <1>2, <1>3, SparedSubmit DEF Spares

\* A context that is acquired was nobody's.
LEMMA SparesIssue ==
  ASSUME NEW f, NEW b, Spares(f, b), NEW g, NEW t, NEW reqs
  PROVE  /\ Spares(f, context_store_acquire(b, t, g)) /\ Spares(f, Issue(b, g, t, reqs))
         /\ \A b2, y : Spares(f, b2) => Spares(f, [b2 EXCEPT !.ctx[Acquired(b)] = y])
<1>1. Spares(f, context_store_acquire(b, t, g))
  BY SparedAcquire DEF Spares
<1>2. Spares(f, Issue(b, g, t, reqs))
  BY <1>1, SparesAny DEF Issue
<1>3. ASSUME NEW b2, NEW y, Spares(f, b2)
      PROVE  Spares(f, [b2 EXCEPT !.ctx[Acquired(b)] = y])
  BY <1>3, SparedAcquire, SparedRecord DEF Spares
<1>4. QED
  BY <1>1, <1>2, <1>3

LEMMA SparesEvent ==
  ASSUME NEW f, NEW b, Spares(f, b), NEW g
  PROVE  Spares(f, EventBegin(b, g)) /\ Spares(f, EventEnd(b))
<1>1. SUFFICES ASSUME NEW c \in Contexts, Spared(b, c, bk.cq, bk.ctx[c])
               PROVE  /\ Spared(EventBegin(b, g), c, bk.cq, bk.ctx[c])
                      /\ Spared(EventEnd(b), c, bk.cq, bk.ctx[c])
  BY DEF Spares
<1> DEFINE d == b.event
           b1 == context_store_release(b, d)
           b2 == Issue(b, g, "POLL", <<Request("EVENT", 0)>>)
           b3 == io_uring_backend_immediate_submit(prep_cancel(b1, d))
<1>2. d \in Nat /\ d # c /\ Acquired(b) \in Nat /\ Acquired(b) # c /\ NoCtx \in Nat /\ NoCtx # c
  <2>1. Fielded(b) /\ ~Free(b, c) /\ d # c /\ d \in Nat
    BY <1>1, Zenon DEF Spared, Fielded
  <2>2. QED
    BY <2>1, AcquiredWasFree, NoCtxContext DEF NoCtx
<1>3. Spared(b2, c, bk.cq, bk.ctx[c])
  <2>1. Spared(context_store_acquire(b, "POLL", g), c, bk.cq, bk.ctx[c])
    BY <1>1, SparedAcquire
  <2>2. QED
    BY <2>1, SparedPrep, SparedSubmit DEF Issue
<1>4. Spared(b1, c, bk.cq, bk.ctx[c])
  BY <1>1, <1>2, SparedRelease
<1>5. Spared(b3, c, bk.cq, bk.ctx[c])
  BY <1>4, SparedPrep, SparedSubmit
<1> HIDE DEF b1, b2, b3
<1>6. Spared([b2 EXCEPT !.event = Acquired(b)], c, bk.cq, bk.ctx[c])
  BY <1>2, <1>3, SparedEvent
<1>7. Spared([b3 EXCEPT !.event = NoCtx], c, bk.cq, bk.ctx[c])
  BY <1>2, <1>5, SparedEvent
<1>8. Spared([b EXCEPT !.ctx[d].ref = @ + 1], c, bk.cq, bk.ctx[c])
  <2>1. \E y : [b EXCEPT !.ctx[d].ref = @ + 1] = [b EXCEPT !.ctx[d] = y]
    BY Zenon
  <2>2. QED
    BY <1>1, <1>2, <2>1, SparedRecord
<1>9. QED
  BY <1>4, <1>6, <1>7, <1>8 DEF EventBegin, EventEnd, b1, b2, b3
TallyOf(s) == IF s.op \in WriteOps THEN BufLen - s.left ELSE s.total
LoopOps == {"read_loop", "feed_loop", "recv_loop", "recv_feed_loop"}

\* A transfer has counted what the kernel has moved for it but for the last request;
\* a context says nothing before its request completes.
Accounted(b, s) ==
    /\ \A r \in Outcomes : Shows(b, s.ctx, r) => s.moved = Positive(r) + TallyOf(s)
    /\ b.ctx[s.ctx].ref # 1 => b.ctx[s.ctx].result = 0
    /\ s.op \in LoopOps => s.total = 0
TallyOK(b, s) ==
    /\ s.pc # "await" => s.moved = 0 /\ s.total = 0
    /\ s.pc = "await" /\ s.op \in Transfers => Accounted(b, s)
TallyInv == \A f \in Fibers : TallyOK(bk, fs[f])

\* A transfer holds one context, its own, with one request or its result.
OneTransfer(g, c) ==
    /\ c = fs[g].ctx /\ c \in Contexts /\ bk.ctx[c].fiber = g /\ c # bk.event
    /\ bk.ctx[c].ref \in {1, 2} /\ bk.ctx[c].ref = Out(bk, c) + 1
    /\ fs[g].aux = NoCtx /\ ~Free(bk, c)

LEMMA TransferContext ==
  ASSUME UInv, NEW g \in Fibers, fs[g].pc = "await", fs[g].op \in Transfers
  PROVE  OneTransfer(g, fs[g].ctx)
<1> DEFINE c == fs[g].ctx
<1>1. FiberOK(bk, g, fs[g]) /\ Wf(bk)
  BY InvParts
<1>2. fs[g].op \in OneRequestOps
  BY DEF Transfers, OneRequestOps, ReadWriteOps, PlainOps
<1>3. fs[g].aux = NoCtx /\ c # NoCtx /\ WaitsForOne(bk, g, c)
  BY <1>1, <1>2 DEF FiberOK, AwaitOK
<1>4. /\ bk.ctx[c].fiber = g /\ bk.ctx[c].ref \notin {0, MULTISHOT_REFCOUNT} /\ c # bk.event
      /\ c \in Contexts /\ Out(bk, c) <= 1
  BY <1>3 DEF WaitsForOne, Waits, Mine
<1>5. c \in Claims(fs[g])
  BY <1>3 DEF Claims
<1>6. HoldersOf(fs, bk.event, c) = 1
  BY <1>4, <1>5, OwnContext
<1>7. Out(bk, c) \in Nat /\ bk.ctx[c].ref = Out(bk, c) + 1
  BY <1>4, <1>6, OutstandingCounts DEF ContextOK, CountOK
<1>8. ~Free(bk, c)
  BY <1>1, <1>4 DEF Wf, StoreOK
<1>9. QED
  BY <1>3, <1>4, <1>7, <1>8 DEF OneTransfer

LEMMA AccountedMoved ==
  ASSUME NEW b, NEW b2, NEW s, NEW k \in Nat, Moved(b, b2, s.ctx, k), Accounted(b, s),
         b2.ctx[s.ctx] = b.ctx[s.ctx], Answers(b2, s.ctx) \subseteq Int
  PROVE  Accounted(b2, s)
<1>1. \A r \in Outcomes : Shows(b2, s.ctx, r) => Shows(b, s.ctx, r)
  BY ShowsMoved
<1>2. QED
  BY <1>1 DEF Accounted

\* A fiber changes its own account only.
LEMMA TallyOthers ==
  ASSUME UInv, TallyInv, NEW f \in Fibers, Spares(f, bk'), NEW g \in Fibers, g # f
  PROVE  TallyOK(bk', fs[g])
<1>1. SUFFICES ASSUME fs[g].pc = "await", fs[g].op \in Transfers
               PROVE  Accounted(bk', fs[g])
  BY DEF TallyInv, TallyOK
<1> DEFINE c == fs[g].ctx
<1>2. OneTransfer(g, c) /\ bk \in Backends /\ fs \in [Fibers -> FiberStates]
  BY <1>1, TransferContext, InvParts
<1>3. c \notin Claims(fs[f])
  BY <1>2, InvParts, ClaimsMine DEF Mine, OneTransfer
<1>4. Apart(f, c)
  BY <1>2, <1>3, NoCtxContext DEF Apart, Claims, FiberStates, Contexts, NoCtx, OneTransfer
<1>5. Spared(bk, c, bk.cq, bk.ctx[c])
  BY <1>2, BackendFielded DEF OneTransfer, Spared
<1>6. Spared(bk', c, bk.cq, bk.ctx[c])
  BY <1>2, <1>4, <1>5 DEF Spares, OneTransfer
<1>7. bk'.cq = bk.cq /\ bk'.ctx[c] = bk.ctx[c] /\ bk.cq \in Seq(Completions)
  BY <1>2, <1>6, BackendFields DEF Spared
<1>8. Moved(bk, bk', c, 0) /\ Answers(bk', c) \subseteq Int
  BY <1>7, MovedNone DEF Answers
<1>9. Accounted(bk, fs[g])
  BY <1>1 DEF TallyInv, TallyOK
<1>10. QED
  BY <1>7, <1>8, <1>9, AccountedMoved
LEMMA TallyStep ==
  ASSUME UInv, TallyInv, NEW f \in Fibers, Spares(f, bk'), NEW t, TallyOK(bk', t),
         fs' = [fs EXCEPT ![f] = t]
  PROVE  TallyInv'
<1>1. fs \in [Fibers -> FiberStates]
  BY InvParts
<1>2. \A g \in Fibers : g # f => TallyOK(bk', fs[g])
  BY TallyOthers
<1>3. \A g \in Fibers : TallyOK(bk', fs'[g])
  BY <1>1, <1>2
<1>4. QED
  BY <1>3 DEF TallyInv

LEMMA LeftBlank ==
  ASSUME NEW s, NEW p, p # "await"
  PROVE  \A t \in {Left(s), Rest(s, p)} : t.pc # "await" /\ t.moved = 0 /\ t.total = 0
<1>1. Left(s).pc = "app" /\ Left(s).moved = 0 /\ Left(s).total = 0
  BY DEF Left, NoOp
<1>2. Rest(s, p).pc = p /\ Rest(s, p).moved = 0 /\ Rest(s, p).total = 0
  BY DEF Rest, Left, NoOp
<1>3. QED
  BY <1>1, <1>2

LEMMA TallyReturn ==
  ASSUME UInv, TallyInv, NEW f \in Fibers, NEW b, Spares(f, b), Return(f, b) \/ Raise(f, b)
  PROVE  TallyInv'
<1>1. PICK t : fs' = [fs EXCEPT ![f] = t] /\ t.pc # "await" /\ t.moved = 0 /\ t.total = 0
  <2>1. CASE Return(f, b)
    <3>1. \A t \in {Left(fs[f]), Rest(fs[f], "app")} : t.pc # "await" /\ t.moved = 0 /\ t.total = 0
      BY LeftBlank
    <3>2. QED
      BY <2>1, <3>1 DEF Return
  <2>2. CASE Raise(f, b)
    <3> DEFINE p == IF fs[f].timer = NoCtx THEN "app" ELSE "raise"
    <3>1. fs' = [fs EXCEPT ![f] = Rest(fs[f], p)] /\ p # "await"
      BY <2>2 DEF Raise, Rest
    <3> HIDE DEF p
    <3>2. QED
      BY <3>1, LeftBlank
  <2>3. QED
    BY <2>1, <2>2
<1>2. TallyOK(bk', t)
  BY <1>1 DEF TallyOK
<1>3. bk' = b
  BY DEF Return, Raise
<1>4. QED
  BY <1>1, <1>2, <1>3, TallyStep

\* State s of a fiber is of operation o.
HasOp(s, o) == {"op", "pc"} \subseteq DOMAIN s /\ s.op = o

LEMMA TallyAwait ==
  ASSUME UInv, TallyInv, NEW f \in Fibers, NEW b, Spares(f, b), NEW s, NEW o, HasOp(s, o),
         o \notin Transfers, Await(f, b, s)
  PROVE  TallyInv'
<1> DEFINE t == [s EXCEPT !.pc = "await"]
<1>1. t.op = o /\ t.pc = "await"
  BY DEF HasOp
<1>2. bk' = b /\ fs' = [fs EXCEPT ![f] = t]
  BY DEF Await
<1> HIDE DEF t
<1>3. TallyOK(bk', t)
  BY <1>1 DEF TallyOK
<1>4. QED
  BY <1>2, <1>3, TallyStep

\* The context of a new request has no completion and no result.
LEMMA FreshlyIssued ==
  ASSUME NEW f \in Fibers, NEW b, Ready(b, f), CanAcquire(b, 1), NEW k \in Types, NEW reqs,
         NEW c, c = Acquired(b), NEW b2, b2 = Issue(b, f, k, reqs)
  PROVE  b2.ctx[c].result = 0 /\ Answers(b2, c) = {} /\ c \in Contexts
<1> DEFINE b1 == context_store_acquire(b, k, f)
           x == NewContext(k, f)
<1>1. Wf(b) /\ EventOK(b) /\ TimerOK(b, f, fs[f]) /\ Good(b, Held(Counting(fs, f, Left(fs[f])), b.event))
  BY DEF Ready, Mid, Between, Good
<1>2. c \in Contexts /\ b.ctx[c].ref = 0
  BY <1>1, AcquiredFree
<1>3. Answers(b, c) = {}
  BY <1>1, <1>2 DEF Good, ContextOK, FreeOK
<1>4. /\ Wf(b1) /\ OthersKept(b, b1, c) /\ b1.ctx[c] = x /\ b1.event = b.event
  BY <1>1, AcquiredContext
<1>5. x.result = 0 /\ x.ref = 2
  BY DEF NewContext
<1> HIDE DEF x, b1
<1>6. Spared(b1, c, b.cq, x)
  <2>1. c # b1.event
    BY <1>1, <1>2, <1>4, NoCtxContext DEF EventOK
  <2>2. ~Free(b1, c) /\ Fielded(b1)
    BY <1>2, <1>4, <1>5, BackendFielded DEF Wf, StoreOK
  <2>3. QED
    BY <1>4, <2>1, <2>2 DEF Spared, OthersKept, SameRest
<1>7. Spared(b2, c, b.cq, x)
  <2>1. Spared(prep(b1, c, reqs, FALSE), c, b.cq, x)
    BY <1>2, <1>6, SparedPrep
  <2>2. QED
    BY <1>2, <2>1, SparedSubmit DEF Issue, b1
<1>8. b2.cq = b.cq /\ b2.ctx[c] = x
  BY <1>7 DEF Spared
<1>9. QED
  BY <1>2, <1>3, <1>5, <1>8 DEF Answers

LEMMA TallyIssue ==
  ASSUME UInv, TallyInv, NEW f \in Fibers, NEW b, Spares(f, b), Ready(b, f), NEW s \in FiberStates,
         NEW k \in Types, NEW n, IssueAndAwait(f, b, s, k, n),
         s.op \in Transfers => s.moved = TallyOf(s) /\ (s.op \in LoopOps => s.total = 0)
  PROVE  TallyInv'
<1> DEFINE c == Acquired(b)
           b2 == Issue(b, f, k, <<Request(k, n)>>)
           t == [[s EXCEPT !.ctx = c] EXCEPT !.pc = "await"]
<1>1. CanAcquire(b, 1) /\ bk' = b2 /\ fs' = [fs EXCEPT ![f] = t]
  BY DEF IssueAndAwait, Await
<1>2. Spares(f, b2)
  BY SparesIssue
<1>3. b2.ctx[c].result = 0 /\ Answers(b2, c) = {} /\ c \in Contexts
  BY <1>1, FreshlyIssued
<1>4. /\ t.ctx = c /\ t.pc = "await" /\ t.op = s.op /\ t.moved = s.moved /\ t.total = s.total
      /\ t.left = s.left /\ s.moved \in Nat
  BY DEF FiberStates
<1> HIDE DEF t, b2, c
<1>5. TallyOf(t) = TallyOf(s)
  BY <1>4, Zenon DEF TallyOf
<1>6. \A r : Shows(b2, c, r) => Positive(r) = 0
  BY <1>3 DEF Shows, Positive
<1>7. s.op \in Transfers => Accounted(b2, t)
  BY <1>3, <1>4, <1>5, <1>6 DEF Accounted
<1>8. TallyOK(b2, t)
  BY <1>4, <1>7 DEF TallyOK
<1>9. QED
  BY <1>1, <1>2, <1>8, TallyStep
LEMMA SparesAfter ==
  ASSUME NEW f
  PROVE  /\ Spares(f, bk) /\ Spares(f, Unscheduled(f)) /\ Spares(f, After(f).b)
         /\ Spares(f, context_attach_buffers(After(f).b, fs[f].ctx))
<1>1. Spares(f, bk)
  BY DEF Spares
<1>2. Spares(f, Unscheduled(f))
  BY <1>1, SparesAny DEF Unscheduled
<1>3. Spares(f, Awaited(f))
  BY <1>2, SparesOwn DEF Awaited
<1>4. After(f).b = context_store_release(Awaited(f), fs[f].ctx)
  BY DEF After
<1>5. Spares(f, After(f).b)
  BY <1>3, <1>4, SparesOwn
<1>6. QED
  BY <1>1, <1>2, <1>5, SparesOwn

\* What has counted no byte: the operations that return, or go on to another wait.
LEMMA TallyPlain ==
  ASSUME UInv, TallyInv, NEW f \in Fibers,
         \/ Run(f) \/ Backend_recv(f) \/ Backend_recvmsg(f) \/ Backend_connect(f) \/ Backend_close(f)
         \/ Backend_tee(f) \/ io_uring_backend_wait_fd(f) \/ Backend_sleep(f)
         \/ Backend_wait_event(f) \/ Backend_chain(f)
  PROVE  TallyInv'
<1> DEFINE a == After(f)
           c == fs[f].ctx
           b0 == context_store_release(Unscheduled(f), c)
           b1 == CancelNow(context_attach_buffers(b0, c), c)
<1>1. /\ Spares(f, Unscheduled(f)) /\ Spares(f, a.b) /\ Spares(f, EventEnd(Unscheduled(f)))
      /\ Spares(f, context_attach_buffers(a.b, fs[f].ctx))
  BY SparesAfter, SparesEvent
<1>2. Spares(f, b0)
  BY <1>1, SparesOwn
<1>3. Spares(f, context_attach_buffers(b0, c))
  BY <1>2, SparesOwn
<1>4. Spares(f, b1)
  BY <1>3, SparesOwn
<1>5. \E b : Spares(f, b) /\ (Return(f, b) \/ Raise(f, b))
  <2>1. CASE Run(f)
    BY <1>1, <2>1 DEF Run
  <2>2. CASE Backend_recv(f) \/ Backend_recvmsg(f)
    <3>1. KeepBuffers(f, a) \/ Raise(f, a.b) \/ Return(f, a.b)
      BY <2>2 DEF Backend_recv, Backend_recvmsg, BufferOp
    <3>2. QED
      BY <1>1, <3>1 DEF KeepBuffers
  <2>3. CASE Backend_connect(f) \/ Backend_close(f) \/ Backend_tee(f)
    BY <1>1, <2>3 DEF Backend_connect, Backend_close, Backend_tee, RaiseFirstOp
  <2>4. CASE io_uring_backend_wait_fd(f) \/ Backend_sleep(f)
    BY <1>1, <2>4 DEF io_uring_backend_wait_fd, Backend_sleep
  <2>5. CASE Backend_wait_event(f)
    BY <1>1, <2>5 DEF Backend_wait_event
  <2>6. CASE Backend_chain(f)
    BY <1>2, <1>4, <2>6 DEF Backend_chain
  <2>7. QED
    BY <2>1, <2>2, <2>3, <2>4, <2>5, <2>6
<1>6. QED
  BY <1>5, TallyReturn
\* A fiber that waits, but transfers nothing.
Waiting(f, b, s, o) == Spares(f, b) /\ HasOp(s, o) /\ o \notin Transfers /\ Await(f, b, s)

LEMMA TallyWaiting ==
  ASSUME UInv, TallyInv, NEW f \in Fibers,
         \/ \E b : Spares(f, b) /\ (Return(f, b) \/ Raise(f, b))
         \/ \E b, s, o : Waiting(f, b, s, o)
  PROVE  TallyInv'
BY TallyReturn, TallyAwait DEF Waiting

LEMMA OpKept ==
  ASSUME NEW s, NEW o, HasOp(s, o), NEW x, NEW y
  PROVE  /\ HasOp([s EXCEPT !.ctx = x], o) /\ HasOp([s EXCEPT !.aux = x], o)
         /\ HasOp([s EXCEPT !.left = x], o) /\ HasOp([s EXCEPT !.total = x], o)
         /\ HasOp([s EXCEPT !.queue = x], o) /\ HasOp([s EXCEPT !.ctx = x, !.aux = y], o)
BY DEF HasOp

LEMMA EnteredOp ==
  ASSUME UInv, NEW f \in Fibers, NEW o, Running(f, o)
  PROVE  HasOp(Entered(f, o), o) /\ HasOp(fs[f], fs[f].op)
<1>1. fs[f] \in FiberStates
  BY InvParts
<1>2. o \in OpNames
  BY <1>1, RunningName
<1>3. Entered(f, o) \in FiberStates /\ Entered(f, o).op = o
  BY <1>1, <1>2, EnteredFields
<1>4. QED
  BY <1>1, <1>3 DEF HasOp, FiberStates

LEMMA SparesShift ==
  ASSUME NEW f, NEW b, Spares(f, b), NEW g, NEW q
  PROVE  /\ Spares(f, ShiftBegin(b, g, q)) /\ Spares(f, Shifted(b, q))
         /\ Spares(f, [EventEnd(b) EXCEPT !.queues[q].waiters = RemoveFirst(@, g)])
<1>1. ASSUME NEW a, Spares(f, a), NEW w, NEW a2, a2 = [a EXCEPT !.queues = w]
      PROVE  Spares(f, a2)
  <2>1. "queues" \in Others
    BY DEF Others, FieldNames
  <2>2. QED
    BY <1>1, <2>1, SparesAny
<1> DEFINE b1 == IF b.queues[q].fds = <<>> THEN b ELSE Fiber_make_runnable(b, g, "nil")
           b2 == [b1 EXCEPT !.queues[q].waiters = Append(@, g)]
<1>2. Spares(f, b1)
  BY SparesAny
<1>3. Spares(f, b2)
  <2> HIDE DEF b1
  <2>1. \E w : b2 = [b1 EXCEPT !.queues = w]
    BY Zenon
  <2>2. QED
    BY <1>1, <1>2, <2>1
<1>4. Spares(f, ShiftBegin(b, g, q))
  BY <1>3, SparesEvent DEF ShiftBegin
<1>5. Spares(f, Shifted(b, q))
  <2>1. \E w : Shifted(b, q) = [b EXCEPT !.queues = w]
    BY Zenon DEF Shifted
  <2>2. QED
    BY <1>1, <2>1
<1>6. Spares(f, [EventEnd(b) EXCEPT !.queues[q].waiters = RemoveFirst(@, g)])
  <2>1. \E w : [EventEnd(b) EXCEPT !.queues[q].waiters = RemoveFirst(@, g)]
                 = [EventEnd(b) EXCEPT !.queues = w]
    BY Zenon
  <2>2. Spares(f, EventEnd(b))
    BY SparesEvent
  <2>3. QED
    BY <1>1, <2>1, <2>2
<1>7. QED
  BY <1>4, <1>5, <1>6
LEMMA TallyShift ==
  ASSUME UInv, TallyInv, NEW f \in Fibers,
         StartQueued(f) \/ StartEvent(f) \/ Backend_accept(f) \/ accept_loop_from_queue(f)
  PROVE  TallyInv'
<1>1. {"accept_queued", "wait_event", "accept_loop"} \cap Transfers = {} /\ fs[f] \in FiberStates
  BY InvParts DEF Transfers, ReadOps, WriteOps
<1>2. \A q : Spares(f, ShiftEnd(f, q))
  BY SparesAfter, SparesShift DEF ShiftEnd
<1>3. CASE StartQueued(f)
  <2>1. HasOp(Entered(f, "accept_queued"), "accept_queued")
    BY <1>3, EnteredOp DEF StartQueued
  <2>2. HasOp([Entered(f, "accept_queued") EXCEPT !.queue = bk.acceptq], "accept_queued")
    BY <2>1, OpKept, Zenon
  <2>3. Spares(f, ShiftBegin(bk, f, bk.acceptq))
    BY SparesAfter, SparesShift
  <2>4. QED
    BY <1>1, <1>3, <2>2, <2>3, TallyWaiting DEF StartQueued, Waiting
<1>4. CASE StartEvent(f)
  <2>1. HasOp(Entered(f, "wait_event"), "wait_event") /\ Spares(f, EventBegin(bk, f))
    BY <1>4, EnteredOp, SparesAfter, SparesEvent DEF StartEvent
  <2>2. QED
    BY <1>1, <1>4, <2>1, TallyWaiting DEF StartEvent, Waiting
<1>5. CASE Backend_accept(f)
  <2> DEFINE q == fs[f].queue
             b == ShiftEnd(f, q)
  <2>1. HasOp(fs[f], "accept_queued")
    BY <1>1, <1>5 DEF Backend_accept, Resumes, HasOp, FiberStates
  <2>2. Spares(f, b) /\ Spares(f, ShiftBegin(b, f, q)) /\ Spares(f, Shifted(b, q))
    BY <1>2, SparesShift
  <2>3. \/ Raise(f, b) \/ Raise(f, Shifted(b, q)) \/ Return(f, Shifted(b, q))
        \/ Await(f, ShiftBegin(b, f, q), fs[f])
    BY <1>5, Zenon DEF Backend_accept
  <2> HIDE DEF b
  <2>4. QED
    BY <1>1, <2>1, <2>2, <2>3, TallyWaiting DEF Waiting
<1>6. CASE accept_loop_from_queue(f)
  <2> DEFINE b == ShiftEnd(f, f)
             e == multishot_accept_cleanup(b, f)
             d == multishot_accept_cleanup(Shifted(b, f), f)
  <2>1. HasOp(fs[f], "accept_loop")
    BY <1>1, <1>6 DEF accept_loop_from_queue, Resumes, HasOp, FiberStates
  <2>2. Spares(f, b) /\ Spares(f, ShiftBegin(b, f, f)) /\ Spares(f, Shifted(b, f))
    BY <1>2, SparesShift
  <2>3. Spares(f, ShiftBegin(Shifted(b, f), f, f))
    BY <2>2, SparesShift
  <2>4. ASSUME NEW b2, Spares(f, b2) PROVE Spares(f, multishot_accept_cleanup(b2, f))
    <3> DEFINE b3 == io_uring_backend_defer_submit(prep_cancel(b2, fs[f].aux))
    <3>1. Spares(f, b3) /\ "acceptq" \in Others
      BY <2>4, SparesAny DEF Others, FieldNames
    <3> HIDE DEF b3
    <3>2. Spares(f, [b3 EXCEPT !.acceptq = NoFiber])
      BY <3>1, SparesAny
    <3>3. QED
      BY <3>2 DEF multishot_accept_cleanup, b3
  <2>5. Spares(f, e) /\ Spares(f, d)
    BY <2>2, <2>4
  <2>6. \/ Raise(f, e) \/ Raise(f, d) \/ Await(f, ShiftBegin(b, f, f), fs[f])
        \/ Await(f, ShiftBegin(Shifted(b, f), f, f), fs[f])
    BY <1>6, Zenon DEF accept_loop_from_queue
  <2> HIDE DEF b, d, e
  <2>7. QED
    BY <1>1, <2>1, <2>2, <2>3, <2>5, <2>6, TallyWaiting DEF Waiting
<1>7. QED
  BY <1>3, <1>4, <1>5, <1>6
\* A context that was just acquired may be given another record.
LEMMA SparesPut ==
  ASSUME NEW f, NEW b, Spares(f, b), NEW g, NEW t, NEW reqs, NEW n, NEW b2, NEW c, c = Acquired(b),
         b2 = Issue(b, g, t, reqs)
  PROVE  Spares(f, [b2 EXCEPT !.ctx[c].ref = n]) /\ Spares(f, [b2 EXCEPT !.ctx[c].resume = n])
<1>1. Spares(f, b2) /\ \A y : Spares(f, [b2 EXCEPT !.ctx[c] = y])
  BY SparesIssue
<1>2. /\ \E y : [b2 EXCEPT !.ctx[c].ref = n] = [b2 EXCEPT !.ctx[c] = y]
      /\ \E y : [b2 EXCEPT !.ctx[c].resume = n] = [b2 EXCEPT !.ctx[c] = y]
  BY Zenon
<1>3. QED
  BY <1>1, <1>2

LEMMA TallyMultishot ==
  ASSUME UInv, TallyInv, NEW f \in Fibers, StartMultishot(f)
  PROVE  TallyInv'
<1> DEFINE b == [bk EXCEPT !.acceptq = f, !.queues[f].fds = <<>>]
           b1 == Issue(b, f, "MULTISHOT_ACCEPT", <<Request("MULTISHOT_ACCEPT", 0)>>)
           b2 == [b1 EXCEPT !.ctx[Acquired(b)].ref = MULTISHOT_REFCOUNT]
           s == [Entered(f, "accept_loop") EXCEPT !.aux = Acquired(b)]
<1>1. Running(f, "accept_loop") /\ Await(f, ShiftBegin(b2, f, f), s)
  BY Zenon DEF StartMultishot, multishot_accept_start
<1>2. HasOp(Entered(f, "accept_loop"), "accept_loop") /\ "accept_loop" \notin Transfers
  BY <1>1, EnteredOp DEF Transfers, ReadOps, WriteOps
<1>3. HasOp(s, "accept_loop")
  BY <1>2, OpKept, Zenon
<1>4. Spares(f, b)
  <2>1. "acceptq" \in Others /\ "queues" \in Others /\ bk \in Backends
    BY InvParts DEF Others, FieldNames
  <2>2. PICK w : b = [[bk EXCEPT !.acceptq = f] EXCEPT !.queues = w]
    BY Zenon
  <2>3. Spares(f, [bk EXCEPT !.acceptq = f])
    BY <2>1, SparesAfter, SparesAny
  <2>4. QED
    BY <2>1, <2>2, <2>3, SparesAny
<1> HIDE DEF b, s
<1>5. Spares(f, b2)
  BY <1>4, SparesPut
<1> HIDE DEF b2
<1>6. Spares(f, ShiftBegin(b2, f, f))
  BY <1>5, SparesShift
<1>7. QED
  BY <1>1, <1>2, <1>3, <1>6, TallyWaiting DEF Waiting

LEMMA TallyTimer ==
  ASSUME UInv, TallyInv, NEW f \in Fibers,
         \/ StartTimerLoop(f) \/ Backend_timer_loop(f) \/ Backend_snooze(f)
         \/ io_uring_backend_accept(f)
  PROVE  TallyInv'
<1>1. /\ {"timer_loop", "snooze", "accept", "accept_each"} \cap Transfers = {}
      /\ fs[f] \in FiberStates /\ HasOp(fs[f], fs[f].op)
  BY InvParts DEF Transfers, ReadOps, WriteOps, HasOp, FiberStates
<1>2. ASSUME NEW b, NEW s, NEW o, NEW k, NEW n, Spares(f, b), HasOp(s, o), o \notin Transfers,
             IssueAndAwait(f, b, s, k, n)
      PROVE  TallyInv'
  <2>1. HasOp([s EXCEPT !.ctx = Acquired(b)], o)
    BY <1>2, OpKept, Zenon
  <2>2. Spares(f, Issue(b, f, k, <<Request(k, n)>>))
    BY <1>2, SparesIssue
  <2>3. QED
    BY <1>2, <2>1, <2>2, TallyAwait DEF IssueAndAwait
<1>3. Spares(f, bk) /\ Spares(f, Unscheduled(f)) /\ Spares(f, After(f).b)
  BY SparesAfter
<1>4. CASE StartTimerLoop(f)
  <2>1. HasOp(Entered(f, "timer_loop"), "timer_loop")
    BY <1>4, EnteredOp DEF StartTimerLoop
  <2>2. QED
    BY <1>1, <1>2, <1>3, <1>4, <2>1 DEF StartTimerLoop
<1>5. CASE Backend_timer_loop(f)
  <2> DEFINE s == [fs[f] EXCEPT !.op = "timer_loop"]
  <2>1. PICK b \in {Unscheduled(f), After(f).b} : Raise(f, b) \/ Return(f, b) \/ TimerRound(f, b)
    BY <1>5 DEF Backend_timer_loop
  <2>2. HasOp(s, "timer_loop")
    BY <1>1 DEF HasOp
  <2> HIDE DEF s
  <2>3. HasOp([s EXCEPT !.ctx = NoCtx], "timer_loop")
    BY <2>2, OpKept, Zenon
  <2>4. Spares(f, b) /\ Spares(f, Fiber_make_runnable(b, f, "nil"))
    BY <1>3, SparesAny
  <2>5. CASE TimerRound(f, b)
    <3>1. \/ IssueAndAwait(f, b, s, "TIMEOUT", 0)
          \/ Await(f, Fiber_make_runnable(b, f, "nil"), [s EXCEPT !.ctx = NoCtx])
      BY <2>5 DEF TimerRound, s
    <3>2. QED
      BY <1>1, <1>2, <2>2, <2>3, <2>4, <3>1, TallyAwait
  <2>6. QED
    BY <2>1, <2>4, <2>5, TallyReturn
<1>6. CASE Backend_snooze(f)
  <2>1. CASE Running(f, "snooze")
    <3>1. HasOp(Entered(f, "snooze"), "snooze") /\ Spares(f, Fiber_make_runnable(bk, f, "nil"))
      BY <1>3, <2>1, EnteredOp, SparesAny
    <3>2. Await(f, Fiber_make_runnable(bk, f, "nil"), Entered(f, "snooze"))
      BY <1>6, <2>1 DEF Backend_snooze, Running, Resumes
    <3>3. QED
      BY <1>1, <3>1, <3>2, TallyAwait
  <2>2. CASE ~Running(f, "snooze")
    BY <1>3, <1>6, <2>2, TallyReturn DEF Backend_snooze
  <2>3. QED
    BY <2>1, <2>2
<1>7. CASE io_uring_backend_accept(f)
  <2>1. Resumes(f, "accept") \/ Resumes(f, "accept_each")
    BY <1>7 DEF io_uring_backend_accept, RaiseFirstOp
  <2>2. fs[f].op \notin Transfers
    BY <1>1, <2>1 DEF Resumes
  <2>3. \/ Raise(f, After(f).b) \/ Return(f, After(f).b)
        \/ IssueAndAwait(f, After(f).b, fs[f], "ACCEPT", 0)
    BY <1>7 DEF io_uring_backend_accept, RaiseFirstOp
  <2>4. QED
    BY <1>1, <1>2, <1>3, <2>2, <2>3, TallyReturn
<1>8. QED
  BY <1>4, <1>5, <1>6, <1>7

\* A context f neither shares nor disturbs: its own, or one that was free.
Outside(f, d) ==
    \A c \in Contexts : Apart(f, c) /\ Spared(bk, c, bk.cq, bk.ctx[c]) => d \in Nat \ {c}

LEMMA SparesOutside ==
  ASSUME NEW f, NEW b, Spares(f, b), NEW d, Outside(f, d)
  PROVE  /\ Spares(f, context_store_release(b, d)) /\ Spares(f, CancelNow(b, d))
         /\ \A n : Spares(f, [b EXCEPT !.ctx[d].ref = n])
         /\ \A y : Spares(f, [b EXCEPT !.ctx[d] = y])
<1>1. Spares(f, context_store_release(b, d)) /\ Spares(f, CancelNow(b, d))
  BY SparedRelease, SparedCancel DEF Spares, Outside
<1>2. \A y : Spares(f, [b EXCEPT !.ctx[d] = y])
  BY SparedRecord DEF Spares, Outside
<1>3. ASSUME NEW n PROVE Spares(f, [b EXCEPT !.ctx[d].ref = n])
  <2>1. \E y : [b EXCEPT !.ctx[d].ref = n] = [b EXCEPT !.ctx[d] = y]
    BY Zenon
  <2>2. QED
    BY <1>2, <2>1
<1>4. QED
  BY <1>1, <1>2, <1>3

LEMMA AcquiredOutside ==
  ASSUME NEW f, NEW b, Spares(f, b)
  PROVE  Outside(f, Acquired(b))
<1>1. \A c \in Contexts : Spared(b, c, bk.cq, bk.ctx[c]) => Fielded(b) /\ ~Free(b, c)
  BY DEF Spared
<1>2. QED
  BY <1>1, AcquiredWasFree DEF Outside, Spares

LEMMA SparesChain ==
  ASSUME NEW f, NEW b, Spares(f, b), NEW t, NEW reqs
  PROVE  Spares(f, IssueChain(b, f, t, reqs))
BY SparesPut DEF IssueChain

LEMMA TallyChain ==
  ASSUME UInv, TallyInv, NEW f \in Fibers,
         StartChain(f) \/ StartSpliceChunks(f) \/ Backend_splice_chunks(f)
  PROVE  TallyInv'
<1>1. {"chain", "splice_chunks"} \cap Transfers = {} /\ fs[f] \in FiberStates
  BY InvParts DEF Transfers, ReadOps, WriteOps
<1>2. ASSUME NEW b, NEW s, NEW o, HasOp(s, o), o \notin Transfers, Spares(f, b), NEW t, NEW reqs,
             Await(f, IssueChain(b, f, t, reqs), [s EXCEPT !.ctx = Acquired(b)])
      PROVE  TallyInv'
  <2>1. HasOp([s EXCEPT !.ctx = Acquired(b)], o)
    BY <1>2, OpKept, Zenon
  <2>2. Spares(f, IssueChain(b, f, t, reqs))
    BY <1>2, SparesChain
  <2>3. QED
    BY <1>2, <2>1, <2>2, TallyAwait
<1>3. Spares(f, bk) /\ Spares(f, After(f).b)
  BY SparesAfter
<1>4. CASE Running(f, "chain") /\ Await(f, IssueChain(bk, f, "CHAIN", ChainRequests),
                [Entered(f, "chain") EXCEPT !.ctx = Acquired(bk)])
  <2>1. HasOp(Entered(f, "chain"), "chain")
    BY <1>4, EnteredOp
  <2>2. QED
    BY <1>1, <1>2, <1>3, <1>4, <2>1
<1>5. CASE Running(f, "chain_invalid") /\ ChainRejected(f)
  <2> DEFINE c == Acquired(bk)
             b == context_store_acquire(bk, "CHAIN", f)
             b1 == prep(b, c, ChainRequests, TRUE)
             b2 == [b EXCEPT !.ctx[c].ref = 1]
             b3 == [b1 EXCEPT !.ctx[c] = [@ EXCEPT !.ref = Len(ChainRequests),
                                                   !.buffers = "rejected"]]
             p == IF fs[f].timer = NoCtx THEN "app" ELSE "raise"
             t == Rest(Entered(f, "chain_invalid"), p)
  <2>1. Outside(f, c)
    BY <1>3, AcquiredOutside
  <2>2. Spares(f, b)
    BY <1>3, SparesIssue
  <2>3. Spares(f, b1)
    BY <2>2, SparesAny
  <2>4. bk' \in {context_store_release(b2, c), CancelNow(b3, c)}
    BY <1>5, Zenon DEF ChainRejected
  <2>5. fs' = [fs EXCEPT ![f] = t]
    BY <1>5 DEF ChainRejected, Rest
  <2> HIDE DEF c, b, b1
  <2>r. \E y : b3 = [b1 EXCEPT !.ctx[c] = y]
    BY Zenon
  <2>6. Spares(f, b2) /\ Spares(f, b3)
    BY <2>1, <2>2, <2>3, <2>r, SparesOutside
  <2> HIDE DEF b2, b3
  <2>7. Spares(f, bk')
    BY <2>1, <2>4, <2>6, SparesOutside
  <2>8. p # "await"
    OBVIOUS
  <2> HIDE DEF p
  <2>9. t.pc # "await" /\ t.moved = 0 /\ t.total = 0
    BY <2>8, LeftBlank
  <2> HIDE DEF t
  <2>10. TallyOK(bk', t)
    BY <2>9 DEF TallyOK
  <2>11. QED
    BY <2>5, <2>7, <2>10, TallyStep
<1>6. CASE StartSpliceChunks(f)
  <2>1. HasOp(Entered(f, "splice_chunks"), "splice_chunks")
    BY <1>6, EnteredOp DEF StartSpliceChunks
  <2>2. PICK n, reqs : ChunksBegin(f, bk, [Entered(f, "splice_chunks") EXCEPT !.left = n], reqs)
    BY <1>6 DEF StartSpliceChunks
  <2> DEFINE s == [Entered(f, "splice_chunks") EXCEPT !.left = n]
  <2>3. HasOp(s, "splice_chunks")
    BY <2>1, OpKept, Zenon
  <2>4. Await(f, IssueChain(bk, f, "SPLICE", reqs), [s EXCEPT !.ctx = Acquired(bk)])
    BY <2>2 DEF ChunksBegin
  <2> HIDE DEF s
  <2>5. QED
    BY <1>1, <1>2, <1>3, <2>3, <2>4
<1>7. CASE Backend_splice_chunks(f)
  <2> DEFINE s == fs[f]
             a == After(f)
             b == IF a.completed THEN a.b ELSE CancelNow(a.b, s.ctx)
             s2 == [s EXCEPT !.total = 1]
  <2>1. HasOp(s, "splice_chunks")
    BY <1>1, <1>7 DEF Backend_splice_chunks, Resumes, HasOp, FiberStates
  <2>2. Spares(f, b)
    BY <1>3, SparesOwn
  <2>3. Spares(f, context_attach_buffers(b, s.ctx))
    <3> HIDE DEF b
    <3>1. QED
      BY <2>2, SparesOwn
  <2>4. HasOp(s2, "splice_chunks")
    BY <2>1, OpKept, Zenon
  <2>5. \/ Raise(f, context_attach_buffers(b, s.ctx)) \/ Return(f, b)
        \/ \E w \in {s, s2} : \E reqs : ChunksBegin(f, b, w, reqs)
    BY <1>7, Zenon DEF Backend_splice_chunks
  <2> HIDE DEF b, s, s2
  <2>6. ASSUME NEW w \in {s, s2}, NEW reqs, ChunksBegin(f, b, w, reqs)
        PROVE  TallyInv'
    <3>1. HasOp(w, "splice_chunks")
      BY <2>1, <2>4, <2>6
    <3>2. Await(f, IssueChain(b, f, "SPLICE", reqs), [w EXCEPT !.ctx = Acquired(b)])
      BY <2>6 DEF ChunksBegin
    <3>3. QED
      BY <1>1, <1>2, <2>2, <3>1, <3>2
  <2>7. QED
    BY <2>2, <2>3, <2>5, <2>6, TallyReturn
<1>8. QED
  BY <1>4, <1>5, <1>6, <1>7 DEF StartChain

LEMMA SparesPipe ==
  ASSUME NEW f, NEW b, Spares(f, b), NEW k
  PROVE  /\ Spares(f, prepare_double_splice_ctx(b, f, k)) /\ Spares(f, FlushAtLimit(b))
         /\ \A c \in {fs[f].ctx, fs[f].aux} : Spares(f, Abandon(b, c))
<1> DEFINE b0 == context_store_acquire(b, "SPLICE", f)
           b1 == prep(b0, Acquired(b), <<Request(k, BufLen)>>, FALSE)
<1>1. Spares(f, b0)
  BY SparesIssue
<1>2. Spares(f, b1) /\ "pending" \in Others
  <2> HIDE DEF b0
  <2>1. QED
    BY <1>1, SparesAny DEF Others, FieldNames
<1> HIDE DEF b1
<1>3. Spares(f, prepare_double_splice_ctx(b, f, k))
  <2>1. Spares(f, [b1 EXCEPT !.pending = @ + 1])
    BY <1>2, SparesAny
  <2>2. QED
    BY <2>1 DEF prepare_double_splice_ctx, b1
<1>4. Spares(f, FlushAtLimit(b))
  BY SparesAny DEF FlushAtLimit
<1>5. ASSUME NEW c \in {fs[f].ctx, fs[f].aux}
      PROVE  Spares(f, Abandon(b, c))
  <2>1. Spares(f, context_store_release(b, c))
    BY SparesOwn
  <2>2. Spares(f, io_uring_backend_cancel(context_store_release(b, c), c))
    BY <2>1, SparesOwn
  <2>3. QED
    BY <2>2 DEF Abandon
<1>6. QED
  BY <1>3, <1>4, <1>5

LEMMA TallyPipe ==
  ASSUME UInv, TallyInv, NEW f \in Fibers, StartDoubleSplice(f) \/ double_splice_safe(f)
  PROVE  TallyInv'
<1>1. "double_splice" \notin Transfers /\ fs[f] \in FiberStates
  BY InvParts DEF Transfers, ReadOps, WriteOps
<1>2. Spares(f, bk) /\ Spares(f, Unscheduled(f))
  BY SparesAfter
<1>3. CASE StartDoubleSplice(f)
  <2> DEFINE b1 == prepare_double_splice_ctx(bk, f, "SPLICE")
             b2 == prepare_double_splice_ctx(b1, f, "DRAIN")
             e == Entered(f, "double_splice")
             s == [e EXCEPT !.ctx = Acquired(bk), !.aux = Acquired(b1)]
  <2>1. HasOp(e, "double_splice") /\ Await(f, FlushAtLimit(b2), s)
    BY <1>3, EnteredOp DEF StartDoubleSplice
  <2>2. Spares(f, b1)
    BY <1>2, SparesPipe
  <2> HIDE DEF b1
  <2>3. Spares(f, b2)
    BY <2>2, SparesPipe
  <2> HIDE DEF b2, e
  <2>4. Spares(f, FlushAtLimit(b2))
    BY <2>3, SparesPipe
  <2>5. HasOp(s, "double_splice")
    BY <2>1, OpKept, Zenon
  <2> HIDE DEF s
  <2>6. QED
    BY <1>1, <2>1, <2>4, <2>5, TallyAwait
<1>4. CASE double_splice_safe(f)
  <2> DEFINE s == fs[f]
             b == Unscheduled(f)
             g1 == Abandon(b, s.ctx)
             g2 == Abandon(g1, s.aux)
             gone == io_uring_backend_immediate_submit(g2)
             srcDone == s.ctx # NoCtx /\ b.ctx[s.ctx].ref = 1
             srcEof == srcDone /\ b.ctx[s.ctx].result = 0
             b1 == IF srcDone THEN context_store_release(b, s.ctx) ELSE b
             b2 == IF srcDone /\ ~srcEof
                   THEN prepare_double_splice_ctx(b1, f, "SPLICE") ELSE b1
             src == IF srcEof THEN NoCtx ELSE IF srcDone THEN Acquired(b1) ELSE s.ctx
             b3 == context_store_release(b2, s.aux)
             b4 == prepare_double_splice_ctx(b3, f, "DRAIN")
             s1 == [s EXCEPT !.ctx = src, !.aux = Acquired(b3)]
             s2 == [s EXCEPT !.ctx = src]
  <2>1. HasOp(s, "double_splice")
    <3>1. Resumes(f, "double_splice")
      BY <1>4, Zenon DEF double_splice_safe
    <3>2. QED
      BY <1>1, <3>1 DEF Resumes, HasOp, FiberStates
  <2>2. \/ Raise(f, gone) \/ Return(f, gone) \/ Return(f, b3)
        \/ Await(f, FlushAtLimit(b4), s1) \/ Await(f, FlushAtLimit(b2), s2)
    BY <1>4, Zenon DEF double_splice_safe
  <2>3. Spares(f, b1)
    BY <1>2, SparesOwn
  <2>4. Spares(f, g1)
    BY <1>2, SparesPipe
  <2> HIDE DEF g1, b1
  <2>5. Spares(f, g2)
    BY <2>4, SparesPipe
  <2>6. Spares(f, b2)
    BY <2>3, SparesPipe
  <2> HIDE DEF g2, b2
  <2>7. Spares(f, gone) /\ Spares(f, b3)
    BY <2>5, <2>6, SparesAny, SparesOwn
  <2> HIDE DEF gone, b3
  <2>8. Spares(f, b4)
    BY <2>7, SparesPipe
  <2> HIDE DEF b4
  <2>9. Spares(f, FlushAtLimit(b4)) /\ Spares(f, FlushAtLimit(b2))
    BY <2>6, <2>8, SparesPipe
  <2> HIDE DEF src, b, s
  <2>10. HasOp(s1, "double_splice") /\ HasOp(s2, "double_splice")
    BY <2>1, OpKept, Zenon
  <2> HIDE DEF s1, s2
  <2>11. QED
    BY <1>1, <2>2, <2>7, <2>9, <2>10, TallyReturn, TallyAwait
<1>5. QED
  BY <1>3, <1>4

\* What changes nothing but the timer of a fiber and how far it is.
LEMMA TallyRunning ==
  ASSUME UInv, TallyInv, NEW f \in Fibers,
         Backend_timeout(f) \/ Backend_timeout_ensure(f) \/ Finish(f) \/ Backend_post_fork(f)
  PROVE  TallyInv'
<1>1. fs \in [Fibers -> FiberStates] /\ fs[f] \in FiberStates /\ Spares(f, bk)
  BY InvParts, SparesAfter
<1>2. fs[f].pc # "await" => fs[f].moved = 0 /\ fs[f].total = 0
  BY DEF TallyInv, TallyOK
<1>3. ASSUME Spares(f, bk'), NEW t, fs' = [fs EXCEPT ![f] = t],
             t.pc # "await", t.moved = 0, t.total = 0
      PROVE  TallyInv'
  <2>1. TallyOK(bk', t)
    BY <1>3 DEF TallyOK
  <2>2. QED
    BY <1>3, <2>1, TallyStep
<1>4. CASE Backend_timeout(f)
  <2> DEFINE b2 == Issue(bk, f, "TIMEOUT", <<Request("TIMEOUT", 0)>>)
             t == [fs[f] EXCEPT !.timer = Acquired(bk), !.step = @ + 1]
  <2>1. Spares(f, [b2 EXCEPT !.ctx[Acquired(bk)].resume = "timeout"])
    BY <1>1, SparesPut
  <2>2. Spares(f, bk')
    BY <1>4, <2>1 DEF Backend_timeout
  <2>3. fs' = [fs EXCEPT ![f] = t]
    BY <1>1, <1>4 DEF Backend_timeout
  <2>4. t.pc = fs[f].pc /\ t.moved = fs[f].moved /\ t.total = fs[f].total
    BY <1>1 DEF FiberStates
  <2>5. fs[f].pc = "app"
    BY <1>4 DEF Backend_timeout, Running
  <2> HIDE DEF t
  <2>6. QED
    BY <1>2, <1>3, <2>2, <2>3, <2>4, <2>5
<1>5. CASE Backend_timeout_ensure(f)
  <2> DEFINE t == [Left(fs[f]) EXCEPT !.timer = NoCtx]
  <2>1. Spares(f, CancelNow(bk, fs[f].timer))
    BY <1>1, SparesOwn
  <2>2. Spares(f, context_store_release(CancelNow(bk, fs[f].timer), fs[f].timer))
    BY <2>1, SparesOwn
  <2>3. Spares(f, bk') /\ fs' = [fs EXCEPT ![f] = t]
    BY <1>5, <2>2 DEF Backend_timeout_ensure
  <2>4. t.pc = "app" /\ t.moved = 0 /\ t.total = 0
    BY DEF Left, NoOp
  <2> HIDE DEF t
  <2>5. QED
    BY <1>3, <2>3, <2>4
<1>6. CASE Finish(f)
  <2> DEFINE t == [fs[f] EXCEPT !.pc = "dead"]
  <2>1. Spares(f, bk') /\ fs' = [fs EXCEPT ![f] = t] /\ fs[f].pc = "app"
    BY <1>1, <1>6 DEF Finish
  <2>2. t.pc = "dead" /\ t.moved = fs[f].moved /\ t.total = fs[f].total
    BY <1>1 DEF FiberStates
  <2> HIDE DEF t
  <2>3. QED
    BY <1>2, <1>3, <2>1, <2>2
<1>7. CASE Backend_post_fork(f)
  <2>1. \A g \in Fibers : fs'[g] \in {Left(Entered(f, "fork")), [NoOp EXCEPT !.pc = "dead"]}
    BY <1>7 DEF Backend_post_fork
  <2>2. \A t \in {Left(Entered(f, "fork")), [NoOp EXCEPT !.pc = "dead"]} :
            t.pc # "await" /\ t.moved = 0 /\ t.total = 0
    <3>1. Left(Entered(f, "fork")).pc = "app" /\ Left(Entered(f, "fork")).moved = 0
          /\ Left(Entered(f, "fork")).total = 0
      BY DEF Left, NoOp
    <3>2. QED
      BY <3>1 DEF NoOp
  <2>3. \A g \in Fibers : TallyOK(bk', fs'[g])
    BY <2>1, <2>2 DEF TallyOK
  <2>4. QED
    BY <2>3 DEF TallyInv
<1>8. QED
  BY <1>4, <1>5, <1>6, <1>7

----------------------------------------------------------------------------
(* Transfers: what the completed request moved is what is counted next. *)

\* Before its completion is handled a transfer has one request out, and no result.
Idles(c) == bk.ctx[c].ref = 1 /\ Answers(bk, c) = {} /\ ReqsOf(bk, c) = <<>>
Asks(c) == bk.ctx[c].ref = 2 /\ Answers(bk, c) = {} /\ Len(ReqsOf(bk, c)) = 1
Told(c) == bk.ctx[c].ref = 2 /\ Done(bk, c) = 1 /\ ReqsOf(bk, c) = <<>>

LEMMA TransferOut ==
  ASSUME UInv, NEW g, NEW c, OneTransfer(g, c)
  PROVE  Idles(c) \/ Asks(c) \/ Told(c)
<1> DEFINE q == ReqsOf(bk, c)
<1>1. bk \in Backends /\ OneChain(bk) /\ c \in Contexts
  BY InvParts DEF Wf, OneTransfer
<1>2. q \in Seq(Requests) /\ Done(bk, c) \in Nat /\ (Done(bk, c) = 0 <=> Answers(bk, c) = {})
  BY <1>1, ReqsDetermined, AnswersFinite
<1>3. bk.ctx[c].ref \in {1, 2} /\ bk.ctx[c].ref = (Len(q) + Done(bk, c)) + 1
  BY DEF OneTransfer, Out
<1> HIDE DEF q
<1>4. Len(q) \in Nat /\ (Len(q) = 0 <=> q = <<>>)
  BY <1>2
<1> DEFINE l == Len(q)
           d == Done(bk, c)
           n == bk.ctx[c].ref
<1>5. l \in Nat /\ d \in Nat /\ n \in {1, 2} /\ n = (l + d) + 1
  BY <1>2, <1>3, <1>4
<1> HIDE DEF l, d, n
<1>6. (n = 1 /\ l = 0 /\ d = 0) \/ (n = 2 /\ l = 1 /\ d = 0) \/ (n = 2 /\ l = 0 /\ d = 1)
  BY <1>5
<1>7. QED
  BY <1>2, <1>4, <1>6, Zenon DEF Idles, Asks, Told, q, l, d, n

TransferBack(f, a, o) ==
    /\ Spares(f, a.b) /\ Spares(f, context_attach_buffers(a.b, fs[f].ctx))
    /\ fs[f] \in FiberStates /\ fs[f].op = o
    /\ a.completed =>
        /\ Ready(a.b, f) /\ a.result \in Int
        /\ fs[f].moved = Positive(a.result) + TallyOf(fs[f])
        /\ o \in LoopOps => fs[f].total = 0

LEMMA TransferStep ==
  ASSUME UInv, TallyInv, NEW f \in Fibers, NEW o \in Transfers, Resumes(f, o), NEW a, a = After(f)
  PROVE  TransferBack(f, a, o)
<1> DEFINE c == fs[f].ctx
<1>1. o \in OneRequestOps /\ fs[f].pc = "await" /\ fs[f].op = o
  BY DEF Transfers, OneRequestOps, ReadWriteOps, PlainOps, Resumes
<1>2. Back(Unscheduled(f), f) /\ OneContext(f, c) /\ fs[f] \in FiberStates
  BY <1>1, ResumedOne
<1>3. AfterDone(f, a, c)
  BY <1>2, AfterStep
<1>4. OneTransfer(f, c) /\ Accounted(bk, fs[f]) /\ bk \in Backends
  BY <1>1, TransferContext, InvParts DEF TallyInv, TallyOK
<1>5. ASSUME a.completed
      PROVE  Shows(bk, c, a.result)
  <2>1. bk.ctx[c].ref = 1 /\ a.result = bk.ctx[c].result
    BY <1>3, <1>5 DEF AfterDone
  <2>2. Answers(bk, c) = {}
    BY <1>4, <2>1, TransferOut DEF Idles, Asks, Told
  <2>3. QED
    BY <2>1, <2>2 DEF Shows
<1>6. a.completed => fs[f].moved = Positive(a.result) + TallyOf(fs[f])
  BY <1>3, <1>4, <1>5 DEF Accounted, AfterDone
<1>7. a.result \in Int /\ (o \in LoopOps => fs[f].total = 0)
  BY <1>1, <1>3, <1>4, BackendAssumption DEF AfterDone, Outcomes, ECANCELED, Accounted
<1>8. QED
  BY <1>1, <1>2, <1>3, <1>6, <1>7, SparesAfter DEF TransferBack, AfterDone

LEMMA TransfersDiffer ==
  /\ Transfers = ReadOps \cup WriteOps \cup {"splice", "splice_to_eof"}
  /\ {"read", "read_to_eof", "read_expand", "splice", "splice_to_eof"} \subseteq Transfers
  /\ {"read", "read_to_eof", "read_expand", "splice", "splice_to_eof"} \cap (WriteOps \cup LoopOps) = {}
  /\ LoopOps \subseteq Transfers /\ LoopOps \cap WriteOps = {}
  /\ WriteOps \subseteq Transfers
  /\ \A o \in Transfers : o # "none"
  BY DEF Transfers, ReadOps, WriteOps, LoopOps

LEMMA KeptIsBack ==
  ASSUME NEW f, NEW a, NEW o, TransferBack(f, a, o), KeepBuffers(f, a)
  PROVE  \E b : Spares(f, b) /\ (Return(f, b) \/ Raise(f, b))
BY DEF TransferBack, KeepBuffers

\* A read or a splice goes on with what it got added to its total.
LEMMA TallyRead ==
  ASSUME UInv, TallyInv, NEW f \in Fibers, Backend_read(f) \/ io_uring_backend_splice(f)
  PROVE  TallyInv'
<1> DEFINE a == After(f)
           s == [fs[f] EXCEPT !.total = @ + a.result]
<1>1. PICK o \in {"read", "read_to_eof", "read_expand", "splice", "splice_to_eof"} :
        /\ Resumes(f, o)
        /\ \/ KeepBuffers(f, a) \/ Raise(f, a.b) \/ Return(f, a.b)
           \/ \E k \in Types : \E n :
                a.completed /\ a.result >= 0 /\ IssueAndAwait(f, a.b, s, k, n)
  <2>1. CASE Backend_read(f)
    <3>1. PICK o \in {"read", "read_to_eof", "read_expand"} :
            BufferOp(f, o, LAMBDA y :
                LET w == [fs[f] EXCEPT !.total = @ + y.result]
                IN  IF y.result = 0 \/ ReadDone(fs[f], y.result)
                    THEN Return(f, y.b)
                    ELSE IssueAndAwait(f, y.b, w, "READ", Room(w)))
      BY <2>1, Zenon DEF Backend_read
    <3>2. Resumes(f, o)
      BY <3>1 DEF BufferOp
    <3>3. \/ KeepBuffers(f, a) \/ Raise(f, a.b) \/ Return(f, a.b)
          \/ a.completed /\ a.result >= 0 /\ IssueAndAwait(f, a.b, s, "READ", Room(s))
      BY <3>1 DEF BufferOp
    <3>4. QED
      BY <3>2, <3>3 DEF Types, Kinds
  <2>2. CASE io_uring_backend_splice(f)
    <3>1. PICK o \in {"splice", "splice_to_eof"} :
            /\ Resumes(f, o)
            /\ \/ Raise(f, a.b) \/ Return(f, a.b)
               \/ a.completed /\ a.result >= 0 /\ IssueAndAwait(f, a.b, s, "SPLICE", BufLen)
      BY <2>2 DEF io_uring_backend_splice, RaiseFirstOp
    <3>2. QED
      BY <3>1 DEF Types, Kinds
  <2>3. QED
    BY <2>1, <2>2
<1>2. o \in Transfers /\ o \notin WriteOps \cup LoopOps
  BY TransfersDiffer
<1>3. TransferBack(f, a, o)
  BY <1>1, <1>2, TransferStep
<1> HIDE DEF a
<1>4. ASSUME NEW k \in Types, NEW n, a.completed, a.result >= 0, IssueAndAwait(f, a.b, s, k, n)
      PROVE  TallyInv'
  <2>1. /\ Spares(f, a.b) /\ Ready(a.b, f) /\ fs[f] \in FiberStates /\ fs[f].op = o
        /\ a.result \in Nat /\ fs[f].moved = Positive(a.result) + TallyOf(fs[f])
    BY <1>3, <1>4 DEF TransferBack
  <2>2. TallyOf(fs[f]) = fs[f].total /\ Positive(a.result) = a.result
    BY <1>2, <2>1 DEF TallyOf, Positive
  <2>3. fs[f].total \in Nat /\ fs[f].total + a.result \in Nat
    BY <2>1 DEF FiberStates
  <2>4. s \in FiberStates /\ s.op = o /\ s.moved = fs[f].moved /\ s.total = fs[f].total + a.result
    BY <2>1, <2>3 DEF FiberStates
  <2> HIDE DEF s
  <2>5. s.moved = TallyOf(s)
    BY <1>2, <2>1, <2>2, <2>3, <2>4 DEF TallyOf
  <2>6. QED
    BY <1>2, <1>4, <2>1, <2>4, <2>5, TallyIssue
<1>5. QED
  BY <1>1, <1>3, <1>4, KeptIsBack, TallyReturn DEF TransferBack

\* A loop gives what it got away, and starts to count again.
LEMMA TallyReadLoop ==
  ASSUME UInv, TallyInv, NEW f \in Fibers, NEW o \in LoopOps, NEW k \in Types, ReadLoop(f, o, k)
  PROVE  TallyInv'
<1> DEFINE a == After(f)
           s == [fs[f] EXCEPT !.moved = 0]
<1>1. o \in Transfers /\ o \notin WriteOps
  BY TransfersDiffer
<1>2. Resumes(f, o)
  BY DEF ReadLoop, BufferOp
<1>3. \/ KeepBuffers(f, a) \/ Raise(f, a.b) \/ Return(f, a.b)
      \/ a.completed /\ IssueAndAwait(f, a.b, s, k, BufLen)
  BY DEF ReadLoop, BufferOp
<1>4. TransferBack(f, a, o)
  BY <1>1, <1>2, TransferStep
<1> HIDE DEF a
<1>5. CASE a.completed /\ IssueAndAwait(f, a.b, s, k, BufLen)
  <2>1. /\ Spares(f, a.b) /\ Ready(a.b, f) /\ fs[f] \in FiberStates /\ fs[f].op = o
        /\ fs[f].total = 0
    BY <1>4, <1>5 DEF TransferBack
  <2>2. s \in FiberStates /\ s.op = o /\ s.moved = 0 /\ s.total = 0
    BY <2>1, OpsAssumption DEF FiberStates
  <2> HIDE DEF s
  <2>3. s.moved = TallyOf(s)
    BY <1>1, <2>2 DEF TallyOf
  <2>4. QED
    BY <1>5, <2>1, <2>2, <2>3, TallyIssue
<1>6. QED
  BY <1>3, <1>4, <1>5, KeptIsBack, TallyReturn DEF TransferBack

\* A write counts what is left.
LEMMA TallyWrite ==
  ASSUME UInv, TallyInv, NEW f \in Fibers, NEW o \in WriteOps, NEW k \in Types, WriteLoop(f, o, k)
  PROVE  TallyInv'
<1> DEFINE a == After(f)
           s == [fs[f] EXCEPT !.left = @ - a.result]
<1>1. o \in Transfers /\ o \notin LoopOps
  BY TransfersDiffer
<1>2. Resumes(f, o)
  BY DEF WriteLoop, BufferOp
<1>3. \/ KeepBuffers(f, a) \/ Raise(f, a.b) \/ Return(f, a.b)
      \/ a.completed /\ a.result >= 0 /\ IssueAndAwait(f, a.b, s, k, s.left)
  BY DEF WriteLoop, BufferOp
<1>4. TransferBack(f, a, o)
  BY <1>1, <1>2, TransferStep
<1> HIDE DEF a
<1>5. CASE a.completed /\ a.result >= 0 /\ IssueAndAwait(f, a.b, s, k, s.left)
  <2>1. /\ Spares(f, a.b) /\ Ready(a.b, f) /\ fs[f] \in FiberStates /\ fs[f].op = o
        /\ a.result \in Nat /\ fs[f].moved = Positive(a.result) + TallyOf(fs[f])
    BY <1>4, <1>5 DEF TransferBack
  <2>2. TallyOf(fs[f]) = BufLen - fs[f].left /\ Positive(a.result) = a.result
    BY <2>1 DEF TallyOf, Positive
  <2>3. fs[f].left \in Int /\ fs[f].left - a.result \in Int /\ BufLen \in Int
    BY <2>1, BackendAssumption DEF FiberStates
  <2>4. s \in FiberStates /\ s.op = o /\ s.moved = fs[f].moved /\ s.left = fs[f].left - a.result
    BY <2>1, <2>3 DEF FiberStates
  <2> HIDE DEF s
  <2>5. TallyOf(s) = BufLen - s.left
    BY <2>4 DEF TallyOf
  <2>6. s.moved = TallyOf(s)
    BY <2>1, <2>2, <2>3, <2>4, <2>5
  <2>7. QED
    BY <1>1, <1>5, <2>1, <2>4, <2>6, TallyIssue
<1>6. QED
  BY <1>3, <1>4, <1>5, KeptIsBack, TallyReturn DEF TransferBack

LEMMA TallyStart ==
  ASSUME UInv, TallyInv, NEW f \in Fibers, Start(f)
  PROVE  TallyInv'
<1>1. PICK o \in DOMAIN FirstRequest :
        Running(f, o) /\ \E n : IssueAndAwait(f, bk, Entered(f, o), FirstRequest[o], n)
  BY DEF Start
<1> DEFINE k == FirstRequest[o]
           s == Entered(f, o)
<1>2. FitsOp(o, k) /\ k \in Types
  BY FirstRequestsFit DEF FitsOp, OneKinds, Types
<1>3. cur = f /\ fs[f].pc = "app"
  BY <1>1 DEF Running
<1>4. Ready(bk, f) /\ fs[f] \in FiberStates /\ Spares(f, bk)
  BY <1>3, RunningReady, SparesAfter
<1>5. fs[f].moved = 0 /\ fs[f].total = 0
  BY <1>3 DEF TallyInv, TallyOK
<1>6. s \in FiberStates /\ s.op = o
  BY <1>2, <1>4, EnteredFields DEF FitsOp
<1>7. s.moved = 0 /\ s.total = 0 /\ (o \in WriteOps => s.left = BufLen)
  <2>1. fs[f].step \in Nat
    BY <1>4 DEF FiberStates
  <2> DEFINE l == IF o \in WriteOps THEN BufLen ELSE 0
  <2>2. s = [fs[f] EXCEPT !.op = o, !.step = fs[f].step + 1, !.left = l]
    BY DEF Entered
  <2>3. o \in WriteOps => l = BufLen
    OBVIOUS
  <2> HIDE DEF l, s
  <2>4. QED
    BY <1>4, <1>5, <2>1, <2>2, <2>3 DEF FiberStates
<1> HIDE DEF s, k
<1>8. s.moved = TallyOf(s)
  BY <1>6, <1>7, BackendAssumption DEF TallyOf
<1>9. QED
  BY <1>1, <1>2, <1>4, <1>6, <1>7, <1>8, TallyIssue DEF s, k

----------------------------------------------------------------------------
(* Bytes and the kernel. *)

Transferring(g) == fs[g].pc = "await" /\ fs[g].op \in Transfers

\* Steps of the thread and of others: every transfer has counted what it had.
LEMMA TallyStay ==
  ASSUME TallyInv, fs' = fs,
         \A g \in Fibers : Transferring(g) => Accounted(bk', fs[g])
  PROVE  TallyInv'
BY DEF TallyInv, TallyOK, Transferring

LEMMA TransferKnown ==
  ASSUME UInv, TallyInv, NEW g \in Fibers, Transferring(g), NEW c, c = fs[g].ctx
  PROVE  /\ OneTransfer(g, c) /\ c \in Contexts /\ Spared(bk, c, bk.cq, bk.ctx[c])
         /\ Accounted(bk, fs[g]) /\ bk \in Backends
<1>1. OneTransfer(g, c) /\ bk \in Backends
  BY TransferContext, InvParts DEF Transferring
<1>2. QED
  BY <1>1, BackendFielded DEF OneTransfer, Spared, TallyInv, TallyOK, Transferring

\* The completions are the same, but for those before.
LEMMA AccountedStays ==
  ASSUME NEW b \in Backends, NEW b2 \in Backends, NEW s, NEW k \in Nat, Moved(b, b2, s.ctx, k),
         Accounted(b, s), b2.ctx[s.ctx] = b.ctx[s.ctx]
  PROVE  Accounted(b2, s)
<1>1. Answers(b2, s.ctx) \subseteq Int
  BY AnswersFinite
<1>2. QED
  BY <1>1, AccountedMoved

LEMMA TallyThread ==
  ASSUME UInv, TallyInv,
         io_uring_backend_poll \/ Backend_poll \/ \E f \in Fibers : Schedule(f)
  PROVE  TallyInv'
<1>1. fs' = fs
  BY DEF io_uring_backend_poll, Backend_poll, Schedule
<1>2. ASSUME NEW g \in Fibers, Transferring(g)
      PROVE  Accounted(bk', fs[g])
  <2> DEFINE c == fs[g].ctx
  <2>1. /\ OneTransfer(g, c) /\ c \in Contexts /\ Spared(bk, c, bk.cq, bk.ctx[c])
        /\ Accounted(bk, fs[g]) /\ bk \in Backends
    BY <1>2, TransferKnown
  <2>2. Spared(bk', c, bk.cq, bk.ctx[c])
    <3>1. CASE io_uring_backend_poll
      BY <2>1, <3>1, SparedSubmit DEF io_uring_backend_poll
    <3>2. CASE Backend_poll
      BY <2>1, <3>2, SparedSubmit DEF Backend_poll
    <3>3. ASSUME NEW f \in Fibers, Schedule(f)
          PROVE  Spared(bk', c, bk.cq, bk.ctx[c])
      <4>1. bk' = Fiber_make_runnable(bk, f, "exception") \/ bk' = Fiber_make_runnable(bk, f, "value")
        BY <3>3, Zenon DEF Schedule
      <4>2. \A v : Spared(Fiber_make_runnable(bk, f, v), c, bk.cq, bk.ctx[c])
        BY <2>1, SparedSched
      <4>3. QED
        BY <4>1, <4>2
    <3>4. QED
      BY <3>1, <3>2, <3>3
  <2>3. bk'.cq = bk.cq /\ bk'.ctx[c] = bk.ctx[c] /\ bk.cq \in Seq(Completions)
    BY <2>1, <2>2, BackendFields DEF Spared
  <2>4. Moved(bk, bk', c, 0) /\ Answers(bk', c) \subseteq Int
    BY <2>3, MovedNone DEF Answers
  <2>5. QED
    BY <2>1, <2>3, <2>4, AccountedMoved
<1>3. QED
  BY <1>1, <1>2, TallyStay

\* A request ends: what it moved is added to what the kernel has moved.
MovedBy(c, v, g) ==
    IF v > 0 /\ g = bk.ctx[c].fiber /\ Holds(g, c) /\ fs[g].op \in Transfers
    THEN [fs[g] EXCEPT !.moved = @ + v] ELSE fs[g]

LEMMA TallyEnds ==
  ASSUME UInv, TallyInv, NEW r \in bk.kern, NEW v \in Outcomes, NEW c, c = r.ctx,
         bk' = Complete(bk, r, v), \A g \in Fibers : fs'[g] = MovedBy(c, v, g),
         fs' \in [Fibers -> FiberStates]
  PROVE  TallyInv'
<1>1. Wf(bk) /\ bk \in Backends /\ fs \in [Fibers -> FiberStates]
  BY InvParts
<1>2. /\ \E m : EndsAs(bk, bk', c, v, m)
      /\ c \in Contexts /\ ReqsOf(bk, c) = r.reqs /\ r.reqs # <<>>
  <2> DEFINE b2 == bk'
  <2>1. b2 = Complete(bk, r, v)
    OBVIOUS
  <2> HIDE DEF b2
  <2>2. /\ \E m : EndsAs(bk, b2, c, v, m)
        /\ c \in Contexts /\ ReqsOf(bk, c) = r.reqs /\ r.reqs # <<>>
    BY <1>1, <2>1, KernelEnds
  <2>3. QED
    BY <2>2 DEF b2
<1>3. PICK m : EndsAs(bk, bk', c, v, m)
  BY <1>2
<1>4. /\ bk' \in Backends /\ bk'.ctx = bk.ctx /\ AnswersGrow(bk, bk', c, m) /\ m[1].res = v
      /\ Len(ReqsOf(bk, c)) = 1 => Len(m) = 1
      /\ v \in Int
  BY <1>3, BackendAssumption DEF EndsAs, SameContexts, Wf, Outcomes, ECANCELED
<1>5. ASSUME NEW g \in Fibers
      PROVE  TallyOK(bk', fs'[g])
  <2> DEFINE s == fs[g]
             t == MovedBy(c, v, g)
             b2 == bk'
  <2>1. s \in FiberStates /\ fs'[g] = t /\ TallyOK(bk, s)
    BY <1>1, <1>5 DEF TallyInv
  <2>2. /\ t.pc = s.pc /\ t.op = s.op /\ t.ctx = s.ctx /\ t.total = s.total /\ t.left = s.left
    BY <2>1 DEF MovedBy, FiberStates
  <2>3. CASE ~Transferring(g)
    <3>1. t = s
      BY <2>3 DEF MovedBy, Transferring, Holds
    <3>2. QED
      BY <2>1, <2>3, <3>1 DEF TallyOK, Transferring
  <2>4. CASE Transferring(g)
    <3>1. /\ OneTransfer(g, s.ctx) /\ s.ctx \in Contexts /\ Accounted(bk, s)
      BY <1>5, <2>4, TransferKnown
    <3>2. CASE s.ctx # c
      <4>1. t = s
        <5>1. s.aux = NoCtx /\ c # NoCtx
          BY <1>2, <3>1, NoCtxContext DEF OneTransfer
        <5>2. ~Holds(g, c)
          BY <3>2, <5>1 DEF Holds
        <5>3. QED
          BY <5>2 DEF MovedBy
      <4>2. Moved(bk, bk', s.ctx, 0) /\ bk'.ctx[s.ctx] = bk.ctx[s.ctx]
        BY <1>4, <3>1, <3>2 DEF AnswersGrow
      <4>3. Accounted(bk', s)
        BY <1>1, <1>4, <3>1, <4>2, AccountedStays
      <4>4. QED
        BY <2>1, <2>4, <4>1, <4>3 DEF TallyOK, Transferring
    <3>3. CASE s.ctx = c
      <4>1. Asks(c)
        <5>1. Idles(c) \/ Asks(c) \/ Told(c)
          BY <3>1, <3>3, TransferOut
        <5>2. ReqsOf(bk, c) # <<>>
          BY <1>2
        <5>3. QED
          BY <5>1, <5>2 DEF Idles, Told
      <4>2. bk.ctx[c].ref = 2 /\ Answers(bk, c) = {} /\ Len(m) = 1 /\ bk.ctx[c].result = 0
        BY <1>4, <3>1, <3>3, <4>1 DEF Asks, Accounted
      <4>3. s.moved = Positive(0) + TallyOf(s)
        <5>1. Shows(bk, c, 0) /\ 0 \in Outcomes
          BY <4>2, BackendAssumption DEF Shows, Outcomes, ECANCELED
        <5>2. QED
          BY <3>1, <3>3, <5>1 DEF Accounted
      <4>4. t.moved = s.moved + Positive(v)
        <5>1. g = bk.ctx[c].fiber /\ Holds(g, c) /\ s.op \in Transfers
          BY <2>4, <3>1, <3>3 DEF OneTransfer, Holds, Transferring
        <5>2. s.moved \in Int
          BY <2>1 DEF FiberStates
        <5>3. CASE v > 0
          BY <2>1, <5>1, <5>2, <5>3 DEF MovedBy, Positive, FiberStates
        <5>4. CASE ~(v > 0)
          BY <5>2, <5>4 DEF MovedBy, Positive
        <5>5. QED
          BY <5>3, <5>4
      <4>5. \A q : Shows(bk', c, q) => q = v
        <5>1. \A i \in Answers(bk', c) : bk'.cq[i].res = v
          BY <1>4, <4>2 DEF AnswersGrow
        <5>2. Answers(bk', c) # {}
          BY <1>4, <4>2 DEF AnswersGrow
        <5>3. QED
          BY <5>1, <5>2 DEF Shows
      <4>6. TallyOf(t) = TallyOf(s)
        BY <2>2, Zenon DEF TallyOf
      <4>7. TallyOf(s) \in Int
        BY <2>1, BackendAssumption DEF TallyOf, FiberStates
      <4>8. t.moved = Positive(v) + TallyOf(t)
        <5>1. Positive(0) = 0 /\ Positive(v) \in Int
          BY <1>4 DEF Positive
        <5>2. QED
          BY <4>3, <4>4, <4>6, <4>7, <5>1
      <4> HIDE DEF t
      <4>9. Accounted(bk', t)
        BY <1>4, <2>2, <3>1, <3>3, <4>2, <4>5, <4>8 DEF Accounted
      <4>10. QED
        BY <2>1, <2>2, <2>4, <4>9 DEF TallyOK, Transferring
    <3>4. QED
      BY <3>2, <3>3
  <2>5. QED
    BY <2>3, <2>4
<1>6. QED
  BY <1>5 DEF TallyInv

LEMMA TallyKernel ==
  ASSUME UInv, TallyInv, UInv', KernelCompletes \/ KernelCancels
  PROVE  TallyInv'
<1>1. fs \in [Fibers -> FiberStates] /\ fs' \in [Fibers -> FiberStates] /\ bk \in Backends
  BY InvParts DEF UInv, BackendOK
<1>2. CASE KernelCompletes
  <2>1. PICK r \in bk.kern : \E v \in Results(Head(r.reqs)) :
          /\ bk' = Complete(bk, r, v)
          /\ fs' = (IF v > 0 /\ Holds(bk.ctx[r.ctx].fiber, r.ctx)
                          /\ fs[bk.ctx[r.ctx].fiber].op \in Transfers
                    THEN [fs EXCEPT ![bk.ctx[r.ctx].fiber].moved = @ + v] ELSE fs)
    BY <1>2, Zenon DEF KernelCompletes
  <2> DEFINE f == bk.ctx[r.ctx].fiber
  <2>2. PICK v \in Results(Head(r.reqs)) :
          /\ bk' = Complete(bk, r, v)
          /\ fs' = (IF v > 0 /\ Holds(f, r.ctx) /\ fs[f].op \in Transfers
                    THEN [fs EXCEPT ![f].moved = @ + v] ELSE fs)
    BY <2>1, Zenon
  <2>3. v \in Outcomes
    <3>1. r.reqs \in Seq(Requests) /\ r.reqs # <<>>
      BY <1>1, ChainFields
    <3>2. Head(r.reqs) \in Requests
      BY <3>1
    <3>3. QED
      BY <3>2, ResultTypes
  <2> DEFINE c == r.ctx
  <2>4. ASSUME NEW g \in Fibers PROVE fs'[g] = MovedBy(c, v, g)
    <3> HIDE DEF f
    <3>1. f = bk.ctx[c].fiber
      BY DEF f
    <3>2. CASE v > 0 /\ Holds(f, c) /\ fs[f].op \in Transfers
      <4>1. fs' = [fs EXCEPT ![f].moved = @ + v]
        BY <2>2, <3>2
      <4>2. CASE g = f
        BY <1>1, <3>1, <3>2, <4>1, <4>2 DEF MovedBy
      <4>3. CASE g # f
        BY <1>1, <3>1, <4>1, <4>3 DEF MovedBy
      <4>4. QED
        BY <4>2, <4>3
    <3>3. CASE ~(v > 0 /\ Holds(f, c) /\ fs[f].op \in Transfers)
      <4>1. fs' = fs
        BY <2>2, <3>3
      <4>2. ~(v > 0 /\ g = bk.ctx[c].fiber /\ Holds(g, c) /\ fs[g].op \in Transfers)
        BY <3>1, <3>3
      <4>3. QED
        BY <4>1, <4>2 DEF MovedBy
    <3>4. QED
      BY <3>2, <3>3
  <2> HIDE DEF f, c
  <2>5. QED
    BY <1>1, <2>2, <2>3, <2>4, TallyEnds DEF c
<1>3. CASE KernelCancels
  <2>1. PICK r \in bk.kern : bk' = Complete(bk, r, ECANCELED) /\ fs' = fs
    BY <1>3 DEF KernelCancels
  <2> DEFINE v == ECANCELED
             c == r.ctx
  <2>2. v \in Outcomes /\ ~(v > 0)
    BY BackendAssumption DEF Outcomes, ECANCELED
  <2>3. bk' = Complete(bk, r, v)
    BY <2>1
  <2> HIDE DEF v, c
  <2>4. \A g \in Fibers : fs'[g] = MovedBy(c, v, g)
    BY <2>1, <2>2 DEF MovedBy
  <2>5. QED
    BY <1>1, <2>2, <2>3, <2>4, TallyEnds DEF c
<1>4. QED
  BY <1>2, <1>3

\* A multishot accept is not a transfer.
LEMMA TallyAccepts ==
  ASSUME UInv, TallyInv, UInv', AcceptErrors = FALSE, KernelAccepts
  PROVE  TallyInv'
<1>1. PICK r \in bk.kern :
        /\ Head(r.reqs).kind = "MULTISHOT_ACCEPT"
        /\ bk' = [bk EXCEPT !.cq = Append(@, Completion(r.ctx, 1, TRUE))]
        /\ fs' = fs
  BY DEF KernelAccepts
<1> DEFINE d == r.ctx
           e == Completion(d, 1, TRUE)
           cq2 == Append(bk.cq, e)
           m == <<e>>
<1>2. Wf(bk) /\ OneChain(bk) /\ bk \in Backends /\ bk.cq \in Seq(Completions) /\ bk' \in Backends
  BY InvParts, BackendFields DEF Wf, UInv, BackendOK, Good
<1>3. r.reqs \in Seq(Requests) /\ r.reqs # <<>> /\ Head(r.reqs) = r.reqs[1] /\ d \in Contexts
  BY <1>2, ChainFields
<1>4. e \in Completions /\ e.ctx = d
  BY <1>3, BackendAssumption DEF Completion, Completions, Outcomes, ECANCELED
<1>5. bk'.cq = cq2 /\ bk'.ctx = bk.ctx
  <2>1. Shaped(bk) /\ bk' = [bk EXCEPT !.cq = cq2]
    BY <1>1, <1>2, ShapedBackend
  <2> HIDE DEF cq2
  <2>2. QED
    BY <2>1 DEF Shaped
<1> HIDE DEF e
<1>6. AllOf(m, d) /\ Len(m) = 1 /\ m[1] = e
  BY <1>4, SingleSeq, LoneRequest DEF AllOf
<1>7. Longer(bk.cq, cq2, m)
  <2>1. Len(cq2) = Len(bk.cq) + 1 /\ (\A i \in 1..Len(bk.cq) : cq2[i] = bk.cq[i])
        /\ cq2[Len(bk.cq) + 1] = e
    BY <1>2, <1>4
  <2> HIDE DEF cq2, m
  <2>2. \A j \in 1..1 : cq2[Len(bk.cq) + j] = m[j]
    BY <1>6, <2>1
  <2>3. QED
    BY <1>6, <2>1, <2>2, Zenon DEF Longer
<1> HIDE DEF cq2, m
<1>8. AnswersGrow(bk, bk', d, m)
  <2> DEFINE b2 == bk'
  <2>1. b2 \in Backends /\ Longer(bk.cq, b2.cq, m)
    BY <1>2, <1>5, <1>7
  <2> HIDE DEF b2
  <2>2. AnswersGrow(bk, b2, d, m)
    BY <1>2, <1>6, <2>1, Growing
  <2>3. QED
    BY <2>2 DEF b2
<1>9. ReqsOf(bk, d) = r.reqs
  <2>1. r \in Working(bk, d)
    BY DEF Working
  <2>2. IsReqs(bk, d, r.reqs)
    BY <2>1, Zenon DEF IsReqs
  <2>3. QED
    BY <1>2, <1>3, <2>2, ReqsDetermined
<1>10. ReqsOf(bk, d)[1].kind = "MULTISHOT_ACCEPT" /\ 1 \in DOMAIN ReqsOf(bk, d)
  BY <1>1, <1>3, <1>9
<1>11. ASSUME NEW g \in Fibers, Transferring(g)
       PROVE  Accounted(bk', fs[g])
  <2> DEFINE c == fs[g].ctx
  <2>1. OneTransfer(g, c) /\ c \in Contexts /\ Accounted(bk, fs[g])
    BY <1>11, TransferKnown
  <2>2. c # d
    <3>1. ContextOK(bk, c, HoldersOf(fs, bk.event, c))
      BY <2>1, OutstandingCounts
    <3>2. bk.ctx[c].ref \notin {0, MULTISHOT_REFCOUNT}
      BY <2>1 DEF OneTransfer, MULTISHOT_REFCOUNT
    <3>3. CountOK(bk, c, HoldersOf(fs, bk.event, c))
      BY <3>1, <3>2 DEF ContextOK
    <3>4. QED
      BY <1>10, <3>3 DEF CountOK
  <2>3. Moved(bk, bk', c, 0)
    BY <1>8, <2>1, <2>2 DEF AnswersGrow
  <2>4. QED
    BY <1>2, <1>5, <2>1, <2>3, AccountedStays
<1>12. QED
  BY <1>1, <1>11, TallyStay

\* A completion is handled: what it said is the result of its context.
LEMMA TallyHandle ==
  ASSUME UInv, TallyInv, UInv', io_uring_backend_handle_ready_cqes
  PROVE  TallyInv'
<1> DEFINE b == bk
           e == Head(b.cq)
           d == e.ctx
           b0 == [b EXCEPT !.cq = Tail(@)]
           b1 == [b0 EXCEPT !.ctx[d].result = e.res]
           y == b1.ctx[d]
           b3 == IF Wakes(y) THEN Fiber_make_runnable(b1, y.fiber, y.resume) ELSE b1
           b4 == handle_multishot_accept_completion(b1, e)
           b2 == bk'
<1>1. b.cq # <<>> /\ b2 = io_uring_backend_handle_completion(b0, e) /\ fs' = fs
  BY DEF io_uring_backend_handle_ready_cqes
<1>2. b2 = IF y.ref = MULTISHOT_REFCOUNT THEN b4 ELSE context_store_release(b3, d)
  BY <1>1 DEF io_uring_backend_handle_completion
<1>3. Wf(b) /\ b \in Backends /\ b2 \in Backends /\ BackendOK(b, fs) /\ b.cq \in Seq(Completions)
  BY InvParts, BackendFields DEF UInv, BackendOK, Good, Wf
<1>4. d \in Contexts /\ e \in Completions /\ b.cq[1] = e /\ ResultSet(b, b1, d, e)
  BY <1>1, <1>3, ResultStep
<1>5. 1 \in Answers(b, d)
  BY <1>1, <1>3, <1>4 DEF Answers
<1>6. ASSUME NEW c \in Contexts, c # d, Spared(b, c, b.cq, b.ctx[c])
      PROVE  Spared(b2, c, Tail(b.cq), b.ctx[c])
  <2> DEFINE q == Tail(b.cq)
             x == b.ctx[c]
  <2>1. Spared(b0, c, q, x)
    BY <1>6, SparedTail
  <2>2. Spared(b1, c, q, x)
    <3>1. \E z : b1 = [b0 EXCEPT !.ctx[d] = z]
      BY Zenon
    <3> HIDE DEF b0, b1, d, q, x
    <3>2. QED
      BY <1>6, <2>1, <3>1, SparedRecord
  <2> HIDE DEF b1
  <2>3. Spared(b3, c, q, x)
    BY <2>2, SparedSched
  <2>4. d \in Nat
    BY <1>4 DEF Contexts
  <2> HIDE DEF b3
  <2>5. Spared(context_store_release(b3, d), c, q, x)
    BY <1>6, <2>3, <2>4, SparedRelease
  <2>6. Spared(b4, c, q, x)
    BY <1>6, <2>2, <2>4, SparedAccept
  <2>7. QED
    BY <1>2, <2>5, <2>6
<1>7. ASSUME NEW g \in Fibers, Transferring(g)
      PROVE  Accounted(b2, fs[g])
  <2> DEFINE c == fs[g].ctx
  <2>1. /\ OneTransfer(g, c) /\ c \in Contexts /\ Spared(b, c, b.cq, b.ctx[c])
        /\ Accounted(b, fs[g])
    BY <1>7, TransferKnown
  <2>2. CASE c # d
    <3>1. b2.cq = Tail(b.cq) /\ b2.ctx[c] = b.ctx[c]
      BY <1>6, <2>1, <2>2 DEF Spared
    <3>2. TakenOff(b, b2)
      BY <1>1, <3>1 DEF TakenOff
    <3> HIDE DEF b2, b, e
    <3>3. AnswersShrink(b, b2, d)
      BY <1>3, <1>4, <3>2, Shrinking
    <3>4. Moved(b, b2, c, 1)
      BY <2>1, <2>2, <3>3 DEF AnswersShrink
    <3>5. QED
      BY <1>3, <2>1, <3>1, <3>4, AccountedStays
  <2>3. CASE c = d
    <3>1. Told(c)
      <4>1. Idles(c) \/ Asks(c) \/ Told(c)
        BY <2>1, TransferOut
      <4>2. QED
        BY <1>5, <2>3, <4>1 DEF Idles, Asks
    <3>2. b.ctx[c].ref = 2 /\ Done(b, c) = 1 /\ b.ctx[c].fiber = g
      BY <2>1, <3>1 DEF Told, OneTransfer
    <3>3. y.ref = b.ctx[d].ref /\ y.fiber = b.ctx[d].fiber
      BY <1>4 DEF ResultSet, SameButResult
    <3>4. y.ref # MULTISHOT_REFCOUNT /\ y.fiber = g
      BY <2>3, <3>2, <3>3 DEF MULTISHOT_REFCOUNT
    <3>5. b2 = context_store_release(b3, d)
      BY <1>2, <3>4, Zenon
    <3>6. b3 = IF Wakes(b1.ctx[d]) THEN Fiber_make_runnable(b1, g, b1.ctx[d].resume) ELSE b1
      <4> HIDE DEF b, b1, d, e
      <4>1. b3 = IF Wakes(y) THEN Fiber_make_runnable(b1, y.fiber, y.resume) ELSE b1
        OBVIOUS
      <4> HIDE DEF b3
      <4>2. QED
        BY <3>4, <4>1
    <3>7. Mine(b, g, d)
      BY <1>3, <1>4, <1>5, <2>3, <3>2, AnsweredContext
    <3>8. b.ctx[d].ref \notin {0, MULTISHOT_REFCOUNT}
      BY <2>3, <3>2 DEF MULTISHOT_REFCOUNT
    <3> HIDE DEF b, b1, b2, b3, e, d
    <3>9. Drops(b, b2, d, e.res)
      BY <1>3, <1>4, <1>7, <3>5, <3>6, <3>7, <3>8, HandleCounted
    <3>10. b2.ctx[c].ref = 1 /\ b2.ctx[c].result = e.res /\ TakenOff(b, b2)
      BY <2>3, <3>2, <3>9 DEF Drops
    <3>11. AnswersShrink(b, b2, d)
      BY <1>3, <1>4, <3>10, Shrinking DEF d
    <3>12. Answers(b2, c) = {}
      <4>1. Done(b2, c) = 0
        BY <1>3, <2>3, <3>2, <3>11, AnswersFinite DEF AnswersShrink
      <4>2. QED
        BY <1>3, <4>1, AnswersFinite
    <3>13. \A r : Shows(b2, c, r) => Shows(b, c, r)
      BY <1>4, <1>5, <2>3, <3>10, <3>12 DEF Shows
    <3>14. QED
      BY <2>1, <3>10, <3>13 DEF Accounted
  <2>4. QED
    BY <2>2, <2>3
<1>8. QED
  BY <1>1, <1>7, TallyStay

----------------------------------------------------------------------------
(* Every step counts. *)

LEMMA TallyLoops ==
  ASSUME UInv, TallyInv, NEW f \in Fibers,
         \/ Backend_read_loop(f) \/ Backend_feed_loop(f) \/ Backend_recv_loop(f)
         \/ Backend_recv_feed_loop(f) \/ Backend_write(f) \/ Backend_writev(f)
         \/ Backend_send(f) \/ Backend_sendmsg(f)
  PROVE  TallyInv'
<1>1. {"READ", "RECV", "WRITE", "WRITEV", "SEND", "SENDMSG"} \subseteq Types
  BY DEF Types, Kinds
<1>2. CASE \/ Backend_read_loop(f) \/ Backend_feed_loop(f) \/ Backend_recv_loop(f)
           \/ Backend_recv_feed_loop(f)
  <2>1. PICK o \in LoopOps, t \in {"READ", "RECV"} : ReadLoop(f, o, t)
    BY <1>2 DEF Backend_read_loop, Backend_feed_loop, Backend_recv_loop,
                Backend_recv_feed_loop, LoopOps
  <2>2. QED
    BY <1>1, <2>1, TallyReadLoop
<1>3. CASE Backend_write(f) \/ Backend_writev(f) \/ Backend_send(f) \/ Backend_sendmsg(f)
  <2>1. PICK o \in WriteOps, t \in {"WRITE", "WRITEV", "SEND", "SENDMSG"} : WriteLoop(f, o, t)
    BY <1>3 DEF Backend_write, Backend_writev, Backend_send, Backend_sendmsg, WriteOps
  <2>2. QED
    BY <1>1, <2>1, TallyWrite
<1>4. QED
  BY <1>2, <1>3

LEMMA TallyNext ==
  ASSUME AcceptErrors = FALSE, UInv, TallyInv, UInv', [Next]_vars
  PROVE  TallyInv'
<1>1. CASE UNCHANGED vars
  BY <1>1 DEF vars, TallyInv
<1>2. CASE io_uring_backend_poll \/ Backend_poll \/ io_uring_backend_handle_ready_cqes
  BY <1>2, TallyThread, TallyHandle, Zenon
<1>3. CASE KernelCompletes \/ KernelCancels \/ KernelAccepts
  BY <1>3, TallyKernel, TallyAccepts, Zenon
<1>4. ASSUME NEW f \in Fibers,
        \/ Run(f) \/ Backend_recv(f) \/ Backend_recvmsg(f) \/ Backend_connect(f)
        \/ Backend_close(f) \/ Backend_tee(f) \/ io_uring_backend_wait_fd(f) \/ Backend_sleep(f)
        \/ Backend_wait_event(f) \/ Backend_chain(f)
      PROVE  TallyInv'
  BY <1>4, TallyPlain
<1>5. ASSUME NEW f \in Fibers,
        \/ StartQueued(f) \/ StartEvent(f) \/ Backend_accept(f) \/ accept_loop_from_queue(f)
        \/ StartMultishot(f) \/ StartTimerLoop(f) \/ Backend_timer_loop(f) \/ Backend_snooze(f)
        \/ io_uring_backend_accept(f) \/ StartChain(f) \/ StartSpliceChunks(f)
        \/ Backend_splice_chunks(f) \/ StartDoubleSplice(f) \/ double_splice_safe(f)
      PROVE  TallyInv'
  BY <1>5, TallyShift, TallyMultishot, TallyTimer, TallyChain, TallyPipe, Zenon
<1>6. ASSUME NEW f \in Fibers,
        \/ Backend_timeout(f) \/ Backend_timeout_ensure(f) \/ Finish(f) \/ Backend_post_fork(f)
        \/ Schedule(f) \/ Start(f) \/ Backend_read(f) \/ io_uring_backend_splice(f)
      PROVE  TallyInv'
  BY <1>6, TallyRunning, TallyThread, TallyStart, TallyRead, Zenon
<1>7. ASSUME NEW f \in Fibers,
        \/ Backend_read_loop(f) \/ Backend_feed_loop(f) \/ Backend_recv_loop(f)
        \/ Backend_recv_feed_loop(f) \/ Backend_write(f) \/ Backend_writev(f)
        \/ Backend_send(f) \/ Backend_sendmsg(f)
      PROVE  TallyInv'
  BY <1>7, TallyLoops
<1>8. QED
  BY <1>1, <1>2, <1>3, <1>4, <1>5, <1>6, <1>7, Zenon DEF Next

LEMMA TallyAccounts ==
  ASSUME UInv, TallyInv
  PROVE  TransferAccounted
<1>1. SUFFICES ASSUME NEW f \in Fibers, fs[f].pc = "await", fs[f].op \in Transfers
               PROVE  fs[f].moved = Uncounted(f) + TallyOf(fs[f])
  BY DEF TransferAccounted, TallyOf
<1> DEFINE c == fs[f].ctx
           S == {e \in Range(bk.cq) : e.ctx = c}
           r == IF S # {} THEN (CHOOSE e \in S : TRUE).res ELSE bk.ctx[c].result
<1>2. OneTransfer(f, c) /\ Accounted(bk, fs[f]) /\ bk \in Backends /\ c \in Contexts
  BY <1>1, TransferKnown DEF Transferring
<1>3. bk.cq \in Seq(Completions) /\ bk.ctx[c] \in ContextRecords
  BY <1>2, BackendFields
<1>4. Range(bk.cq) = {bk.cq[i] : i \in DOMAIN bk.cq}
  BY DEF Range
<1>5. \A e \in S : \E i \in Answers(bk, c) : e = bk.cq[i]
  BY <1>4 DEF Answers
<1>6. \A i \in Answers(bk, c) : bk.cq[i] \in S
  BY <1>4 DEF Answers
<1>7. \A i \in Answers(bk, c) : bk.cq[i].res \in Outcomes
  <2>1. ASSUME NEW i \in Answers(bk, c) PROVE bk.cq[i].res \in Outcomes
    <3>1. i \in DOMAIN bk.cq
      BY <2>1 DEF Answers
    <3>2. bk.cq[i] \in Completions
      BY <1>3, <3>1
    <3>3. QED
      BY <3>2 DEF Completions
  <2>2. QED
    BY <2>1
<1>8. Shows(bk, c, r) /\ r \in Outcomes
  <2>1. CASE S # {}
    <3> DEFINE e == CHOOSE e \in S : TRUE
    <3>1. e \in S
      BY <2>1
    <3>2. r = e.res
      BY <2>1
    <3> HIDE DEF e, S, r
    <3>3. PICK i \in Answers(bk, c) : e = bk.cq[i]
      BY <1>5, <3>1
    <3>4. QED
      BY <1>7, <3>2, <3>3 DEF Shows
  <2>2. CASE S = {}
    <3>1. Answers(bk, c) = {} /\ r = bk.ctx[c].result
      BY <1>6, <2>2
    <3>2. QED
      BY <1>3, <3>1 DEF Shows, ContextRecords
  <2>3. QED
    BY <2>1, <2>2
<1>9. Uncounted(f) = Positive(r)
  BY Zenon DEF Uncounted, Positive
<1> HIDE DEF r
<1>10. QED
  BY <1>2, <1>8, <1>9 DEF Accounted

\* The loops of Backend_read, of the writes and of the splices count every byte once:
\* what they have counted, with what their last request moved, is what the kernel has
\* moved for them, whatever completes, is cancelled or is handled in between.
THEOREM TransferAccountedHolds ==
  ASSUME FewFibers, AcceptErrors = FALSE
  PROVE  Spec => []TransferAccounted
<1>1. Init => TallyInv
  <2>1. NoOp.pc = "app" /\ NoOp.moved = 0 /\ NoOp.total = 0
    BY DEF NoOp
  <2>2. QED
    BY <2>1 DEF Init, TallyInv, TallyOK
<1>2. UInv /\ UInv' /\ TallyInv /\ [Next]_vars => TallyInv'
  BY TallyNext, Zenon
<1>3. UInv /\ TallyInv => TransferAccounted
  BY TallyAccounts
<1>4. QED
  BY <1>1, <1>2, <1>3, UInvHolds, PTL DEF Spec
=============================================================================
