-------------------------- MODULE EventLoopProofs --------------------------
(***************************************************************************)
(* Proofs about EventLoop, for any watchers, descriptors, programs and     *)
(* bounds, and any branching of the timer heap.                            *)
(***************************************************************************)
EXTENDS EventLoop, DequeProofs, FiniteSetTheorems

----------------------------------------------------------------------------
(* Types *)

Flags == {"R", "W", "T", "A", "C", "S"}
PendingEvents == [w : All \cup {pending_w}, events : SUBSET Flags]

Anfds == [head : Seq(Ios \cup {pipe_w}), events : SUBSET {"R", "W"},
          reify : SUBSET {"set", "reify"}, emask : SUBSET {"R", "W", "P"}, egen : Nat]

Loops ==
    [active : SUBSET All, cnt : Int,
     pend : [0..1 -> Seq(PendingEvents)], idx : [All -> Nat],
     fd : [AllFds -> Anfds], changes : Seq(AllFds), eperms : SUBSET AllFds,
     heap : Seq(Timers), at : [Timers -> Nat], now : Nat,
     asyncs : Seq(Asyncs \cup {break_async}), postfork : BOOLEAN]

Regs == [fd : AllFds, file : Files \cup {PipeFile}, events : SUBSET {"R", "W"}, gen : Nat]

Kernels ==
    [file : [AllFds -> Nat], last : 0..MaxFile, regs : SUBSET Regs, held : SUBSET Files,
     ready : [Files -> SUBSET {"R", "W", "H"}], time : Nat, regular : SUBSET Files,
     inited : [Ios -> Nat], zombies : SUBSET Children, raised : BOOLEAN]

Shares == [sent : SUBSET {break_async}, sig : BOOLEAN, async_pending : BOOLEAN,
           sig_pending : BOOLEAN, skipped : BOOLEAN, wanted : BOOLEAN, pipe : BOOLEAN]

Phases == {"out", "decide", "poll", "polled", "timers", "invoke",
           "skipped", "sig", "signals", "async", "asyncs"}

Runs == [pc : Phases, nowait : BOOLEAN, blocks : BOOLEAN, until : Nat]

Senders == [{"thread", "handler"} -> {"idle", "flag", "skip", "wanted", "write"}]

----------------------------------------------------------------------------
(* The inductive invariant: what holds of a loop *)

\* A watcher with a pending event knows its place, and no other event is for it.
Exact(e) ==
    /\ \A p \in 0..1 : \A k \in DOMAIN e.pend[p] :
          e.pend[p][k].w # pending_w => e.idx[e.pend[p][k].w] = k /\ Pri(e.pend[p][k].w) = p
    /\ \A w \in All : e.idx[w] > 0 =>
          e.idx[w] \in DOMAIN e.pend[Pri(w)] /\ e.pend[Pri(w)][e.idx[w]].w = w

\* The active watchers are the ones on the lists of their kind, once each.
IoListed(e) ==
    /\ e.fd[PipeFd].head = <<pipe_w>>
    /\ \A d \in Fds : /\ IsInjective(e.fd[d].head)
                      /\ ToSet(e.fd[d].head) = {w \in e.active \cap Ios : WFd[w] = d}
TimersListed(e) == IsInjective(e.heap) /\ ToSet(e.heap) = e.active \cap Timers
AsyncsListed(e) ==
    IsInjective(e.asyncs) /\ ToSet(e.asyncs) = (e.active \cap Asyncs) \cup {break_async}

Counted(e) == Own \subseteq e.active /\ e.cnt = Cardinality(e.active \ Own)

\* The changed descriptors are the ones with something to tell.
Changed(e) ==
    IsInjective(e.changes) /\ ToSet(e.changes) = {d \in AllFds : e.fd[d].reify # {}}

WantedOf(e, d) == UNION {EventsOf(w) : w \in ToSet(e.fd[d].head)}

\* The others are told what their watchers want.
Reified(e) == \A d \in AllFds : e.fd[d].reify = {} => e.fd[d].events = WantedOf(e, d)

\* A descriptor that epoll refused is on the list of those.
EpermsListed(e) == \A d \in AllFds : "P" \in e.fd[d].emask => d \in e.eperms

\* No timer is later than its children.
Heaped(e) ==
    \A k \in DOMAIN e.heap : \A c \in Kids(Len(e.heap), k) : e.at[e.heap[k]] <= e.at[e.heap[c]]

----------------------------------------------------------------------------
(* ... of a loop and the kernel *)

\* A registration is of a file that was opened and that epoll takes; the one of
\* the file its descriptor refers to is the one the loop thinks it is, unless
\* the loop has dropped the descriptor from the list of those epoll refused.
RegsKnown(e, k) ==
    /\ IsFiniteSet(k.regs)
    /\ \A r \in k.regs :
          /\ r.file \notin k.regular
          /\ r.file <= k.last \/ r.file = PipeFile
          /\ r.file = k.file[r.fd] =>
                r.gen = e.fd[r.fd].egen /\ e.fd[r.fd].emask \in {{}, r.events}

FilesKnown(k) ==
    /\ k.file[PipeFd] = PipeFile
    /\ \A d \in Fds : k.file[d] <= k.last
    /\ \A i \in k.regular : i <= k.last

\* A watcher was initialized for the file its descriptor refers to, or must be
\* initialized again; an active one was.
WatchersInited(e, k) ==
    \A w \in Ios : /\ k.inited[w] # 0 => k.inited[w] = k.file[WFd[w]]
                   /\ w \in e.active => k.inited[w] # 0

\* The kernel watches descriptor d for what the loop has on record.
Known(e, k, d) ==
    IF k.file[d] \in k.regular THEN "P" \in e.fd[d].emask
    ELSE \E r \in Registered(k, d) : e.fd[d].events \subseteq r.events

InUse(k, d) == d = PipeFd \/ \E w \in Ios : WFd[w] = d /\ k.inited[w] # 0

Told(e, k) ==
    ~e.postfork =>
        \A d \in AllFds : "set" \notin e.fd[d].reify /\ e.fd[d].events # {} /\ InUse(k, d)
                             => Known(e, k, d)

----------------------------------------------------------------------------
(* ... of the phases of ev_run *)

PhaseInv ==
    /\ run.pc \in {"out", "decide", "poll"} => NoPending(ev)
    /\ run.pc \in {"decide", "poll"} => ~ev.postfork /\ ev.changes = <<>> /\ sh.wanted
    /\ run.pc = "poll" /\ run.blocks /\ ev.heap # <<>> => run.until = ev.at[ev.heap[1]]

StoppedInv == \A w \in stopped : w \notin ev.active /\ ev.idx[w] = 0

\* Something makes the loop look at the flags: it will not sleep, or it will be
\* woken, or it has been.
Awake ==
    sh.skipped \/ sh.pipe \/ ev.idx[pipe_w] > 0 \/ snd["thread"] = "write" \/ snd["handler"] = "write"

WakeupInv ==
    /\ break_async \in sh.sent => snd["thread"] = "flag" \/ sh.async_pending \/ run.pc = "asyncs"
    /\ sh.sig => snd["handler"] = "flag" \/ sh.sig_pending \/ run.pc = "signals"
    /\ kern.zombies # {} => kern.raised \/ sh.sig \/ ev.idx[childev] > 0
    /\ sh.async_pending =>
          snd["thread"] = "skip" \/ Awake \/ run.pc \in {"skipped", "sig", "signals", "async"}
    /\ sh.sig_pending => snd["handler"] = "skip" \/ Awake \/ run.pc \in {"skipped", "sig"}
    /\ run.pc = "poll" /\ run.blocks /\ sh.skipped =>
          snd["thread"] = "wanted" \/ snd["handler"] = "wanted"

LoopTypes ==
    /\ ev \in Loops /\ sh \in Shares /\ kern \in Kernels /\ run \in Runs /\ snd \in Senders
    /\ live \subseteq Watchers /\ stopped \subseteq Watchers

----------------------------------------------------------------------------
(* Induction: rounds of a loop *)

\* What the first round starts from, and every round keeps, holds at the end.
LEMMA RoundsKeep ==
  ASSUME NEW S, NEW N \in Nat, NEW f, f[0] \in S,
         \A i \in 1..N : f[i - 1] \in S => f[i] \in S
  PROVE  \A i \in 0..N : f[i] \in S
<1> DEFINE Bad == {i \in 0..N : f[i] \notin S}
<1>1. SUFFICES ASSUME Bad # {} PROVE FALSE
  OBVIOUS
<1>2. PICK m \in Bad : \A y \in Bad : m <= y
  <2>1. Bad \in SUBSET Nat
    OBVIOUS
  <2>2. QED
    BY <1>1, <2>1, MinOfNats
<1>3. m # 0 /\ m \in 1..N
  BY <1>2
<1>4. m - 1 \in 0..N /\ m - 1 \notin Bad
  BY <1>2, <1>3
<1>5. QED
  BY <1>2, <1>3, <1>4

Rounds(f, S, s, N, F) ==
    f \in [0..N -> S] /\ f[0] = s /\ \A i \in 1..N : f[i] = F[<<f[i - 1], i>>]

\* There are such rounds, as many as one wants.
LEMMA RoundsExist ==
  ASSUME NEW S, NEW s \in S, NEW N \in Nat, NEW F \in [S \X (1..N) -> S]
  PROVE  \E f : Rounds(f, S, s, N, F)
<1> DEFINE R(f, n) == f \in [0..n -> S] /\ f[0] = s /\ \A i \in 1..n : f[i] = F[<<f[i - 1], i>>]
           Bad == {n \in 0..N : ~\E f : R(f, n)}
<1>1. SUFFICES ASSUME Bad # {} PROVE FALSE
  <2>1. N \in 0..N
    OBVIOUS
  <2>2. (Bad = {}) => \E f : R(f, N)
    BY <2>1, Zenon
  <2>3. QED
    BY <2>2, Zenon DEF Rounds
<1>2. PICK m \in Bad : \A y \in Bad : m <= y
  <2>1. Bad \in SUBSET Nat
    OBVIOUS
  <2>2. QED
    BY <1>1, <2>1, MinOfNats
<1>3. R([i \in 0..0 |-> s], 0)
  <2>1. \A i \in 1..0 : FALSE
    OBVIOUS
  <2>2. [i \in 0..0 |-> s] \in [0..0 -> S] /\ [i \in 0..0 |-> s][0] = s
    OBVIOUS
  <2>3. QED
    BY <2>1, <2>2, Zenon
<1>12. 0 \notin Bad
  BY <1>3, Zenon
<1>13. m # 0
  BY <1>2, <1>12, Zenon
<1>4. m # 0 /\ m \in 1..N
  BY <1>2, <1>13
<1>5. m - 1 \in 0..N /\ m - 1 \notin Bad
  BY <1>2, <1>4
<1>6. PICK f : R(f, m - 1)
  BY <1>5
<1> DEFINE g == [i \in 0..m |-> IF i = m THEN F[<<f[m - 1], m>>] ELSE f[i]]
<1>7. f[m - 1] \in S /\ F[<<f[m - 1], m>>] \in S
  BY <1>4, <1>6
<1>8. g \in [0..m -> S] /\ g[0] = s
  BY <1>4, <1>6, <1>7
<1>9. \A i \in 1..m : g[i] = F[<<g[i - 1], i>>]
  <2> TAKE i \in 1..m
  <2>1. CASE i = m
    BY <2>1, <1>4
  <2>2. CASE i # m
    <3>1. i \in 1..(m - 1) /\ i - 1 \in 0..m /\ i - 1 # m /\ i \in 0..m
      BY <2>2, <1>4
    <3>2. QED
      BY <3>1, <2>2, <1>6
  <2>3. QED
    BY <2>1, <2>2
<1>10. R(g, m)
  BY <1>8, <1>9
<1>11. QED
  BY <1>2, <1>10


----------------------------------------------------------------------------
(* Pending events *)

LEMMA Names ==
  /\ pending_w \notin All /\ Own \cap Watchers = {} /\ Own \subseteq All /\ Watchers \subseteq All
  /\ pipe_w \in All /\ childev \in All /\ break_async \in All
  /\ \A w : Pri(w) \in 0..1
  /\ Pri(pipe_w) = 1 /\ Pri(childev) = 1
<1>1. \A w \in Watchers : w \notin Own /\ w # pending_w
  BY LoopAssumption
<1>2. pending_w \notin Own
  BY DEF pending_w, Own, pipe_w, childev, break_async
<1>3. QED
  BY <1>1, <1>2 DEF All, Own, Pri

LEMMA LoopFields ==
  ASSUME NEW e \in Loops
  PROVE  /\ e.active \in SUBSET All /\ e.cnt \in Int
         /\ e.pend \in [0..1 -> Seq(PendingEvents)] /\ e.idx \in [All -> Nat]
         /\ e.fd \in [AllFds -> Anfds] /\ e.changes \in Seq(AllFds)
         /\ e.eperms \in SUBSET AllFds /\ e.heap \in Seq(Timers)
         /\ e.at \in [Timers -> Nat] /\ e.now \in Nat
         /\ e.asyncs \in Seq(Asyncs \cup {break_async}) /\ e.postfork \in BOOLEAN
BY DEF Loops

\* What feeding an event leaves alone.
SameLists(x, e) ==
    /\ x.active = e.active /\ x.cnt = e.cnt /\ x.fd = e.fd /\ x.changes = e.changes
    /\ x.eperms = e.eperms /\ x.heap = e.heap /\ x.at = e.at /\ x.now = e.now
    /\ x.asyncs = e.asyncs /\ x.postfork = e.postfork

WithPend(e, pend, idx) == [e EXCEPT !.pend = pend, !.idx = idx]

LEMMA WithPendIs ==
  ASSUME NEW e \in Loops, NEW pend \in [0..1 -> Seq(PendingEvents)], NEW idx \in [All -> Nat]
  PROVE  /\ WithPend(e, pend, idx) \in Loops /\ SameLists(WithPend(e, pend, idx), e)
         /\ WithPend(e, pend, idx).pend = pend /\ WithPend(e, pend, idx).idx = idx
BY DEF WithPend, Loops, SameLists

LEMMA PendingFields ==
  ASSUME NEW p \in PendingEvents
  PROVE  p.w \in All \cup {pending_w} /\ p.events \in SUBSET Flags
BY DEF PendingEvents

LEMMA AppendIs ==
  ASSUME NEW S, NEW s \in Seq(S), NEW v \in S
  PROVE  /\ Append(s, v) \in Seq(S) /\ Len(s) \in Nat /\ Len(Append(s, v)) = Len(s) + 1
         /\ DOMAIN Append(s, v) = DOMAIN s \cup {Len(s) + 1} /\ Len(s) + 1 \notin DOMAIN s
         /\ Append(s, v)[Len(s) + 1] = v /\ \A j \in DOMAIN s : Append(s, v)[j] = s[j]
OBVIOUS

\* x is e with more events pending, none of them for a watcher that is not in W.
Fed(x, e, W) ==
    /\ x \in Loops /\ Exact(x) /\ SameLists(x, e)
    /\ \A w \in All : e.idx[w] > 0 => x.idx[w] > 0
    /\ \A w \in All \ W : x.idx[w] = e.idx[w]

\* ev_feed_event gives a watcher a pending event, or adds to the one it has.
LEMMA FeedEvent ==
  ASSUME NEW e \in Loops, Exact(e), NEW w \in All, NEW revents \in SUBSET Flags
  PROVE  Fed(ev_feed_event(e, w, revents), e, {w}) /\ ev_feed_event(e, w, revents).idx[w] > 0
<1> DEFINE p == Pri(w)
           k == e.idx[w]
           s == e.pend[p]
           x == ev_feed_event(e, w, revents)
<1>1. p \in 0..1 /\ k \in Nat /\ s \in Seq(PendingEvents) /\ w # pending_w
  BY LoopFields, Names
<1>0. \A q \in 0..1 : e.pend[q] \in Seq(PendingEvents)
  BY LoopFields
<1>2. CASE k > 0
  <2> DEFINE t == [s EXCEPT ![k].events = @ \cup revents]
             pend == [e.pend EXCEPT ![p] = t]
  <2>1. x = WithPend(e, pend, e.idx)
    <3>1. x = [e EXCEPT !.pend[p][k].events = @ \cup revents]
      BY <1>2 DEF ev_feed_event
    <3>2. QED
      BY <3>1, LoopFields DEF WithPend, Loops
  <2>2. k \in DOMAIN s /\ s[k].w = w
    BY <1>2 DEF Exact
  <2>3. s[k] \in PendingEvents
    BY <1>1, <2>2
  <2>4. t = [s EXCEPT ![k] = [w |-> w, events |-> s[k].events \cup revents]]
    BY <2>2, <2>3 DEF PendingEvents
  <2>5. s[k].events \cup revents \in SUBSET Flags
    BY <2>3, PendingFields
  <2> DEFINE u == [w |-> w, events |-> s[k].events \cup revents]
  <2>12. u \in PendingEvents /\ u.w = w
    BY <2>5 DEF PendingEvents
  <2>13. t = [s EXCEPT ![k] = u]
    BY <2>4
  <2>6. t \in Seq(PendingEvents) /\ DOMAIN t = DOMAIN s /\ \A j \in DOMAIN s : t[j].w = s[j].w
    <3> HIDE DEF u, s, t, k
    <3>1. k \in 1..Len(s) /\ DOMAIN s = 1..Len(s) /\ Len(s) \in Nat
      BY <1>1, <2>2
    <3>2. t \in Seq(PendingEvents) /\ Len(t) = Len(s)
          /\ \A j \in 1..Len(s) : t[j] = IF j = k THEN u ELSE s[j]
      BY <1>1, <2>12, <2>13, <3>1, ExceptSeq
    <3>3. QED
      BY <2>2, <2>12, <3>1, <3>2
  <2> HIDE DEF t
  <2>7. pend \in [0..1 -> Seq(PendingEvents)]
    BY <1>1, <2>6, LoopFields
  <2>8. \A q \in 0..1 : DOMAIN pend[q] = DOMAIN e.pend[q]
                        /\ \A j \in DOMAIN pend[q] : pend[q][j].w = e.pend[q][j].w
    BY <1>1, <2>6, LoopFields
  <2> HIDE DEF pend
  <2>9. x \in Loops /\ SameLists(x, e) /\ x.pend = pend /\ x.idx = e.idx
    BY <2>1, <2>7, WithPendIs, LoopFields
  <2> HIDE DEF x
  <2>10. Exact(x)
    BY <2>8, <2>9, Names DEF Exact
  <2>11. QED
    BY <1>2, <2>9, <2>10 DEF Fed, x
<1>3. CASE k = 0
  <2> DEFINE r == [w |-> w, events |-> revents]
             t == Append(s, r)
             pend == [e.pend EXCEPT ![p] = t]
             n == Len(s) + 1
             idx == [e.idx EXCEPT ![w] = n]
  <2>1. x = WithPend(e, pend, idx)
    <3>1. x = [e EXCEPT !.pend[p] = Append(@, r), !.idx[w] = n]
      BY <1>3 DEF ev_feed_event
    <3>2. QED
      BY <3>1, LoopFields DEF WithPend, Loops
  <2>2. r \in PendingEvents /\ r.w = w
    BY DEF PendingEvents
  <2> HIDE DEF r
  <2>3. /\ t \in Seq(PendingEvents) /\ n \in Nat /\ n > 0 /\ DOMAIN t = DOMAIN s \cup {n}
        /\ n \notin DOMAIN s /\ t[n] = r /\ \A j \in DOMAIN s : t[j] = s[j]
    <3> HIDE DEF s
    <3>1. Len(s) \in Nat
      BY <1>1
    <3>2. QED
      BY <1>1, <2>2, <3>1, AppendIs
  <2> HIDE DEF t, n
  <2>4. pend \in [0..1 -> Seq(PendingEvents)] /\ idx \in [All -> Nat]
    BY <1>1, <2>3, LoopFields
  <2>5. /\ pend[p] = t /\ \A q \in 0..1 : q # p => pend[q] = e.pend[q]
        /\ idx[w] = n /\ \A v \in All : v # w => idx[v] = e.idx[v]
    BY <1>1, LoopFields
  <2> HIDE DEF pend, idx
  <2>6. x \in Loops /\ SameLists(x, e) /\ x.pend = pend /\ x.idx = idx
    BY <2>1, <2>4, WithPendIs
  <2> HIDE DEF x
  <2>7. \A q \in 0..1 : \A j \in DOMAIN e.pend[q] : e.pend[q][j].w # w
    BY <1>1, <1>3, <1>0 DEF Exact
  <2>8. Exact(x)
    <3>1. ASSUME NEW q \in 0..1, NEW j \in DOMAIN pend[q], pend[q][j].w # pending_w
          PROVE  idx[pend[q][j].w] = j /\ Pri(pend[q][j].w) = q
      <4>1. CASE q = p /\ j = n
        BY <4>1, <2>3, <2>5, <2>2
      <4>2. CASE ~(q = p /\ j = n)
        <5>1. j \in DOMAIN e.pend[q] /\ pend[q][j] = e.pend[q][j]
          BY <4>2, <2>3, <2>5
        <5>2. e.pend[q][j] \in PendingEvents
          BY <5>1, <1>0
        <5>3. e.pend[q][j].w \in All /\ e.pend[q][j].w # w
          BY <5>1, <5>2, <2>7, <3>1, PendingFields
        <5>4. QED
          BY <3>1, <5>1, <5>3, <2>5 DEF Exact
      <4>3. QED
        BY <4>1, <4>2
    <3>2. ASSUME NEW v \in All, idx[v] > 0
          PROVE  idx[v] \in DOMAIN pend[Pri(v)] /\ pend[Pri(v)][idx[v]].w = v
      <4>1. CASE v = w
        BY <4>1, <2>2, <2>3, <2>5
      <4>2. CASE v # w
        <5>1. idx[v] = e.idx[v] /\ Pri(v) \in 0..1
          BY <4>2, <2>5, Names
        <5>2. e.idx[v] \in DOMAIN e.pend[Pri(v)] /\ e.pend[Pri(v)][e.idx[v]].w = v
          BY <5>1, <3>2 DEF Exact
        <5>3. QED
          BY <5>1, <5>2, <2>3, <2>5
      <4>3. QED
        BY <4>1, <4>2
    <3>3. QED
      BY <3>1, <3>2, <2>6 DEF Exact
  <2>9. QED
    BY <1>3, <2>3, <2>5, <2>6, <2>8 DEF Fed, x
<1>4. QED
  BY <1>1, <1>2, <1>3

LEMMA FedTwice ==
  ASSUME NEW e, NEW x, NEW y, NEW V, NEW W, Fed(x, e, W), Fed(y, x, V), V \subseteq W
  PROVE  Fed(y, e, W)
BY DEF Fed, SameLists

LEMMA FedNone ==
  ASSUME NEW e \in Loops, Exact(e), NEW W
  PROVE  Fed(e, e, W)
BY DEF Fed, SameLists

IsFeed(f, e, ws, revents) ==
    f = [n \in 0..Len(ws) |->
            IF n = 0 THEN e
            ELSE IF revents[ws[n]] = {} THEN f[n - 1]
            ELSE ev_feed_event(f[n - 1], ws[n], revents[ws[n]])]

\* Feeding the watchers of a list.
LEMMA FedAll ==
  ASSUME NEW e \in Loops, Exact(e), NEW W, NEW ws \in Seq(All), NEW revents,
         \A i \in 1..Len(ws) : ws[i] \in W /\ revents[ws[i]] \in SUBSET Flags
  PROVE  Fed(FeedAll(e, ws, revents), e, W)
<1> DEFINE S == {x \in Loops : Fed(x, e, W)}
           N == Len(ws)
           Step(x, i) == IF revents[ws[i]] = {} THEN x ELSE ev_feed_event(x, ws[i], revents[ws[i]])
           F == [q \in S \X (1..N) |-> Step(q[1], q[2])]
<1>1. N \in Nat /\ \A i \in 1..N : ws[i] \in All
  OBVIOUS
<1>2. e \in S
  BY FedNone
<1>3. ASSUME NEW x \in S, NEW i \in 1..N PROVE Step(x, i) \in S
  <2>1. x \in Loops /\ Exact(x) /\ Fed(x, e, W)
    BY DEF Fed
  <2>2. CASE revents[ws[i]] = {}
    BY <2>2
  <2>3. CASE revents[ws[i]] # {}
    <3>1. Fed(ev_feed_event(x, ws[i], revents[ws[i]]), x, {ws[i]})
      BY <1>1, <2>1, FeedEvent
    <3>2. Fed(Step(x, i), e, W)
      BY <2>1, <2>3, <3>1, FedTwice
    <3>3. QED
      BY <3>2 DEF Fed
  <2>4. QED
    BY <2>2, <2>3
<1> HIDE DEF S
<1>4. F \in [S \X (1..N) -> S]
  BY <1>3, Zenon
<1>5. \A x \in S, i \in 1..N : F[<<x, i>>] = Step(x, i)
  OBVIOUS
<1> HIDE DEF F, Step
<1>6. PICK h : Rounds(h, S, e, N, F)
  BY <1>1, <1>2, <1>4, RoundsExist, Zenon
<1>7. \A i \in 0..N : i = 0 \/ (i \in 1..N /\ i - 1 \in 0..N)
  BY <1>1
<1>8. \A i \in 0..N : h[i] = IF i = 0 THEN e ELSE Step(h[i - 1], i)
  BY <1>5, <1>6, <1>7 DEF Rounds
<1>9. IsFeed(h, e, ws, revents)
  BY <1>6, <1>8 DEF Rounds, IsFeed, Step
<1>10. FeedAll(e, ws, revents) = (CHOOSE f : IsFeed(f, e, ws, revents))[N]
  BY Zenon DEF FeedAll, IsFeed
<1>11. PICK f : IsFeed(f, e, ws, revents) /\ FeedAll(e, ws, revents) = f[N]
  BY <1>9, <1>10, Zenon
<1>12. \A i \in 0..N : f[i] = IF i = 0 THEN e ELSE Step(f[i - 1], i)
  BY <1>11 DEF IsFeed, Step
<1>13. f[0] \in S /\ \A i \in 1..N : f[i - 1] \in S => f[i] \in S
  <2>1. f[0] = e
    BY <1>1, <1>12
  <2>2. \A i \in 1..N : f[i] = Step(f[i - 1], i)
    BY <1>1, <1>12
  <2>3. QED
    BY <1>2, <1>3, <2>1, <2>2
<1>14. f[N] \in S
  <2> HIDE DEF N
  <2>1. \A i \in 0..N : f[i] \in S
    BY <1>1, <1>13, RoundsKeep, Zenon
  <2>2. QED
    BY <1>1, <2>1
<1>15. QED
  BY <1>11, <1>14 DEF S

\* clear_pending leaves a blank in the place of the event.
LEMMA ClearPending ==
  ASSUME NEW e \in Loops, Exact(e), NEW w \in All
  PROVE  LET x == clear_pending(e, w)
         IN  /\ x \in Loops /\ Exact(x) /\ SameLists(x, e)
             /\ x.idx[w] = 0 /\ \A v \in All \ {w} : x.idx[v] = e.idx[v]
             /\ NoPending(e) => NoPending(x)
<1> DEFINE x == clear_pending(e, w)
           p == Pri(w)
           k == e.idx[w]
           s == e.pend[p]
<1>1. p \in 0..1 /\ k \in Nat /\ s \in Seq(PendingEvents) /\ w # pending_w
  BY LoopFields, Names
<1>2. CASE k = 0
  <2>1. x = e
    BY <1>2 DEF clear_pending
  <2> HIDE DEF x
  <2>2. QED
    BY <1>2, <2>1, FedNone DEF Fed, x
<1>3. CASE k # 0
  <2> DEFINE t == [s EXCEPT ![k].w = pending_w]
             u == [w |-> pending_w, events |-> s[k].events]
             pend == [e.pend EXCEPT ![p] = t]
             idx == [e.idx EXCEPT ![w] = 0]
  <2>1. x = WithPend(e, pend, idx)
    <3>1. x = [e EXCEPT !.pend[p][k].w = pending_w, !.idx[w] = 0]
      BY <1>3 DEF clear_pending
    <3>2. QED
      BY <3>1, LoopFields DEF WithPend, Loops
  <2>2. k \in DOMAIN s /\ s[k].w = w
    BY <1>1, <1>3 DEF Exact
  <2>3. s[k] \in PendingEvents
    BY <1>1, <2>2
  <2>4. t = [s EXCEPT ![k] = u]
    BY <2>2, <2>3 DEF PendingEvents
  <2>5. u \in PendingEvents /\ u.w = pending_w
    BY <2>3 DEF PendingEvents
  <2>6. /\ t \in Seq(PendingEvents) /\ DOMAIN t = DOMAIN s /\ t[k].w = pending_w
        /\ \A j \in DOMAIN s \ {k} : t[j] = s[j]
    <3> HIDE DEF u, s, t, k
    <3>1. k \in 1..Len(s) /\ DOMAIN s = 1..Len(s) /\ Len(s) \in Nat
      BY <1>1, <2>2
    <3>2. t \in Seq(PendingEvents) /\ Len(t) = Len(s)
          /\ \A j \in 1..Len(s) : t[j] = IF j = k THEN u ELSE s[j]
      BY <1>1, <2>5, <2>4, <3>1, ExceptSeq
    <3>3. QED
      BY <2>2, <2>5, <3>1, <3>2
  <2>16. s # <<>>
    BY <2>2
  <2> HIDE DEF t, u
  <2>7. pend \in [0..1 -> Seq(PendingEvents)] /\ idx \in [All -> Nat]
    BY <1>1, <2>6, LoopFields
  <2>8. /\ pend[p] = t /\ \A q \in 0..1 : q # p => pend[q] = e.pend[q]
        /\ idx[w] = 0 /\ \A v \in All : v # w => idx[v] = e.idx[v]
    BY <1>1, LoopFields
  <2> HIDE DEF pend, idx
  <2>9. x \in Loops /\ SameLists(x, e) /\ x.pend = pend /\ x.idx = idx
    BY <2>1, <2>7, WithPendIs
  <2> HIDE DEF x
  <2>10. Exact(x)
    <3>1. ASSUME NEW q \in 0..1, NEW j \in DOMAIN pend[q], pend[q][j].w # pending_w
          PROVE  idx[pend[q][j].w] = j /\ Pri(pend[q][j].w) = q
      <4>1. j \in DOMAIN e.pend[q] /\ pend[q][j] = e.pend[q][j] /\ ~(q = p /\ j = k)
        BY <2>6, <2>8, <3>1
      <4>2. e.pend[q][j] \in PendingEvents
        BY <4>1, LoopFields
      <4>3. e.idx[e.pend[q][j].w] = j /\ Pri(e.pend[q][j].w) = q /\ e.pend[q][j].w \in All
        BY <3>1, <4>1, <4>2, PendingFields DEF Exact
      <4>4. e.pend[q][j].w # w
        BY <4>1, <4>3
      <4>5. QED
        BY <4>1, <4>3, <4>4, <2>8
    <3>2. ASSUME NEW v \in All, idx[v] > 0
          PROVE  idx[v] \in DOMAIN pend[Pri(v)] /\ pend[Pri(v)][idx[v]].w = v
      <4>1. v # w /\ idx[v] = e.idx[v] /\ Pri(v) \in 0..1
        BY <3>2, <2>8, Names
      <4>2. e.idx[v] \in DOMAIN e.pend[Pri(v)] /\ e.pend[Pri(v)][e.idx[v]].w = v
        BY <3>2, <4>1 DEF Exact
      <4>3. ~(Pri(v) = p /\ e.idx[v] = k)
        BY <2>2, <4>1, <4>2
      <4>4. QED
        BY <4>1, <4>2, <4>3, <2>6, <2>8
    <3>3. QED
      BY <3>1, <3>2, <2>9 DEF Exact
  <2>11. ~NoPending(e)
    BY <1>1, <2>16 DEF NoPending
  <2>12. QED
    BY <2>8, <2>9, <2>10, <2>11 DEF x
<1>4. QED
  BY <1>2, <1>3

\* One round of ev_invoke_pending takes an event; its watcher may get another.
LEMMA PopIs ==
  ASSUME NEW e \in Loops, Exact(e), ~NoPending(e)
  PROVE  LET x == PopEvent(e)
             w == NextEvent(e).w
         IN  /\ x \in Loops /\ Exact(x) /\ SameLists(x, e)
             /\ w \in All \cup {pending_w} /\ (w \in All => x.idx[w] = 0)
             /\ \A v \in All \ {w} : x.idx[v] = e.idx[v]
<1> DEFINE p == NextPri(e)
           s == e.pend[p]
           n == Len(s)
           ne == NextEvent(e)
           w == ne.w
           t == Front(s)
           pend == [e.pend EXCEPT ![p] = t]
           idx == IF w = pending_w THEN e.idx ELSE [e.idx EXCEPT ![w] = 0]
           x == PopEvent(e)
<1>1. p \in 0..1 /\ s # <<>> /\ s \in Seq(PendingEvents)
  BY LoopFields DEF NextPri, NoPending
<1>2. n \in Nat /\ n # 0 /\ n \in DOMAIN s
  <2> HIDE DEF s
  <2>1. QED
    BY <1>1
<1>3. ne = s[n] /\ ne \in PendingEvents
  BY <1>1, <1>2 DEF NextEvent, Last
<1>4. w \in All \cup {pending_w}
  BY <1>3, PendingFields
<1>5. t \in Seq(PendingEvents) /\ DOMAIN t = DOMAIN s \ {n} /\ \A j \in DOMAIN t : t[j] = s[j]
  <2> HIDE DEF s
  <2>1. QED
    BY <1>1, <1>2 DEF Front
<1>6. x = WithPend(e, pend, idx)
  <2>1. x = IF w = pending_w THEN [e EXCEPT !.pend[p] = t]
            ELSE [[e EXCEPT !.pend[p] = t] EXCEPT !.idx[w] = 0]
    BY DEF PopEvent
  <2>2. QED
    BY <2>1, LoopFields DEF WithPend, Loops
<1> HIDE DEF t
<1>7. pend \in [0..1 -> Seq(PendingEvents)] /\ idx \in [All -> Nat]
  BY <1>1, <1>5, LoopFields
<1>8. /\ pend[p] = t /\ \A q \in 0..1 : q # p => pend[q] = e.pend[q]
      /\ (w \in All => idx[w] = 0) /\ \A v \in All : v # w => idx[v] = e.idx[v]
  BY <1>1, LoopFields, Names
<1> HIDE DEF pend, idx
<1>9. x \in Loops /\ SameLists(x, e) /\ x.pend = pend /\ x.idx = idx
  BY <1>6, <1>7, WithPendIs
<1> HIDE DEF x
<1>10. Exact(x)
  <2>1. ASSUME NEW q \in 0..1, NEW j \in DOMAIN pend[q], pend[q][j].w # pending_w
        PROVE  idx[pend[q][j].w] = j /\ Pri(pend[q][j].w) = q
    <3>1. j \in DOMAIN e.pend[q] /\ pend[q][j] = e.pend[q][j] /\ ~(q = p /\ j = n)
      BY <1>5, <1>8, <2>1
    <3>2. e.pend[q][j] \in PendingEvents
      BY <3>1, LoopFields
    <3>3. e.idx[e.pend[q][j].w] = j /\ Pri(e.pend[q][j].w) = q /\ e.pend[q][j].w \in All
      BY <2>1, <3>1, <3>2, PendingFields DEF Exact
    <3>4. w # pending_w => e.idx[w] = n /\ Pri(w) = p
      BY <1>1, <1>2, <1>3 DEF Exact
    <3>5. e.pend[q][j].w # w
      BY <2>1, <3>1, <3>3, <3>4
    <3>6. QED
      BY <3>1, <3>3, <3>5, <1>8
  <2>2. ASSUME NEW v \in All, idx[v] > 0
        PROVE  idx[v] \in DOMAIN pend[Pri(v)] /\ pend[Pri(v)][idx[v]].w = v
    <3>1. v # w /\ idx[v] = e.idx[v] /\ Pri(v) \in 0..1
      BY <2>2, <1>8, Names
    <3>2. e.idx[v] \in DOMAIN e.pend[Pri(v)] /\ e.pend[Pri(v)][e.idx[v]].w = v
      BY <2>2, <3>1 DEF Exact
    <3>3. ~(Pri(v) = p /\ e.idx[v] = n)
      BY <1>3, <3>1, <3>2
    <3>4. QED
      BY <3>1, <3>2, <3>3, <1>5, <1>8
  <2>3. QED
    BY <2>1, <2>2, <1>9 DEF Exact
<1>11. QED
  BY <1>4, <1>8, <1>9, <1>10 DEF x

----------------------------------------------------------------------------
(* Starting and stopping watchers *)

\* x is e but for the active watchers.
SameBut(x, e) ==
    /\ x.pend = e.pend /\ x.idx = e.idx /\ x.fd = e.fd /\ x.changes = e.changes
    /\ x.eperms = e.eperms /\ x.heap = e.heap /\ x.at = e.at /\ x.now = e.now
    /\ x.asyncs = e.asyncs /\ x.postfork = e.postfork

WithActive(e, active, cnt) == [e EXCEPT !.active = active, !.cnt = cnt]

LEMMA WithActiveIs ==
  ASSUME NEW e \in Loops, NEW active \in SUBSET All, NEW cnt \in Int
  PROVE  /\ WithActive(e, active, cnt) \in Loops /\ SameBut(WithActive(e, active, cnt), e)
         /\ WithActive(e, active, cnt).active = active /\ WithActive(e, active, cnt).cnt = cnt
BY DEF WithActive, Loops, SameBut

LEMMA ActiveFinite ==
  ASSUME NEW e \in Loops
  PROVE  IsFiniteSet(e.active \ Own)
<1>1. e.active \ Own \subseteq Watchers
  BY LoopFields DEF All
<1>2. QED
  BY <1>1, LoopAssumption, FS_Subset

LEMMA StartIs ==
  ASSUME NEW e \in Loops, Counted(e), NEW w \in Watchers, w \notin e.active
  PROVE  /\ ev_start(e, w) \in Loops /\ Counted(ev_start(e, w)) /\ SameBut(ev_start(e, w), e)
         /\ ev_start(e, w).active = e.active \cup {w}
<1> DEFINE x == ev_start(e, w)
<1>1. w \in All /\ w \notin Own
  BY Names
<1>2. x \in Loops /\ SameBut(x, e) /\ x.active = e.active \cup {w} /\ x.cnt = e.cnt + 1
  <2>1. x = WithActive(e, e.active \cup {w}, e.cnt + 1)
    BY DEF ev_start, WithActive
  <2>2. e.active \cup {w} \in SUBSET All /\ e.cnt + 1 \in Int
    BY <1>1, LoopFields
  <2>3. QED
    BY <2>1, <2>2, WithActiveIs
<1> HIDE DEF x
<1>3. x.active \ Own = (e.active \ Own) \cup {w} /\ w \notin e.active \ Own
  BY <1>1, <1>2
<1>4. Cardinality(x.active \ Own) = Cardinality(e.active \ Own) + 1
  <2> DEFINE S == e.active \ Own
  <2>1. IsFiniteSet(S)
    BY ActiveFinite
  <2> HIDE DEF S
  <2>2. Cardinality(S \cup {w}) = Cardinality(S) + 1
    BY <1>3, <2>1, FS_AddElement DEF S
  <2>3. QED
    BY <1>3, <2>2 DEF S
<1>5. Counted(x)
  BY <1>2, <1>4 DEF Counted
<1>6. QED
  BY <1>2, <1>5 DEF x

LEMMA StopIs ==
  ASSUME NEW e \in Loops, Counted(e), NEW w \in Watchers, w \in e.active
  PROVE  /\ ev_stop(e, w) \in Loops /\ Counted(ev_stop(e, w)) /\ SameBut(ev_stop(e, w), e)
         /\ ev_stop(e, w).active = e.active \ {w}
<1> DEFINE x == ev_stop(e, w)
<1>1. w \in All /\ w \notin Own
  BY Names
<1>2. x \in Loops /\ SameBut(x, e) /\ x.active = e.active \ {w} /\ x.cnt = e.cnt - 1
  <2>1. x = WithActive(e, e.active \ {w}, e.cnt - 1)
    BY DEF ev_stop, WithActive
  <2>2. e.active \ {w} \in SUBSET All /\ e.cnt - 1 \in Int
    BY <1>1, LoopFields
  <2>3. QED
    BY <2>1, <2>2, WithActiveIs
<1> HIDE DEF x
<1>3. x.active \ Own = (e.active \ Own) \ {w} /\ w \in e.active \ Own
  BY <1>1, <1>2
<1>4. Cardinality(x.active \ Own) = Cardinality(e.active \ Own) - 1
  <2> DEFINE S == e.active \ Own
  <2>1. IsFiniteSet(S) /\ w \in S
    BY <1>3, ActiveFinite
  <2> HIDE DEF S
  <2>2. Cardinality(S \ {w}) = Cardinality(S) - 1
    BY <2>1, FS_RemoveElement
  <2>3. QED
    BY <1>3, <2>2 DEF S
<1>5. Counted(x)
  BY <1>1, <1>2, <1>4 DEF Counted
<1>6. QED
  BY <1>2, <1>5 DEF x

\* What is said of a loop alone.
LoopInv(e) ==
    /\ Exact(e) /\ IoListed(e) /\ TimersListed(e) /\ AsyncsListed(e)
    /\ Counted(e) /\ Changed(e) /\ Reified(e) /\ EpermsListed(e) /\ Heaped(e)

\* It does not depend on the events that are pending.
LEMMA FedInv ==
  ASSUME NEW e \in Loops, LoopInv(e), NEW x \in Loops, Exact(x), SameLists(x, e)
  PROVE  LoopInv(x)
<1> USE DEF SameLists
<1>1. IoListed(x) /\ TimersListed(x) /\ AsyncsListed(x) /\ Counted(x)
  BY Zenon DEF LoopInv, IoListed, TimersListed, AsyncsListed, Counted
<1>2. Changed(x) /\ Reified(x) /\ EpermsListed(x)
  BY Zenon DEF LoopInv, Changed, Reified, EpermsListed, WantedOf
<1>3. Heaped(x)
  BY Zenon DEF LoopInv, Heaped
<1>4. QED
  BY <1>1, <1>2, <1>3 DEF LoopInv

LEMMA KeepExact ==
  ASSUME NEW e, NEW x, x.pend = e.pend, x.idx = e.idx, Exact(e)
  PROVE  Exact(x)
BY DEF Exact

LEMMA KeepIos ==
  ASSUME NEW e, NEW x, x.fd = e.fd, x.active \cap Ios = e.active \cap Ios, IoListed(e)
  PROVE  IoListed(x)
<1>1. \A d : {w \in x.active \cap Ios : WFd[w] = d} = {w \in e.active \cap Ios : WFd[w] = d}
  OBVIOUS
<1>2. QED
  BY <1>1, Zenon DEF IoListed

LEMMA KeepTimers ==
  ASSUME NEW e, NEW x, x.heap = e.heap, x.at = e.at, x.active \cap Timers = e.active \cap Timers
  PROVE  (TimersListed(e) => TimersListed(x)) /\ (Heaped(e) => Heaped(x))
BY Zenon DEF TimersListed, Heaped

LEMMA KeepAsyncs ==
  ASSUME NEW e, NEW x, x.asyncs = e.asyncs, x.active \cap Asyncs = e.active \cap Asyncs,
         AsyncsListed(e)
  PROVE  AsyncsListed(x)
BY Zenon DEF AsyncsListed

LEMMA KeepFds ==
  ASSUME NEW e, NEW x, x.fd = e.fd, x.changes = e.changes, x.eperms = e.eperms
  PROVE  /\ Changed(e) => Changed(x)
         /\ Reified(e) => Reified(x)
         /\ EpermsListed(e) => EpermsListed(x)
BY Zenon DEF Changed, Reified, EpermsListed, WantedOf

\* A watcher of one kind is of no other.
LEMMA Kinds ==
  /\ \A w \in Ios : w \notin Timers /\ w \notin Asyncs /\ w \notin Children
  /\ \A w \in Timers : w \notin Ios /\ w \notin Asyncs /\ w \notin Children
  /\ \A w \in Asyncs : w \notin Ios /\ w \notin Timers /\ w \notin Children
  /\ \A w \in Children : w \notin Ios /\ w \notin Timers /\ w \notin Asyncs
  /\ Ios \subseteq Watchers /\ Timers \subseteq Watchers
  /\ Asyncs \subseteq Watchers /\ Children \subseteq Watchers
BY LoopAssumption DEF Watchers

WithAsyncs(e, asyncs) == [e EXCEPT !.asyncs = asyncs]

LEMMA WithAsyncsIs ==
  ASSUME NEW e \in Loops, NEW s \in Seq(Asyncs \cup {break_async})
  PROVE  LET x == WithAsyncs(e, s)
         IN  /\ x \in Loops /\ x.asyncs = s /\ x.active = e.active /\ x.cnt = e.cnt
             /\ x.pend = e.pend /\ x.idx = e.idx /\ x.fd = e.fd /\ x.changes = e.changes
             /\ x.eperms = e.eperms /\ x.heap = e.heap /\ x.at = e.at /\ x.now = e.now
             /\ x.postfork = e.postfork
BY DEF WithAsyncs, Loops

\* What a start or a stop of a watcher leaves alone but for the kind's own list.
SameKernelSide(x, e) ==
    /\ x.fd = e.fd /\ x.changes = e.changes /\ x.eperms = e.eperms
    /\ x.now = e.now /\ x.postfork = e.postfork

LEMMA ChildStartIs ==
  ASSUME NEW e \in Loops, LoopInv(e), NEW w \in Children, w \notin e.active
  PROVE  LET x == ev_child_start(e, w)
         IN  /\ x \in Loops /\ LoopInv(x) /\ SameKernelSide(x, e) /\ x.pend = e.pend
             /\ x.idx = e.idx /\ x.active = e.active \cup {w} /\ x.heap = e.heap /\ x.at = e.at
<1> DEFINE x == ev_child_start(e, w)
<1>1. x = ev_start(e, w)
  BY DEF ev_child_start
<1>2. x \in Loops /\ Counted(x) /\ SameBut(x, e) /\ x.active = e.active \cup {w}
  BY <1>1, StartIs, Kinds DEF LoopInv
<1> HIDE DEF x
<1>3. /\ x.active \cap Ios = e.active \cap Ios /\ x.active \cap Timers = e.active \cap Timers
      /\ x.active \cap Asyncs = e.active \cap Asyncs
  BY <1>2, Kinds
<1>4. LoopInv(x)
  BY <1>2, <1>3, KeepExact, KeepIos, KeepTimers, KeepAsyncs, KeepFds, Zenon DEF LoopInv, SameBut
<1>5. QED
  BY <1>2, <1>4 DEF SameBut, SameKernelSide, x

\* A stop clears the pending event whether or not the watcher is active.
Stopped(x, e, w) ==
    /\ x \in Loops /\ LoopInv(x) /\ w \notin x.active /\ x.active = e.active \ {w}
    /\ x.idx[w] = 0 /\ \A v \in All \ {w} : x.idx[v] = e.idx[v]
    /\ NoPending(e) => NoPending(x)

LEMMA ClearedIs ==
  ASSUME NEW e \in Loops, LoopInv(e), NEW w \in All
  PROVE  LET x == clear_pending(e, w)
         IN  /\ x \in Loops /\ LoopInv(x) /\ SameLists(x, e)
             /\ x.idx[w] = 0 /\ \A v \in All \ {w} : x.idx[v] = e.idx[v]
             /\ NoPending(e) => NoPending(x)
<1>1. Exact(e)
  BY DEF LoopInv
<1>2. QED
  BY <1>1, ClearPending, FedInv

LEMMA ChildStopIs ==
  ASSUME NEW e \in Loops, LoopInv(e), NEW w \in Children
  PROVE  /\ Stopped(ev_child_stop(e, w), e, w) /\ SameKernelSide(ev_child_stop(e, w), e)
         /\ ev_child_stop(e, w).heap = e.heap /\ ev_child_stop(e, w).at = e.at
<1> DEFINE c == clear_pending(e, w)
           x == ev_child_stop(e, w)
<1>1. w \in Watchers /\ w \in All
  BY Kinds, Names
<1>2. /\ c \in Loops /\ LoopInv(c) /\ SameLists(c, e)
      /\ c.idx[w] = 0 /\ \A v \in All \ {w} : c.idx[v] = e.idx[v]
      /\ NoPending(e) => NoPending(c)
  BY <1>1, ClearedIs
<1>3. x = IF w \notin e.active THEN c ELSE ev_stop(c, w)
  BY DEF ev_child_stop
<1> HIDE DEF c, x
<1>4. CASE w \notin e.active
  <2>1. x = c
    BY <1>3, <1>4
  <2>2. e.active = e.active \ {w}
    BY <1>4
  <2>3. QED
    BY <1>2, <1>4, <2>1, <2>2 DEF Stopped, SameKernelSide, SameLists, x
<1>5. CASE w \in e.active
  <2>1. x = ev_stop(c, w) /\ w \in c.active
    BY <1>2, <1>3, <1>5 DEF SameLists
  <2>2. x \in Loops /\ Counted(x) /\ SameBut(x, c) /\ x.active = c.active \ {w}
    BY <1>1, <1>2, <2>1, StopIs DEF LoopInv
  <2>3. /\ x.active \cap Ios = c.active \cap Ios /\ x.active \cap Timers = c.active \cap Timers
        /\ x.active \cap Asyncs = c.active \cap Asyncs
    BY <2>2, Kinds
  <2>4. LoopInv(x)
    BY <1>2, <2>2, <2>3, KeepExact, KeepIos, KeepTimers, KeepAsyncs, KeepFds, Zenon
    DEF LoopInv, SameBut
  <2>5. NoPending(e) => NoPending(x)
    BY <1>2, <2>2 DEF NoPending, SameBut
  <2>6. QED
    BY <1>2, <2>2, <2>4, <2>5 DEF Stopped, SameKernelSide, SameLists, SameBut, x
<1>6. QED
  BY <1>4, <1>5

----------------------------------------------------------------------------
(* Lists without duplicates *)

LEMMA AppendNew ==
  ASSUME NEW S, NEW s \in Seq(S), NEW v \in S, IsInjective(s), v \notin ToSet(s)
  PROVE  /\ Append(s, v) \in Seq(S) /\ IsInjective(Append(s, v))
         /\ ToSet(Append(s, v)) = ToSet(s) \cup {v}
<1> DEFINE t == Append(s, v)
           n == Len(s) + 1
<1>1. /\ t \in Seq(S) /\ n \in Nat /\ DOMAIN t = DOMAIN s \cup {n} /\ n \notin DOMAIN s
      /\ t[n] = v /\ \A j \in DOMAIN s : t[j] = s[j]
  BY AppendIs
<1> HIDE DEF t, n
<1>2. \A j \in DOMAIN s : s[j] # v
  BY DEF ToSet
<1>3. IsInjective(t)
  BY <1>1, <1>2 DEF IsInjective
<1>4. ToSet(t) = ToSet(s) \cup {v}
  BY <1>1 DEF ToSet
<1>5. QED
  BY <1>1, <1>3, <1>4 DEF t

LEMMA PrependNew ==
  ASSUME NEW S, NEW s \in Seq(S), NEW v \in S, IsInjective(s), v \notin ToSet(s)
  PROVE  /\ <<v>> \o s \in Seq(S) /\ IsInjective(<<v>> \o s)
         /\ ToSet(<<v>> \o s) = ToSet(s) \cup {v}
<1> DEFINE t == <<v>> \o s
<1>1. t \in Seq(S) /\ Len(t) = Len(s) + 1 /\ Len(s) \in Nat /\ t[1] = v
      /\ DOMAIN t = 1..(Len(s) + 1) /\ DOMAIN s = 1..Len(s)
  OBVIOUS
<1>2. \A j \in DOMAIN s : t[j + 1] = s[j]
  OBVIOUS
<1>3. \A j \in DOMAIN t : j = 1 \/ (j - 1 \in DOMAIN s /\ t[j] = s[j - 1])
  <2> TAKE j \in DOMAIN t
  <2>1. CASE j # 1
    <3>1. j - 1 \in DOMAIN s /\ (j - 1) + 1 = j
      BY <1>1, <2>1
    <3>2. QED
      BY <1>2, <3>1
  <2>2. QED
    BY <2>1
<1> HIDE DEF t
<1>4. \A j \in DOMAIN s : s[j] # v
  BY DEF ToSet
<1>5. IsInjective(t)
  <2> SUFFICES ASSUME NEW a \in DOMAIN t, NEW b \in DOMAIN t, t[a] = t[b] PROVE a = b
    BY DEF IsInjective
  <2>1. CASE a # 1 /\ b # 1
    <3>1. a - 1 \in DOMAIN s /\ b - 1 \in DOMAIN s /\ s[a - 1] = s[b - 1]
      BY <1>3, <2>1
    <3>2. a - 1 = b - 1
      BY <3>1 DEF IsInjective
    <3>3. QED
      BY <1>1, <3>2
  <2>2. QED
    BY <1>1, <1>3, <1>4, <2>1
<1>6. ToSet(t) = ToSet(s) \cup {v}
  <2>1. \A x \in ToSet(t) : x \in ToSet(s) \cup {v}
    BY <1>1, <1>3 DEF ToSet
  <2>2. 1 \in DOMAIN t /\ \A j \in DOMAIN s : j + 1 \in DOMAIN t
    BY <1>1
  <2>3. \A x \in ToSet(s) \cup {v} : x \in ToSet(t)
    BY <1>1, <1>2, <2>2 DEF ToSet
  <2>4. QED
    BY <2>1, <2>3
<1>7. QED
  BY <1>1, <1>5, <1>6 DEF t

\* The last takes the place of the one that is removed.
Swapped(t, s, k) ==
    /\ Len(t) = Len(s) - 1
    /\ \A j \in 1..(Len(s) - 1) : t[j] = IF j = k THEN s[Len(s)] ELSE s[j]

LEMMA SwapOut ==
  ASSUME NEW S, NEW s \in Seq(S), IsInjective(s), NEW k \in DOMAIN s,
         NEW t \in Seq(S), Swapped(t, s, k)
  PROVE  IsInjective(t) /\ ToSet(t) = ToSet(s) \ {s[k]}
<1> USE DEF Swapped
<1> DEFINE n == Len(s)
<1>1. DOMAIN s = 1..n /\ DOMAIN t = 1..(n - 1) /\ n \in 1..n /\ k \in 1..n
  OBVIOUS
<1>2. \A j \in 1..(n - 1) : j \in 1..n /\ j # n
  OBVIOUS
<1>3. \A a, b \in 1..n : s[a] = s[b] => a = b
  BY <1>1 DEF IsInjective
<1>4. IsInjective(t)
  BY <1>1, <1>2, <1>3 DEF IsInjective
<1>5. \A x \in ToSet(t) : x \in ToSet(s) /\ x # s[k]
  <2>1. \A j \in 1..(n - 1) : \E i \in 1..n : t[j] = s[i] /\ i # k
    BY <1>1, <1>2
  <2>2. \A j \in 1..(n - 1) : t[j] \in ToSet(s) /\ t[j] # s[k]
    BY <1>1, <1>3, <2>1 DEF ToSet
  <2>3. QED
    BY <1>1, <2>2 DEF ToSet
<1>6. ASSUME NEW j \in 1..n, s[j] # s[k] PROVE s[j] \in ToSet(t)
  <2>1. CASE j = n
    <3>1. k \in 1..(n - 1)
      BY <1>1, <1>6, <2>1
    <3>2. t[k] = s[j]
      BY <2>1, <3>1
    <3>3. QED
      BY <1>1, <3>1, <3>2 DEF ToSet
  <2>2. CASE j # n
    <3>1. j \in 1..(n - 1) /\ j # k
      BY <1>1, <1>6, <2>2
    <3>2. t[j] = s[j]
      BY <3>1
    <3>3. QED
      BY <1>1, <3>1, <3>2 DEF ToSet
  <2>3. QED
    BY <2>1, <2>2
<1>7. \A x \in ToSet(s) \ {s[k]} : x \in ToSet(t)
  BY <1>1, <1>6 DEF ToSet
<1>8. QED
  BY <1>4, <1>5, <1>7

LEMMA RemoveAtIs ==
  ASSUME NEW S, NEW s \in Seq(S), IsInjective(s), NEW k \in DOMAIN s
  PROVE  /\ RemoveAt(s, k) \in Seq(S) /\ IsInjective(RemoveAt(s, k))
         /\ ToSet(RemoveAt(s, k)) = ToSet(s) \ {s[k]}
<1> DEFINE n == Len(s)
           t == RemoveAt(s, k)
<1>1. n \in Nat /\ DOMAIN s = 1..n /\ k \in 1..n /\ n >= 1
  OBVIOUS
<1>3. /\ t \in Seq(S) /\ Len(t) = n - 1 /\ DOMAIN t = 1..(n - 1)
      /\ \A j \in 1..(n - 1) : t[j] = IF j < k THEN s[j] ELSE s[j + 1]
  <2>1. /\ t \in Seq(S) /\ Len(t) = n - 1
        /\ \A j \in 1..(n - 1) : t[j] = IF k <= j THEN s[j + 1] ELSE s[j]
    <3>1. k \in 1..Len(s)
      BY <1>1
    <3>2. QED
      BY <3>1, RemovedAt, Zenon
  <2> HIDE DEF t
  <2>2. QED
    BY <1>1, <2>1
<1> HIDE DEF t, n
<1>4. \A a, b \in 1..n : s[a] = s[b] => a = b
  BY <1>1 DEF IsInjective
<1>5. \A j \in 1..(n - 1) : j \in 1..n /\ j + 1 \in 1..n
  BY <1>1
<1>6. IsInjective(t)
  <2> SUFFICES ASSUME NEW a \in 1..(n - 1), NEW b \in 1..(n - 1), t[a] = t[b] PROVE a = b
    BY <1>3 DEF IsInjective
  <2>1. CASE a < k /\ b < k
    BY <1>3, <1>4, <1>5, <2>1
  <2>2. CASE ~(a < k) /\ b < k
    <3>1. a + 1 = b
      BY <1>3, <1>4, <1>5, <2>2
    <3>2. QED
      BY <1>1, <2>2, <3>1
  <2>3. CASE a < k /\ ~(b < k)
    <3>1. a = b + 1
      BY <1>3, <1>4, <1>5, <2>3
    <3>2. QED
      BY <1>1, <2>3, <3>1
  <2>4. CASE ~(a < k) /\ ~(b < k)
    <3>1. a + 1 = b + 1
      BY <1>3, <1>4, <1>5, <2>4
    <3>2. QED
      BY <3>1
  <2>5. QED
    BY <2>1, <2>2, <2>3, <2>4
<1>7. \A j \in 1..(n - 1) : t[j] \in ToSet(s) /\ t[j] # s[k]
  <2> TAKE j \in 1..(n - 1)
  <2>1. CASE j < k
    <3>1. t[j] = s[j] /\ j \in 1..n /\ j # k
      BY <1>1, <1>3, <1>5, <2>1
    <3>2. QED
      BY <1>1, <1>4, <3>1 DEF ToSet
  <2>2. CASE ~(j < k)
    <3>1. t[j] = s[j + 1] /\ j + 1 \in 1..n /\ j + 1 # k
      BY <1>1, <1>3, <1>5, <2>2
    <3>2. QED
      BY <1>1, <1>4, <3>1 DEF ToSet
  <2>3. QED
    BY <2>1, <2>2
<1>8. ASSUME NEW j \in 1..n, s[j] # s[k] PROVE s[j] \in ToSet(t)
  <2>1. CASE j < k
    <3>1. j \in 1..(n - 1) /\ t[j] = s[j]
      BY <1>1, <1>3, <2>1
    <3>2. QED
      BY <1>3, <3>1 DEF ToSet
  <2>2. CASE ~(j < k)
    <3>1. j - 1 \in 1..(n - 1) /\ ~(j - 1 < k) /\ (j - 1) + 1 = j
      BY <1>1, <1>8, <2>2
    <3>2. t[j - 1] = s[j]
      BY <1>3, <3>1
    <3>3. QED
      BY <1>3, <3>1, <3>2 DEF ToSet
  <2>3. QED
    BY <2>1, <2>2
<1>9. \A x \in ToSet(t) : x \in ToSet(s) \ {s[k]}
  BY <1>3, <1>7 DEF ToSet
<1>10. \A x \in ToSet(s) \ {s[k]} : x \in ToSet(t)
  BY <1>1, <1>8 DEF ToSet
<1>11. QED
  BY <1>3, <1>6, <1>9, <1>10 DEF t

----------------------------------------------------------------------------
(* Asyncs *)

LEMMA AsyncStartIs ==
  ASSUME NEW e \in Loops, LoopInv(e), NEW w \in Asyncs, w \notin e.active
  PROVE  LET x == ev_async_start(e, w)
         IN  /\ x \in Loops /\ LoopInv(x) /\ SameKernelSide(x, e) /\ x.pend = e.pend
             /\ x.idx = e.idx /\ x.active = e.active \cup {w} /\ x.heap = e.heap /\ x.at = e.at
<1> DEFINE y == ev_start(e, w)
           x == ev_async_start(e, w)
           s == Append(y.asyncs, w)
<1>1. y \in Loops /\ Counted(y) /\ SameBut(y, e) /\ y.active = e.active \cup {w}
  BY StartIs, Kinds DEF LoopInv
<1>2. x = WithAsyncs(y, s)
  BY DEF ev_async_start, WithAsyncs
<1> HIDE DEF y
<1>3. w \notin ToSet(y.asyncs) /\ IsInjective(y.asyncs) /\ y.asyncs = e.asyncs
      /\ ToSet(e.asyncs) = (e.active \cap Asyncs) \cup {break_async}
  <2>1. w # break_async
    BY Names, Kinds DEF Own
  <2>2. QED
    BY <1>1, <2>1 DEF SameBut, LoopInv, AsyncsListed
<1>4. /\ s \in Seq(Asyncs \cup {break_async}) /\ IsInjective(s)
      /\ ToSet(s) = ToSet(e.asyncs) \cup {w}
  BY <1>1, <1>3, AppendNew, LoopFields
<1> HIDE DEF s
<1>5. /\ x \in Loops /\ x.asyncs = s /\ x.active = y.active /\ x.cnt = y.cnt
      /\ x.pend = e.pend /\ x.idx = e.idx /\ x.fd = e.fd /\ x.changes = e.changes
      /\ x.eperms = e.eperms /\ x.heap = e.heap /\ x.at = e.at /\ x.now = e.now
      /\ x.postfork = e.postfork
  BY <1>1, <1>2, <1>4, WithAsyncsIs DEF SameBut
<1> HIDE DEF x
<1>6. /\ x.active \cap Ios = e.active \cap Ios /\ x.active \cap Timers = e.active \cap Timers
      /\ x.active \cap Asyncs = (e.active \cap Asyncs) \cup {w}
  BY <1>1, <1>5, Kinds
<1>7. AsyncsListed(x)
  BY <1>3, <1>4, <1>5, <1>6 DEF AsyncsListed
<1>8. Counted(x)
  BY <1>1, <1>5 DEF Counted
<1>9. LoopInv(x)
  BY <1>5, <1>6, <1>7, <1>8, KeepExact, KeepIos, KeepTimers, KeepFds, Zenon DEF LoopInv
<1>10. QED
  BY <1>1, <1>5, <1>9 DEF SameKernelSide, x

LEMMA AsyncStopIs ==
  ASSUME NEW e \in Loops, LoopInv(e), NEW w \in Asyncs
  PROVE  /\ Stopped(ev_async_stop(e, w), e, w) /\ SameKernelSide(ev_async_stop(e, w), e)
         /\ ev_async_stop(e, w).heap = e.heap /\ ev_async_stop(e, w).at = e.at
<1> DEFINE c == clear_pending(e, w)
           y == ev_stop(c, w)
           x == ev_async_stop(e, w)
           k == CHOOSE j \in DOMAIN e.asyncs : e.asyncs[j] = w
           s == e.asyncs
           t == Front([s EXCEPT ![k] = Last(s)])
<1>1. w \in Watchers /\ w \in All /\ w # break_async
  BY Kinds, Names DEF Own
<1>2. /\ c \in Loops /\ LoopInv(c) /\ SameLists(c, e)
      /\ c.idx[w] = 0 /\ \A v \in All \ {w} : c.idx[v] = e.idx[v]
      /\ NoPending(e) => NoPending(c)
  BY <1>1, ClearedIs
<1>4. CASE w \notin e.active
  <2>1. x = c
    BY <1>4 DEF ev_async_stop
  <2>2. e.active = e.active \ {w}
    BY <1>4
  <2> HIDE DEF c, x
  <2>3. QED
    BY <1>2, <1>4, <2>1, <2>2 DEF Stopped, SameKernelSide, SameLists, x
<1>5. CASE w \in e.active
  <2>1. x = [y EXCEPT !.asyncs = Front([@ EXCEPT ![k] = Last(e.asyncs)])] /\ w \in c.active
    BY <1>2, <1>5 DEF ev_async_stop, SameLists
  <2> HIDE DEF c
  <2>2. y \in Loops /\ Counted(y) /\ SameBut(y, c) /\ y.active = c.active \ {w}
    BY <1>1, <1>2, <2>1, StopIs DEF LoopInv
  <2> HIDE DEF y
  <2>3. y.asyncs = s /\ s \in Seq(Asyncs \cup {break_async}) /\ IsInjective(s)
        /\ ToSet(s) = (e.active \cap Asyncs) \cup {break_async}
    BY <1>2, <2>2, LoopFields DEF SameBut, SameLists, LoopInv, AsyncsListed
  <2>4. x = WithAsyncs(y, t)
    BY <2>1, <2>3 DEF WithAsyncs
  <2>5. \E j \in DOMAIN s : s[j] = w
    BY <1>5, <2>3 DEF ToSet
  <2>6. k \in DOMAIN s /\ s[k] = w
    BY <2>5
  <2>7. t \in Seq(Asyncs \cup {break_async}) /\ Swapped(t, s, k)
    <3> HIDE DEF s, k
    <3>1. /\ k \in 1..Len(s) /\ Len(s) \in 1..Len(s) /\ Len(s) \in Nat
          /\ s[Len(s)] \in Asyncs \cup {break_async}
      BY <2>3, <2>6
    <3> DEFINE u == [s EXCEPT ![k] = s[Len(s)]]
    <3>2. /\ u \in Seq(Asyncs \cup {break_async}) /\ Len(u) = Len(s)
          /\ \A j \in 1..Len(s) : u[j] = IF j = k THEN s[Len(s)] ELSE s[j]
      BY <2>3, <3>1, ExceptSeq
    <3>3. t = Front(u)
      BY DEF Last
    <3> HIDE DEF u
    <3>4. QED
      BY <3>1, <3>2, <3>3 DEF Front, Swapped
  <2> HIDE DEF t, s, k
  <2>8. IsInjective(t) /\ ToSet(t) = ToSet(s) \ {w}
    <3> DEFINE S == Asyncs \cup {break_async}
    <3>3. s \in Seq(S) /\ IsInjective(s) /\ k \in DOMAIN s /\ t \in Seq(S) /\ Swapped(t, s, k)
      BY <2>3, <2>6, <2>7
    <3> HIDE DEF S
    <3>1. IsInjective(t) /\ ToSet(t) = ToSet(s) \ {s[k]}
      BY <3>3, SwapOut
    <3>2. QED
      BY <2>6, <3>1
  <2>9. /\ x \in Loops /\ x.asyncs = t /\ x.active = y.active /\ x.cnt = y.cnt
        /\ x.pend = c.pend /\ x.idx = c.idx /\ x.fd = c.fd /\ x.changes = c.changes
        /\ x.eperms = c.eperms /\ x.heap = c.heap /\ x.at = c.at /\ x.now = c.now
        /\ x.postfork = c.postfork
    BY <2>2, <2>4, <2>7, WithAsyncsIs DEF SameBut
  <2> HIDE DEF x
  <2>10. /\ x.active \cap Ios = c.active \cap Ios /\ x.active \cap Timers = c.active \cap Timers
         /\ x.active \cap Asyncs = (e.active \cap Asyncs) \ {w} /\ x.active = e.active \ {w}
    BY <1>2, <2>2, <2>9, Kinds DEF SameLists
  <2>11. AsyncsListed(x)
    BY <1>1, <2>3, <2>8, <2>9, <2>10 DEF AsyncsListed
  <2>12. Counted(x)
    BY <2>2, <2>9 DEF Counted
  <2>13. LoopInv(x)
    BY <1>2, <2>9, <2>10, <2>11, <2>12, KeepExact, KeepIos, KeepTimers, KeepFds, Zenon DEF LoopInv
  <2>14. NoPending(e) => NoPending(x)
    BY <1>2, <2>9 DEF NoPending
  <2>15. QED
    BY <1>2, <2>9, <2>10, <2>13, <2>14 DEF Stopped, SameKernelSide, SameLists, x
<1>6. QED
  BY <1>4, <1>5

----------------------------------------------------------------------------
(* Descriptors *)

WithFd(e, fd, changes) == [e EXCEPT !.fd = fd, !.changes = changes]

\* x is e but for what it has of the descriptors.
SameButFd(x, e) ==
    /\ x.active = e.active /\ x.cnt = e.cnt /\ x.pend = e.pend /\ x.idx = e.idx
    /\ x.eperms = e.eperms /\ x.heap = e.heap /\ x.at = e.at /\ x.now = e.now
    /\ x.asyncs = e.asyncs /\ x.postfork = e.postfork

LEMMA WithFdIs ==
  ASSUME NEW e \in Loops, NEW fd \in [AllFds -> Anfds], NEW changes \in Seq(AllFds)
  PROVE  LET x == WithFd(e, fd, changes)
         IN  x \in Loops /\ SameButFd(x, e) /\ x.fd = fd /\ x.changes = changes
BY DEF WithFd, Loops, SameButFd

LEMMA AnfdFields ==
  ASSUME NEW a \in Anfds
  PROVE  /\ a.head \in Seq(Ios \cup {pipe_w}) /\ a.events \in SUBSET {"R", "W"}
         /\ a.reify \in SUBSET {"set", "reify"} /\ a.emask \in SUBSET {"R", "W", "P"}
         /\ a.egen \in Nat
BY DEF Anfds

WithHead(a, head, reify) == [a EXCEPT !.head = head, !.reify = reify]

LEMMA WithHeadIs ==
  ASSUME NEW a \in Anfds, NEW head \in Seq(Ios \cup {pipe_w}), NEW reify \in SUBSET {"set", "reify"}
  PROVE  LET b == WithHead(a, head, reify)
         IN  /\ b \in Anfds /\ b.head = head /\ b.reify = reify /\ b.events = a.events
             /\ b.emask = a.emask /\ b.egen = a.egen
BY DEF WithHead, Anfds

\* The list of watchers of descriptor d changes: there is something to tell.
Rewired(x, e, d, head, flags) ==
    /\ x \in Loops /\ SameButFd(x, e)
    /\ \A c \in AllFds \ {d} : x.fd[c] = e.fd[c]
    /\ x.fd[d].head = head /\ x.fd[d].events = e.fd[d].events
    /\ x.fd[d].emask = e.fd[d].emask /\ x.fd[d].egen = e.fd[d].egen
    /\ x.fd[d].reify = e.fd[d].reify \cup flags
    /\ Changed(x) /\ Reified(x) /\ EpermsListed(x)

\* fd_change adds a descriptor to the changed ones, once.
LEMMA FdChangeIs ==
  ASSUME NEW e \in Loops, NEW d \in AllFds, NEW flags \in SUBSET {"set", "reify"}
  PROVE  LET a == e.fd[d]
             fd == [e.fd EXCEPT ![d] = WithHead(a, a.head, a.reify \cup flags)]
             changes == IF a.reify = {} THEN Append(e.changes, d) ELSE e.changes
         IN  fd_change(e, d, flags) = WithFd(e, fd, changes)
<1> DEFINE a == e.fd[d]
           b == [a EXCEPT !.reify = @ \cup flags]
<1>1. a \in Anfds
  BY LoopFields
<1>2. b = WithHead(a, a.head, a.reify \cup flags)
  <2> HIDE DEF a
  <2>1. QED
    BY <1>1 DEF WithHead, Anfds
<1>3. [e.fd EXCEPT ![d].reify = @ \cup flags] = [e.fd EXCEPT ![d] = b]
  BY Zenon
<1>4. fd_change(e, d, flags)
        = WithFd(e, [e.fd EXCEPT ![d].reify = @ \cup flags],
                 IF a.reify = {} THEN Append(e.changes, d) ELSE e.changes)
  BY Zenon DEF fd_change, WithFd
<1> HIDE DEF a, b
<1>5. QED
  BY <1>2, <1>3, <1>4, Zenon DEF a

LEMMA HeadChanges ==
  ASSUME NEW e \in Loops, Changed(e), Reified(e), EpermsListed(e), NEW d \in Fds,
         NEW head \in Seq(Ios \cup {pipe_w}), NEW flags \in SUBSET {"set", "reify"}, flags # {}
  PROVE  Rewired(fd_change([e EXCEPT !.fd[d].head = head], d, flags), e, d, head, flags)
<1> DEFINE a == e.fd[d]
           reify == a.reify \cup flags
           a1 == WithHead(a, head, a.reify)
           fd1 == [e.fd EXCEPT ![d] = a1]
           y == [e EXCEPT !.fd[d].head = head]
           b == WithHead(a1, head, reify)
           fd == [fd1 EXCEPT ![d] = b]
           changes == IF a.reify = {} THEN Append(e.changes, d) ELSE e.changes
           x == fd_change(y, d, flags)
<1>1. d \in AllFds /\ a \in Anfds /\ e.fd \in [AllFds -> Anfds]
  BY LoopFields DEF AllFds
<1>3. reify \in SUBSET {"set", "reify"} /\ reify # {} /\ a.reify \in SUBSET {"set", "reify"}
  BY <1>1, AnfdFields
<1>4. /\ a1 \in Anfds /\ a1.head = head /\ a1.reify = a.reify /\ a1.events = a.events
      /\ a1.emask = a.emask /\ a1.egen = a.egen
  <2> HIDE DEF a
  <2>1. QED
    BY <1>1, <1>3, WithHeadIs
<1>13. y = WithFd(e, fd1, e.changes)
  <2>1. y = WithFd(e, [e.fd EXCEPT ![d].head = head], e.changes)
    BY LoopFields DEF WithFd, Loops
  <2>2. [a EXCEPT !.head = head] = a1
    <3> HIDE DEF a
    <3>1. QED
      BY <1>1 DEF Anfds, WithHead
  <2>3. [e.fd EXCEPT ![d].head = head] = [e.fd EXCEPT ![d] = [a EXCEPT !.head = head]]
    BY Zenon
  <2> HIDE DEF a1
  <2>4. QED
    BY <2>1, <2>2, <2>3, Zenon
<1> HIDE DEF a1
<1>14. fd1 \in [AllFds -> Anfds] /\ fd1[d] = a1 /\ \A c \in AllFds \ {d} : fd1[c] = e.fd[c]
  BY <1>1, <1>4
<1>15. y \in Loops /\ SameButFd(y, e) /\ y.fd = fd1 /\ y.changes = e.changes
  <2> HIDE DEF fd1, y
  <2>1. QED
    BY <1>13, <1>14, WithFdIs, LoopFields
<1>2. x = WithFd(y, fd, changes)
  <2>1. y.fd[d] = a1 /\ a1.head = head /\ a1.reify = a.reify
    BY <1>4, <1>14, <1>15
  <2> HIDE DEF y
  <2>2. x = WithFd(y, [y.fd EXCEPT ![d] = WithHead(y.fd[d], y.fd[d].head, y.fd[d].reify \cup flags)],
                   IF y.fd[d].reify = {} THEN Append(y.changes, d) ELSE y.changes)
    BY <1>1, <1>15, FdChangeIs
  <2>3. QED
    BY <1>15, <2>1, <2>2
<1>16. /\ b \in Anfds /\ b.head = head /\ b.reify = reify /\ b.events = a.events
       /\ b.emask = a.emask /\ b.egen = a.egen
  <2> HIDE DEF a, reify
  <2>1. /\ b \in Anfds /\ b.head = head /\ b.reify = reify /\ b.events = a1.events
        /\ b.emask = a1.emask /\ b.egen = a1.egen
    <3>1. a1 \in Anfds /\ reify \in SUBSET {"set", "reify"}
      BY <1>3, <1>4
    <3>2. QED
      BY <3>1, WithHeadIs
  <2> HIDE DEF b
  <2>2. QED
    BY <1>4, <2>1
<1> HIDE DEF b
<1>5. fd \in [AllFds -> Anfds] /\ fd[d] = b /\ \A c \in AllFds \ {d} : fd[c] = e.fd[c]
  <2> HIDE DEF fd1
  <2>1. QED
    BY <1>1, <1>14, <1>16
<1> HIDE DEF fd
<1>6. IsInjective(e.changes) /\ ToSet(e.changes) = {c \in AllFds : e.fd[c].reify # {}}
      /\ e.changes \in Seq(AllFds)
  BY LoopFields DEF Changed
<1>7. /\ changes \in Seq(AllFds) /\ IsInjective(changes) /\ ToSet(changes) = ToSet(e.changes) \cup {d}
  <2>1. CASE a.reify = {}
    <3>1. d \notin ToSet(e.changes) /\ changes = Append(e.changes, d)
      BY <1>6, <2>1
    <3>2. QED
      BY <1>1, <1>6, <3>1, AppendNew
  <2>2. CASE a.reify # {}
    BY <1>1, <1>6, <2>2
  <2>3. QED
    BY <2>1, <2>2
<1> HIDE DEF changes
<1>8. x \in Loops /\ SameButFd(x, e) /\ x.fd = fd /\ x.changes = changes
  <2> HIDE DEF y
  <2>1. QED
    BY <1>2, <1>5, <1>7, <1>15, WithFdIs DEF SameButFd
<1> HIDE DEF x
<1>9. Changed(x)
  <2>1. \A c \in AllFds : x.fd[c].reify # {} <=> c = d \/ e.fd[c].reify # {}
    BY <1>3, <1>16, <1>5, <1>8
  <2>2. QED
    BY <1>1, <1>6, <1>7, <1>8, <2>1 DEF Changed
<1>10. Reified(x)
  BY <1>3, <1>16, <1>5, <1>8 DEF Reified, WantedOf
<1>11. EpermsListed(x)
  BY <1>16, <1>5, <1>8 DEF EpermsListed, SameButFd
<1>12. QED
  BY <1>16, <1>5, <1>8, <1>9, <1>10, <1>11 DEF Rewired, x

\* What a start or a stop of an I/O watcher leaves of what the kernel was told.
FdKept(x, e) ==
    /\ x.eperms = e.eperms /\ x.now = e.now /\ x.postfork = e.postfork
    /\ \A c \in AllFds : /\ x.fd[c].events = e.fd[c].events /\ x.fd[c].emask = e.fd[c].emask
                         /\ x.fd[c].egen = e.fd[c].egen /\ e.fd[c].reify \subseteq x.fd[c].reify

LEMMA RewiredKept ==
  ASSUME NEW e, NEW x, NEW d \in AllFds, NEW head, NEW flags, Rewired(x, e, d, head, flags)
  PROVE  FdKept(x, e)
<1>1. ASSUME NEW c \in AllFds
      PROVE  /\ x.fd[c].events = e.fd[c].events /\ x.fd[c].emask = e.fd[c].emask
             /\ x.fd[c].egen = e.fd[c].egen /\ e.fd[c].reify \subseteq x.fd[c].reify
  <2>1. CASE c = d
    BY <2>1 DEF Rewired
  <2>2. CASE c # d
    BY <2>2 DEF Rewired
  <2>3. QED
    BY <2>1, <2>2
<1>2. QED
  BY <1>1 DEF FdKept, Rewired, SameButFd

\* The watchers of a list are those of its descriptor.
LEMMA ListsOf ==
  ASSUME NEW e \in Loops, IoListed(e), NEW w \in Ios
  PROVE  LET h == e.fd[WFd[w]].head
         IN  /\ WFd[w] \in Fds /\ WFd[w] \in AllFds /\ h \in Seq(Ios \cup {pipe_w}) /\ IsInjective(h)
             /\ ToSet(h) = {v \in e.active \cap Ios : WFd[v] = WFd[w]}
<1>1. WFd[w] \in Fds /\ WFd[w] \in AllFds
  BY LoopAssumption DEF AllFds
<1>2. e.fd[WFd[w]] \in Anfds
  BY <1>1, LoopFields
<1>3. QED
  BY <1>1, <1>2, AnfdFields DEF IoListed

\* The new lists, when the one of descriptor WFd[w] changes by w.
LEMMA ListsChange ==
  ASSUME NEW e \in Loops, IoListed(e), NEW x, NEW y, NEW w \in Ios, NEW head, NEW flags,
         Rewired(x, y, WFd[w], head, flags), y.fd = e.fd, IsInjective(head),
         ToSet(head) = {v \in x.active \cap Ios : WFd[v] = WFd[w]},
         \A v \in Ios \ {w} : v \in x.active <=> v \in e.active
  PROVE  IoListed(x)
<1>1. WFd[w] \in Fds /\ WFd[w] \in AllFds
  BY LoopAssumption DEF AllFds
<1>2. x.fd[PipeFd] = e.fd[PipeFd]
  BY <1>1, LoopAssumption DEF Rewired, AllFds
<1>3. ASSUME NEW d \in Fds
      PROVE  IsInjective(x.fd[d].head) /\ ToSet(x.fd[d].head) = {v \in x.active \cap Ios : WFd[v] = d}
  <2>1. CASE d = WFd[w]
    BY <2>1 DEF Rewired
  <2>2. CASE d # WFd[w]
    <3>1. x.fd[d] = e.fd[d]
      BY <2>2 DEF Rewired, AllFds
    <3>2. {v \in x.active \cap Ios : WFd[v] = d} = {v \in e.active \cap Ios : WFd[v] = d}
      BY <2>2
    <3>3. QED
      BY <3>1, <3>2, Zenon DEF IoListed
  <2>3. QED
    BY <2>1, <2>2
<1>4. QED
  BY <1>2, <1>3, Zenon DEF IoListed

LEMMA IoStartIs ==
  ASSUME NEW e \in Loops, LoopInv(e), NEW w \in Ios, w \notin e.active, NEW flags \in SUBSET {"set"}
  PROVE  LET x == ev_io_start(e, w, flags)
         IN  /\ x \in Loops /\ LoopInv(x) /\ x.pend = e.pend /\ x.idx = e.idx
             /\ x.active = e.active \cup {w} /\ x.heap = e.heap /\ x.at = e.at
             /\ FdKept(x, e) /\ flags \subseteq x.fd[WFd[w]].reify
<1> DEFINE y == ev_start(e, w)
           d == WFd[w]
           h == e.fd[d].head
           head == <<w>> \o h
           fl == flags \cup {"reify"}
           x == ev_io_start(e, w, flags)
<1>1. y \in Loops /\ Counted(y) /\ SameBut(y, e) /\ y.active = e.active \cup {w}
  BY StartIs, Kinds DEF LoopInv
<1>2. d \in Fds /\ d \in AllFds /\ h \in Seq(Ios \cup {pipe_w}) /\ IsInjective(h)
      /\ ToSet(h) = {v \in e.active \cap Ios : WFd[v] = d}
  BY ListsOf DEF LoopInv
<1>3. x = fd_change([y EXCEPT !.fd[d].head = head], d, fl)
  <2>1. y.fd[d].head = h
    BY <1>1 DEF SameBut
  <2> HIDE DEF y
  <2>2. x = fd_change([y EXCEPT !.fd[d].head = <<w>> \o @], d, fl)
    BY Zenon DEF ev_io_start, y
  <2>3. [y EXCEPT !.fd[d].head = <<w>> \o @] = [y EXCEPT !.fd[d].head = <<w>> \o y.fd[d].head]
    BY Zenon
  <2>4. QED
    BY <2>1, <2>2, <2>3, Zenon
<1>4. head \in Seq(Ios \cup {pipe_w}) /\ IsInjective(head) /\ ToSet(head) = ToSet(h) \cup {w}
  <2> DEFINE S == Ios \cup {pipe_w}
  <2>1. w \in S /\ h \in Seq(S) /\ w \notin ToSet(h)
    BY <1>2
  <2> HIDE DEF h, S
  <2>2. head \in Seq(S) /\ IsInjective(head) /\ ToSet(head) = ToSet(h) \cup {w}
    BY <1>2, <2>1, PrependNew
  <2>3. QED
    BY <2>2 DEF S
<1>5. fl \in SUBSET {"set", "reify"} /\ fl # {}
  OBVIOUS
<1>6. Changed(y) /\ Reified(y) /\ EpermsListed(y)
  BY <1>1, KeepFds, Zenon DEF LoopInv, SameBut
<1> HIDE DEF y, head, fl, x, h
<1>7. Rewired(x, y, d, head, fl)
  BY <1>1, <1>2, <1>3, <1>4, <1>5, <1>6, HeadChanges, Zenon
<1>8. x \in Loops /\ SameButFd(x, y) /\ Changed(x) /\ Reified(x) /\ EpermsListed(x)
  BY <1>7 DEF Rewired
<1>9. x.active = e.active \cup {w}
  BY <1>1, <1>8 DEF SameButFd
<1>10. /\ x.active \cap Timers = e.active \cap Timers /\ x.active \cap Asyncs = e.active \cap Asyncs
  BY <1>9, Kinds
<1>11. IoListed(x)
  <2>1. ToSet(head) = {v \in x.active \cap Ios : WFd[v] = WFd[w]}
    BY <1>2, <1>4, <1>9
  <2>2. \A v \in Ios \ {w} : v \in x.active <=> v \in e.active
    BY <1>9
  <2>3. y.fd = e.fd
    BY <1>1 DEF SameBut
  <2>4. QED
    BY <1>4, <1>7, <2>1, <2>2, <2>3, ListsChange DEF LoopInv
<1>12. Counted(x)
  BY <1>1, <1>8 DEF Counted, SameButFd
<1>13. /\ x.pend = e.pend /\ x.idx = e.idx /\ x.heap = e.heap /\ x.at = e.at /\ x.asyncs = e.asyncs
  BY <1>1, <1>8 DEF SameButFd, SameBut
<1>14. LoopInv(x)
  BY <1>8, <1>10, <1>11, <1>12, <1>13, KeepExact, KeepTimers, KeepAsyncs, Zenon DEF LoopInv
<1>15. FdKept(x, e) /\ flags \subseteq x.fd[d].reify
  <2>1. FdKept(x, y)
    BY <1>2, <1>7, RewiredKept
  <2>2. FdKept(x, e)
    BY <1>1, <2>1 DEF FdKept, SameBut
  <2>3. QED
    BY <1>7, <2>2 DEF Rewired, fl
<1>16. QED
  BY <1>8, <1>9, <1>13, <1>14, <1>15 DEF x

LEMMA WlistDelIs ==
  ASSUME NEW S, NEW h \in Seq(S), IsInjective(h), NEW w \in ToSet(h)
  PROVE  /\ wlist_del(h, w) \in Seq(S) /\ IsInjective(wlist_del(h, w))
         /\ ToSet(wlist_del(h, w)) = ToSet(h) \ {w}
<1> DEFINE k == CHOOSE j \in DOMAIN h : h[j] = w
<1>1. \E j \in DOMAIN h : h[j] = w
  BY DEF ToSet
<1>2. k \in DOMAIN h /\ h[k] = w
  BY <1>1
<1>3. wlist_del(h, w) = RemoveAt(h, k)
  BY DEF wlist_del
<1> HIDE DEF k
<1>4. QED
  BY <1>2, <1>3, RemoveAtIs

LEMMA IoStopIs ==
  ASSUME NEW e \in Loops, LoopInv(e), NEW w \in Ios
  PROVE  LET x == ev_io_stop(e, w)
         IN  Stopped(x, e, w) /\ FdKept(x, e) /\ x.heap = e.heap /\ x.at = e.at
<1> DEFINE c == clear_pending(e, w)
           y == ev_stop(c, w)
           d == WFd[w]
           h == e.fd[d].head
           head == wlist_del(h, w)
           fl == {"reify"}
           x == ev_io_stop(e, w)
<1>1. w \in Watchers /\ w \in All
  BY Kinds, Names
<1>2. /\ c \in Loops /\ LoopInv(c) /\ SameLists(c, e)
      /\ c.idx[w] = 0 /\ \A v \in All \ {w} : c.idx[v] = e.idx[v]
      /\ NoPending(e) => NoPending(c)
  BY <1>1, ClearedIs
<1>3. CASE w \notin e.active
  <2>1. x = c
    BY <1>3 DEF ev_io_stop
  <2>2. e.active = e.active \ {w}
    BY <1>3
  <2> HIDE DEF c, x
  <2>3. QED
    BY <1>2, <1>3, <2>1, <2>2 DEF Stopped, FdKept, SameLists, x
<1>4. CASE w \in e.active
  <2>1. x = fd_change([y EXCEPT !.fd[d].head = wlist_del(@, w)], d, fl) /\ w \in c.active
    BY <1>2, <1>4, Zenon DEF ev_io_stop, SameLists
  <2> HIDE DEF c
  <2>2. y \in Loops /\ Counted(y) /\ SameBut(y, c) /\ y.active = c.active \ {w}
    BY <1>1, <1>2, <2>1, StopIs DEF LoopInv
  <2>3. d \in Fds /\ d \in AllFds /\ h \in Seq(Ios \cup {pipe_w}) /\ IsInjective(h)
        /\ ToSet(h) = {v \in e.active \cap Ios : WFd[v] = d}
    BY ListsOf DEF LoopInv
  <2>4. y.fd = e.fd
    BY <1>2, <2>2 DEF SameBut, SameLists
  <2>5. x = fd_change([y EXCEPT !.fd[d].head = head], d, fl)
    <3> HIDE DEF y
    <3>1. [y EXCEPT !.fd[d].head = wlist_del(@, w)] = [y EXCEPT !.fd[d].head = wlist_del(y.fd[d].head, w)]
      BY Zenon
    <3>2. y.fd[d].head = h
      BY <2>4
    <3>3. QED
      BY <2>1, <3>1, <3>2, Zenon
  <2>6. head \in Seq(Ios \cup {pipe_w}) /\ IsInjective(head) /\ ToSet(head) = ToSet(h) \ {w}
    <3> DEFINE S == Ios \cup {pipe_w}
    <3>1. w \in ToSet(h) /\ h \in Seq(S)
      BY <1>4, <2>3
    <3> HIDE DEF h, S
    <3>2. head \in Seq(S) /\ IsInjective(head) /\ ToSet(head) = ToSet(h) \ {w}
      BY <2>3, <3>1, WlistDelIs
    <3>3. QED
      BY <3>2 DEF S
  <2>7. fl \in SUBSET {"set", "reify"} /\ fl # {}
    OBVIOUS
  <2>8. Changed(y) /\ Reified(y) /\ EpermsListed(y)
    BY <1>2, <2>2, KeepFds, Zenon DEF LoopInv, SameBut
  <2> HIDE DEF y, head, fl, x, h
  <2>9. Rewired(x, y, d, head, fl)
    BY <2>2, <2>3, <2>5, <2>6, <2>7, <2>8, HeadChanges, Zenon
  <2>10. x \in Loops /\ SameButFd(x, y) /\ Changed(x) /\ Reified(x) /\ EpermsListed(x)
    BY <2>9 DEF Rewired
  <2>11. x.active = e.active \ {w}
    BY <1>2, <2>2, <2>10 DEF SameButFd, SameLists
  <2>12. /\ x.active \cap Timers = e.active \cap Timers /\ x.active \cap Asyncs = e.active \cap Asyncs
    BY <2>11, Kinds
  <2>13. IoListed(x)
    <3>1. ToSet(head) = {v \in x.active \cap Ios : WFd[v] = WFd[w]}
      BY <2>3, <2>6, <2>11
    <3>2. \A v \in Ios \ {w} : v \in x.active <=> v \in e.active
      BY <2>11
    <3>3. QED
      BY <2>4, <2>6, <2>9, <3>1, <3>2, ListsChange DEF LoopInv
  <2>14. Counted(x)
    BY <2>2, <2>10 DEF Counted, SameButFd
  <2>15. /\ x.pend = c.pend /\ x.idx = c.idx /\ x.heap = e.heap /\ x.at = e.at /\ x.asyncs = e.asyncs
    BY <1>2, <2>2, <2>10 DEF SameButFd, SameBut, SameLists
  <2>16. Exact(x)
    BY <1>2, <2>15, KeepExact DEF LoopInv
  <2>17. LoopInv(x)
    BY <2>10, <2>12, <2>13, <2>14, <2>15, <2>16, KeepTimers, KeepAsyncs, Zenon DEF LoopInv
  <2>18. FdKept(x, e)
    <3>1. FdKept(x, y)
      BY <2>3, <2>9, RewiredKept
    <3>2. QED
      BY <1>2, <2>2, <3>1 DEF FdKept, SameBut, SameLists
  <2>19. NoPending(e) => NoPending(x)
    BY <1>2, <2>15 DEF NoPending
  <2>20. QED
    BY <1>2, <2>10, <2>11, <2>15, <2>17, <2>18, <2>19 DEF Stopped, x
<1>5. QED
  BY <1>3, <1>4

----------------------------------------------------------------------------
(* The timer heap *)

LEMMA Division ==
  ASSUME NEW a \in Nat, NEW b \in Nat \ {0}
  PROVE  a \div b \in Nat /\ b * (a \div b) <= a /\ a < b * (a \div b) + b
BY Z3

LEMMA Times ==
  ASSUME NEW a \in Nat, NEW b \in Nat, NEW c \in Nat, a <= b
  PROVE  c * a \in Nat /\ c * b \in Nat /\ c * a <= c * b
<1>1. c * a \in Nat /\ c * b \in Nat /\ c * (b - a) >= 0
  OBVIOUS
<1>2. c * (b - a) = c * b - c * a
  OBVIOUS
<1>3. QED
  BY <1>1, <1>2

LEMMA OnceMore ==
  ASSUME NEW a \in Int, NEW c \in Nat
  PROVE  c * (a + 1) = c * a + c /\ c * a \in Int
OBVIOUS

\* A place but the root's has one parent, before it, whose child it is.
LEMMA ParentIs ==
  ASSUME NEW c \in Nat, c > 1
  PROVE  /\ HPARENT(c) \in Nat /\ HPARENT(c) >= 1 /\ HPARENT(c) < c
         /\ \A k \in Nat : k >= 1 =>
               (HPARENT(c) = k <=> c \in (DHEAP * (k - 1) + 2)..(DHEAP * k + 1))
<1> DEFINE q == (c - 2) \div DHEAP
           D == DHEAP
<1>0. D \in Nat \ {0}
  BY LoopAssumption
<1>1. q \in Nat /\ D * q <= c - 2 /\ c - 2 < D * q + D
  BY <1>0, Division
<1>2. HPARENT(c) = q + 1
  BY DEF HPARENT
<1> HIDE DEF q, D
<1>3. q <= D * q
  <2>1. q * 1 <= q * D
    BY <1>0, <1>1, Times
  <2>2. q * 1 = q /\ q * D = D * q
    BY <1>0, <1>1
  <2>3. QED
    BY <2>1, <2>2
<1>4. ASSUME NEW k \in Nat, k >= 1
      PROVE  q + 1 = k <=> c \in (D * (k - 1) + 2)..(D * k + 1)
  <2>1. k - 1 \in Nat /\ D * k = D * (k - 1) + D /\ D * (k - 1) \in Nat /\ D * q \in Nat
    BY <1>0, <1>1, <1>4, OnceMore, Times
  <2>2. q + 1 = k => c \in (D * (k - 1) + 2)..(D * k + 1)
    BY <1>0, <1>1, <1>4, <2>1
  <2>3. ASSUME c \in (D * (k - 1) + 2)..(D * k + 1), q < k - 1 PROVE FALSE
    <3>1. D * (q + 1) <= D * (k - 1)
      BY <1>0, <1>1, <2>1, <2>3, Times
    <3>2. D * (q + 1) = D * q + D
      BY <1>0, <1>1, OnceMore
    <3>3. QED
      BY <1>0, <1>1, <2>1, <2>3, <3>1, <3>2
  <2>4. ASSUME c \in (D * (k - 1) + 2)..(D * k + 1), q > k - 1 PROVE FALSE
    <3>1. D * k <= D * q
      BY <1>0, <1>1, <1>4, <2>4, Times
    <3>2. QED
      BY <1>0, <1>1, <2>1, <2>4, <3>1
  <2>5. QED
    BY <1>1, <1>4, <2>2, <2>3, <2>4
<1>5. HPARENT(c) \in Nat /\ HPARENT(c) >= 1 /\ HPARENT(c) < c
  <2> DEFINE m == D * q
  <2>1. m \in Int
    BY <1>0, <1>1
  <2>2. q <= m /\ m <= c - 2
    BY <1>1, <1>3
  <2> HIDE DEF m
  <2>3. QED
    BY <1>1, <1>2, <2>1, <2>2
<1>6. \A k \in Nat : k >= 1 => (HPARENT(c) = k <=> c \in (DHEAP * (k - 1) + 2)..(DHEAP * k + 1))
  BY <1>2, <1>4, Zenon DEF D
<1>7. QED
  BY <1>5, <1>6, Zenon

LEMMA KidsAre ==
  ASSUME NEW n \in Nat, NEW k \in Nat, k >= 1
  PROVE  Kids(n, k) = {c \in 2..n : HPARENT(c) = k}
<1>1. DHEAP \in Nat /\ DHEAP * (k - 1) \in Nat /\ DHEAP * k \in Nat
  <2>1. DHEAP \in Nat
    BY LoopAssumption
  <2> DEFINE D == DHEAP
  <2>2. D \in Nat
    BY <2>1
  <2> HIDE DEF D
  <2>3. D * (k - 1) \in Nat /\ D * k \in Nat
    BY <2>2, Times
  <2>4. QED
    BY <2>1, <2>3 DEF D
<1> DEFINE lo == DHEAP * (k - 1) + 2
           hi == DHEAP * k + 1
<1>2. lo \in Nat /\ hi \in Nat /\ lo >= 2
  BY <1>1
<1>3. Kids(n, k) = {c \in lo..hi : c <= n}
  BY DEF Kids
<1>4. \A c \in Nat : c > 1 => (HPARENT(c) = k <=> c \in lo..hi)
  BY ParentIs
<1> HIDE DEF lo, hi
<1>5. QED
  BY <1>2, <1>3, <1>4

\* The same, without the arithmetic: the order of a heap.
Before(h, at, a, b) == at[h[a]] <= at[h[b]]
Ordered(h, at) == \A c \in 2..Len(h) : Before(h, at, HPARENT(c), c)

LEMMA OrderedIs ==
  ASSUME NEW h, Len(h) \in Nat, DOMAIN h = 1..Len(h), NEW at
  PROVE  Ordered(h, at) <=>
           \A k \in DOMAIN h : \A c \in Kids(Len(h), k) : at[h[k]] <= at[h[c]]
<1>1. \A k \in 1..Len(h) : Kids(Len(h), k) = {c \in 2..Len(h) : HPARENT(c) = k}
  BY KidsAre
<1>2. \A c \in 2..Len(h) : HPARENT(c) \in 1..Len(h)
  BY ParentIs
<1>3. QED
  BY <1>1, <1>2 DEF Ordered, Before

Exchanged(t, g, i, j) ==
    /\ t[i] = g[j] /\ t[j] = g[i]
    /\ \A c \in 1..Len(g) : c # i /\ c # j => t[c] = g[c]

LEMMA SwapIs ==
  ASSUME NEW S, NEW g \in Seq(S), IsInjective(g), NEW i \in 1..Len(g), NEW j \in 1..Len(g)
  PROVE  LET t == Swap(g, i, j)
         IN  /\ t \in Seq(S) /\ Len(t) = Len(g) /\ IsInjective(t) /\ ToSet(t) = ToSet(g)
             /\ Exchanged(t, g, i, j)
<1> DEFINE t == Swap(g, i, j)
           n == Len(g)
<1>1. n \in Nat /\ DOMAIN g = 1..n /\ g \in [1..n -> S]
  OBVIOUS
<1>2. t \in [1..n -> S] /\ t[i] = g[j] /\ t[j] = g[i] /\ \A c \in 1..n : c # i /\ c # j => t[c] = g[c]
  BY <1>1 DEF Swap
<1> HIDE DEF t
<1>3. t \in Seq(S) /\ Len(t) = n /\ DOMAIN t = 1..n
  BY <1>1, <1>2, IsASeq
<1>4. \A a, b \in 1..n : g[a] = g[b] => a = b
  BY <1>1 DEF IsInjective
<1>5. IsInjective(t)
  BY <1>2, <1>3, <1>4 DEF IsInjective
<1>6. ToSet(t) = ToSet(g)
  <2>1. ASSUME NEW c \in 1..n PROVE \E a \in 1..n : t[c] = g[a]
    BY <1>2, Zenon
  <2>2. ASSUME NEW c \in 1..n PROVE \E a \in 1..n : g[c] = t[a]
    BY <1>2, Zenon
  <2>4. ToSet(t) = {t[c] : c \in 1..n} /\ ToSet(g) = {g[c] : c \in 1..n}
    BY <1>1, <1>3, Zenon DEF ToSet
  <2> HIDE DEF n
  <2>5. \A x \in ToSet(t) : x \in ToSet(g)
    BY <2>1, <2>4
  <2>6. \A x \in ToSet(g) : x \in ToSet(t)
    BY <2>2, <2>4
  <2>3. QED
    BY <2>5, <2>6
<1>7. QED
  BY <1>2, <1>3, <1>5, <1>6 DEF t, Exchanged

Shuffled(g, h) == g \in Seq(Timers) /\ Len(g) = Len(h) /\ IsInjective(g) /\ ToSet(g) = ToSet(h)

\* In order but for the element at k, which may be too early for its place,
\* or too late.
TooEarly(h, k, at) ==
    /\ \A c \in 2..Len(h) : c # k => Before(h, at, HPARENT(c), c)
    /\ k > 1 => \A c \in 2..Len(h) : HPARENT(c) = k => Before(h, at, HPARENT(k), c)
TooLate(h, k, at) ==
    /\ \A c \in 2..Len(h) : HPARENT(c) # k => Before(h, at, HPARENT(c), c)
    /\ k > 1 => \A c \in 2..Len(h) : HPARENT(c) = k => Before(h, at, HPARENT(k), c)

LEMMA TimesOf ==
  ASSUME NEW h \in Seq(Timers), NEW at \in [Timers -> Nat]
  PROVE  Len(h) \in Nat /\ \A i \in 1..Len(h) : h[i] \in Timers /\ at[h[i]] \in Nat
OBVIOUS

LEMMA ParentsOf ==
  ASSUME NEW n \in Nat
  PROVE  \A c \in 2..n : HPARENT(c) \in 1..n /\ HPARENT(c) < c /\ HPARENT(c) # c
<1> TAKE c \in 2..n
<1>1. c \in Nat /\ c > 1
  OBVIOUS
<1>2. HPARENT(c) \in Nat /\ HPARENT(c) >= 1 /\ HPARENT(c) < c
  BY <1>1, ParentIs
<1>3. QED
  BY <1>2

\* Changing places with a later parent.
LEMMA SiftedUp ==
  ASSUME NEW g \in Seq(Timers), NEW at \in [Timers -> Nat], NEW k \in 2..Len(g),
         TooEarly(g, k, at), ~Before(g, at, HPARENT(k), k),
         NEW t \in Seq(Timers), Len(t) = Len(g), Exchanged(t, g, k, HPARENT(k))
  PROVE  TooEarly(t, HPARENT(k), at)
<1> DEFINE n == Len(g)
           p == HPARENT(k)
           v(c) == at[g[c]]
           u(c) == at[t[c]]
<1>1. n \in Nat /\ \A c \in 1..n : v(c) \in Nat
  BY TimesOf
<1>2. \A c \in 2..n : HPARENT(c) \in 1..n /\ HPARENT(c) # c /\ c \in 1..n
  BY <1>1, ParentsOf
<1>3. p \in 1..n /\ p # k /\ k \in 1..n
  BY <1>2
<1>4. u(k) = v(p) /\ u(p) = v(k) /\ \A c \in 1..n : c # k /\ c # p => u(c) = v(c)
  BY <1>3 DEF Exchanged
<1>11. v(k) \in Nat /\ v(p) \in Nat
  <2> HIDE DEF v, p, n
  <2>1. QED
    BY <1>1, <1>3
<1>5. v(k) < v(p)
  <2>1. ~(v(p) <= v(k))
    BY DEF Before
  <2> HIDE DEF v, p, n
  <2>2. QED
    BY <1>11, <2>1
<1>6. \A c \in 2..n : c # k => v(HPARENT(c)) <= v(c)
  BY DEF TooEarly, Before
<1>7. \A c \in 2..n : HPARENT(c) = k => v(p) <= v(c)
  BY DEF TooEarly, Before
<1> HIDE DEF u, v, n
<1>8. ASSUME NEW c \in 2..n, c # p PROVE u(HPARENT(c)) <= u(c)
  <2>1. CASE c = k
    <3>1. u(p) <= u(k)
      <4> HIDE DEF p
      <4>1. QED
        BY <1>4, <1>5, <1>11
    <3>2. QED
      BY <2>1, <3>1
  <2>2. CASE c # k /\ HPARENT(c) = k
    BY <2>2, <1>2, <1>4, <1>7, <1>8
  <2>3. CASE c # k /\ HPARENT(c) = p
    <3>1. v(p) <= v(c) /\ u(c) = v(c) /\ u(p) = v(k)
      BY <2>3, <1>2, <1>4, <1>6, <1>8
    <3>2. v(c) \in Nat
      BY <1>1, <1>2
    <3>3. u(p) <= u(c)
      <4> HIDE DEF p
      <4>1. QED
        BY <3>1, <3>2, <1>5, <1>11
    <3>4. QED
      BY <2>3, <3>3
  <2>4. CASE c # k /\ HPARENT(c) # k /\ HPARENT(c) # p
    BY <2>4, <1>2, <1>4, <1>6, <1>8
  <2>5. QED
    BY <2>1, <2>2, <2>3, <2>4
<1>9. ASSUME p > 1, NEW c \in 2..n, HPARENT(c) = p PROVE u(HPARENT(p)) <= u(c)
  <2>1. p \in 2..n
    BY <1>1, <1>3, <1>9
  <2>2. HPARENT(p) \in 1..n /\ HPARENT(p) # p /\ HPARENT(p) # k
    <3>1. p < k /\ HPARENT(p) < p
      BY <1>1, <2>1, ParentsOf DEF n
    <3>2. QED
      BY <1>2, <2>1, <3>1
  <2>3. v(HPARENT(p)) <= v(p) /\ u(HPARENT(p)) = v(HPARENT(p))
    BY <1>3, <1>4, <1>6, <2>1, <2>2
  <2>4. CASE c = k
    BY <2>3, <2>4, <1>4
  <2>5. CASE c # k
    <3>1. v(p) <= v(c) /\ u(c) = v(c)
      BY <2>5, <1>2, <1>4, <1>6, <1>9
    <3>2. v(c) \in Nat /\ v(HPARENT(p)) \in Nat
      BY <1>1, <1>2, <2>2
    <3>3. QED
      <4> HIDE DEF p
      <4>1. QED
        BY <2>3, <3>1, <3>2, <1>11
  <2>6. QED
    BY <2>4, <2>5
<1>10. QED
  BY <1>8, <1>9 DEF TooEarly, Before, u, n

\* There is a first among the children that are due first.
LEMMA MinPosIs ==
  ASSUME NEW h \in Seq(Timers), NEW at \in [Timers -> Nat], NEW k \in 1..Len(h),
         Kids(Len(h), k) # {}
  PROVE  LET m == MinPos(h, at, k)
         IN  /\ m \in 2..Len(h) /\ HPARENT(m) = k
             /\ \A d \in 2..Len(h) : HPARENT(d) = k => Before(h, at, m, d)
<1> DEFINE n == Len(h)
           K == Kids(n, k)
           v(c) == at[h[c]]
           V == {v(c) : c \in K}
           First(c) == \A d \in K : v(c) < v(d) \/ (v(c) = v(d) /\ c <= d)
<1>1. n \in Nat /\ \A c \in 1..n : v(c) \in Nat
  BY TimesOf
<1>2. K = {c \in 2..n : HPARENT(c) = k}
  BY <1>1, KidsAre
<1> HIDE DEF v, n
<1>3. K \in SUBSET Nat /\ \A c \in K : v(c) \in Nat
  BY <1>1, <1>2
<1>4. K # {}
  BY DEF n
<1> HIDE DEF K
<1>5. V \in SUBSET Nat /\ V # {}
  BY <1>3, <1>4
<1>6. PICK m \in V : \A y \in V : m <= y
  <2> HIDE DEF V
  <2>1. QED
    BY <1>5, MinOfNats
<1> DEFINE L == {c \in K : v(c) = m}
<1>7. L \in SUBSET Nat /\ L # {}
  BY <1>3, <1>6
<1>8. PICK l \in L : \A y \in L : l <= y
  <2> HIDE DEF L
  <2>1. QED
    BY <1>7, MinOfNats
<1>9. l \in K /\ v(l) = m
  BY <1>8
<1>10. First(l)
  <2> SUFFICES ASSUME NEW d \in K PROVE v(l) < v(d) \/ (v(l) = v(d) /\ l <= d)
    OBVIOUS
  <2>1. m <= v(d) /\ v(d) \in Nat /\ m \in Nat
    BY <1>3, <1>5, <1>6
  <2>2. CASE v(d) = m
    BY <2>2, <1>8, <1>9
  <2>3. CASE v(d) # m
    BY <2>1, <2>3, <1>9
  <2>4. QED
    BY <2>2, <2>3
<1>11. \E c \in K : First(c)
  BY <1>9, <1>10
<1>12. MinPos(h, at, k) = CHOOSE c \in K : First(c)
  BY Zenon DEF MinPos, K, n, v
<1> HIDE DEF First
<1>13. MinPos(h, at, k) \in K /\ First(MinPos(h, at, k))
  BY <1>11, <1>12, Zenon
<1> DEFINE M == MinPos(h, at, k)
<1>14. \A d \in K : v(M) <= v(d)
  <2>1. \A d \in K : v(M) < v(d) \/ (v(M) = v(d) /\ M <= d)
    BY <1>13 DEF First
  <2> HIDE DEF M
  <2>2. QED
    BY <1>3, <1>13, <2>1 DEF M
<1>15. QED
  BY <1>2, <1>13, <1>14 DEF Before, n, v

\* Changing places with the first child, which is earlier.
LEMMA SiftedDown ==
  ASSUME NEW g \in Seq(Timers), NEW at \in [Timers -> Nat], NEW k \in 1..Len(g),
         TooLate(g, k, at), NEW m \in 2..Len(g), HPARENT(m) = k, ~Before(g, at, k, m),
         \A d \in 2..Len(g) : HPARENT(d) = k => Before(g, at, m, d),
         NEW t \in Seq(Timers), Len(t) = Len(g), Exchanged(t, g, k, m)
  PROVE  TooLate(t, m, at)
<1> DEFINE n == Len(g)
           v(c) == at[g[c]]
           u(c) == at[t[c]]
<1>1. n \in Nat /\ \A c \in 1..n : v(c) \in Nat
  BY TimesOf
<1>2. \A c \in 2..n : HPARENT(c) \in 1..n /\ HPARENT(c) # c /\ c \in 1..n
  BY <1>1, ParentsOf
<1>3. m \in 1..n /\ m # k /\ k \in 1..n /\ m \in 2..n
  BY <1>2
<1>4. u(k) = v(m) /\ u(m) = v(k) /\ \A c \in 1..n : c # k /\ c # m => u(c) = v(c)
  BY <1>3 DEF Exchanged
<1>11. v(k) \in Nat /\ v(m) \in Nat
  <2> HIDE DEF v, n
  <2>1. QED
    BY <1>1, <1>3
<1>5. v(m) < v(k)
  <2>1. ~(v(k) <= v(m))
    BY DEF Before
  <2> HIDE DEF v, n
  <2>2. QED
    BY <1>11, <2>1
<1>6. \A c \in 2..n : HPARENT(c) # k => v(HPARENT(c)) <= v(c)
  BY DEF TooLate, Before
<1>7. k > 1 => v(HPARENT(k)) <= v(m)
  BY DEF TooLate, Before
<1>12. \A c \in 2..n : HPARENT(c) = k => v(m) <= v(c)
  BY DEF Before
<1> HIDE DEF u, v, n
<1>8. ASSUME NEW c \in 2..n, HPARENT(c) # m PROVE u(HPARENT(c)) <= u(c)
  <2>1. CASE c = m
    BY <2>1, <1>4, <1>5, <1>11
  <2>2. CASE c # m /\ HPARENT(c) = k
    BY <2>2, <1>2, <1>4, <1>12, <1>8
  <2>3. CASE c = k
    <3>1. HPARENT(k) \in 1..n /\ HPARENT(k) # k /\ k > 1
      BY <2>3, <1>1, <1>2
    <3>2. u(HPARENT(k)) = v(HPARENT(k)) /\ u(k) = v(m)
      BY <2>3, <1>4, <1>8, <3>1
    <3>3. QED
      BY <2>3, <3>1, <3>2, <1>7
  <2>4. CASE c # k /\ c # m /\ HPARENT(c) # k
    BY <2>4, <1>2, <1>4, <1>6, <1>8
  <2>5. QED
    BY <2>1, <2>2, <2>3, <2>4
<1>9. ASSUME NEW c \in 2..n, HPARENT(c) = m PROVE u(k) <= u(c)
  <2>1. HPARENT(c) # k /\ c # m
    BY <1>2, <1>3, <1>9
  <2>2. c # k
    <3>1. c > m /\ m > k
      BY <1>1, <1>3, <1>9, ParentsOf
    <3>2. QED
      BY <1>1, <1>3, <3>1
  <2>3. v(m) <= v(c) /\ u(c) = v(c) /\ u(k) = v(m)
    BY <2>1, <2>2, <1>2, <1>4, <1>6, <1>9
  <2>4. QED
    BY <2>3
<1>10. QED
  BY <1>8, <1>9 DEF TooLate, Before, u, n

\* The rounds of a loop, each of which has something of its own to keep.
LEMMA RoundsKeepEach ==
  ASSUME NEW T, NEW N \in Nat, NEW f, f[0] \in T[0],
         \A i \in 1..N : f[i - 1] \in T[i - 1] => f[i] \in T[i]
  PROVE  f[N] \in T[N]
<1> DEFINE Bad == {i \in 0..N : f[i] \notin T[i]}
<1>1. SUFFICES ASSUME Bad # {} PROVE FALSE
  OBVIOUS
<1>2. PICK m \in Bad : \A y \in Bad : m <= y
  <2>1. Bad \in SUBSET Nat
    OBVIOUS
  <2>2. QED
    BY <1>1, <2>1, MinOfNats
<1>3. m # 0 /\ m \in 1..N
  BY <1>2
<1>4. m - 1 \in 0..N /\ m - 1 \notin Bad
  BY <1>2, <1>3
<1>5. QED
  BY <1>2, <1>3, <1>4

Sifts(h) == [h : Seq(Timers), k : Nat]
UpStates(h, at) ==
    {x \in Sifts(h) : Shuffled(x.h, h) /\ x.k \in 1..Len(h) /\ TooEarly(x.h, x.k, at)}
DownStates(h, at) ==
    {x \in Sifts(h) : Shuffled(x.h, h) /\ x.k \in 1..Len(h) /\ TooLate(x.h, x.k, at)}

LEMMA UpRoundIs ==
  ASSUME NEW h \in Seq(Timers), NEW at \in [Timers -> Nat], NEW x \in UpStates(h, at)
  PROVE  /\ UpRound(x, at) \in UpStates(h, at)
         /\ UpRound(x, at) = x \/ UpRound(x, at).k < x.k
         /\ UpRound(x, at) = x => Ordered(x.h, at)
<1> DEFINE g == x.h
           k == x.k
           p == HPARENT(k)
           t == Swap(g, k, p)
           y == [h |-> t, k |-> p]
<1>1. /\ g \in Seq(Timers) /\ Len(g) = Len(h) /\ IsInjective(g) /\ ToSet(g) = ToSet(h)
      /\ k \in 1..Len(h) /\ TooEarly(g, k, at) /\ Len(h) \in Nat
  BY DEF UpStates, Shuffled
<1>2. UpRound(x, at) = IF k = 1 \/ Before(g, at, p, k) THEN x ELSE y
  BY DEF UpRound, Before
<1> HIDE DEF g, k, t
<1>3. CASE k = 1 \/ Before(g, at, p, k)
  <2>1. UpRound(x, at) = x
    BY <1>2, <1>3
  <2>2. \A c \in 2..Len(g) : c = k => Before(g, at, p, k)
    BY <1>1, <1>3
  <2>3. Ordered(g, at)
    BY <1>1, <2>2 DEF Ordered, TooEarly
  <2>4. QED
    BY <1>1, <2>1, <2>3 DEF g
<1>4. CASE ~(k = 1 \/ Before(g, at, p, k))
  <2>1. k \in 2..Len(g) /\ k \in 1..Len(g)
    BY <1>1, <1>4
  <2>2. p \in 1..Len(g) /\ p < k /\ p \in Nat
    BY <1>1, <2>1, ParentsOf
  <2>3. /\ t \in Seq(Timers) /\ Len(t) = Len(g) /\ IsInjective(t) /\ ToSet(t) = ToSet(g)
        /\ Exchanged(t, g, k, p)
    <3> HIDE DEF p
    <3>1. QED
      BY <1>1, <2>1, <2>2, SwapIs DEF t
  <2>4. TooEarly(t, p, at)
    BY <1>1, <1>4, <2>1, <2>3, SiftedUp
  <2>5. UpRound(x, at) = y
    BY <1>2, <1>4
  <2> HIDE DEF p
  <2>6. y \in Sifts(h) /\ y.h = t /\ y.k = p
    BY <2>2, <2>3 DEF Sifts
  <2> HIDE DEF y
  <2>7. y \in UpStates(h, at)
    BY <1>1, <2>2, <2>3, <2>4, <2>6 DEF UpStates, Shuffled
  <2>8. y.k < x.k /\ y # x
    BY <1>1, <2>2, <2>6 DEF k
  <2>9. QED
    BY <2>5, <2>7, <2>8
<1>5. QED
  BY <1>3, <1>4

IsUp(f, h, at, k) ==
    f = [n \in 0..Len(h) |-> IF n = 0 THEN [h |-> h, k |-> k] ELSE UpRound(f[n - 1], at)]

\* upheap makes a heap of one with an element that is too early for its place.
LEMMA UpheapIs ==
  ASSUME NEW h \in Seq(Timers), NEW at \in [Timers -> Nat], NEW k \in 1..Len(h),
         IsInjective(h), TooEarly(h, k, at)
  PROVE  Shuffled(upheap(h, at, k), h) /\ Ordered(upheap(h, at, k), at)
<1> DEFINE S == UpStates(h, at)
           N == Len(h)
           s == [h |-> h, k |-> k]
           F == [q \in S \X (1..N) |-> UpRound(q[1], at)]
<1>1. N \in Nat /\ k \in Nat
  OBVIOUS
<1>2. s \in S
  BY <1>1 DEF UpStates, Sifts, Shuffled
<1>3. \A x \in S : UpRound(x, at) \in S
  BY UpRoundIs
<1> HIDE DEF S
<1>4. F \in [S \X (1..N) -> S]
  BY <1>3, Zenon
<1>5. \A x \in S, i \in 1..N : F[<<x, i>>] = UpRound(x, at)
  OBVIOUS
<1> HIDE DEF F, s, N
<1>6. PICK f0 : Rounds(f0, S, s, N, F)
  BY <1>1, <1>2, <1>4, RoundsExist, Zenon
<1>7. \A i \in 0..N : i = 0 \/ (i \in 1..N /\ i - 1 \in 0..N)
  BY <1>1
<1>8. \A i \in 0..N : f0[i] = IF i = 0 THEN s ELSE UpRound(f0[i - 1], at)
  BY <1>5, <1>6, <1>7 DEF Rounds
<1>9. IsUp(f0, h, at, k)
  BY <1>6, <1>8 DEF Rounds, IsUp, N, s
<1>10. upheap(h, at, k) = (CHOOSE f : IsUp(f, h, at, k))[N].h
  BY Zenon DEF upheap, IsUp, N
<1>11. PICK f : IsUp(f, h, at, k) /\ upheap(h, at, k) = f[N].h
  BY <1>9, <1>10, Zenon
<1>12. \A i \in 0..N : f[i] = IF i = 0 THEN s ELSE UpRound(f[i - 1], at)
  BY <1>11 DEF IsUp, N, s
<1> DEFINE T == [i \in 0..N |-> {x \in S : x.k + i <= N \/ UpRound(x, at) = x}]
<1>13. \A x \in S : x.k \in 1..N
  BY DEF S, UpStates, N
<1>14. f[0] \in T[0]
  <2>1. f[0] = s /\ T[0] = {x \in S : x.k + 0 <= N \/ UpRound(x, at) = x}
    BY <1>1, <1>12
  <2>2. s.k + 0 <= N
    BY <1>1, <1>2, <1>13
  <2>3. QED
    BY <1>2, <2>1, <2>2
<1>15. ASSUME NEW i \in 1..N, f[i - 1] \in T[i - 1] PROVE f[i] \in T[i]
  <2> DEFINE x == f[i - 1]
  <2>1. f[i] = UpRound(x, at) /\ i - 1 \in 0..N /\ i \in 0..N
    BY <1>1, <1>12
  <2>2. x \in S /\ (x.k + (i - 1) <= N \/ UpRound(x, at) = x)
    BY <1>15, <2>1
  <2>3. T[i] = {z \in S : z.k + i <= N \/ UpRound(z, at) = z}
    BY <2>1
  <2> HIDE DEF T, x
  <2>4. CASE UpRound(x, at) = x
    BY <2>1, <2>2, <2>3, <2>4
  <2>5. CASE UpRound(x, at) # x
    <3>1. UpRound(x, at) \in S /\ UpRound(x, at).k < x.k
      BY <2>2, <2>5, UpRoundIs DEF S
    <3>2. UpRound(x, at).k + i <= N
      <4>1. UpRound(x, at).k \in 1..N /\ x.k \in 1..N /\ x.k + (i - 1) <= N
        BY <1>13, <2>2, <2>5, <3>1
      <4> DEFINE a == UpRound(x, at).k
                 b == x.k
      <4>2. a \in 1..N /\ b \in 1..N /\ b + (i - 1) <= N /\ a < b
        BY <3>1, <4>1
      <4> HIDE DEF a, b
      <4>3. a + i <= N
        BY <1>1, <4>2
      <4>4. QED
        BY <4>3 DEF a
    <3>3. QED
      BY <2>1, <2>3, <3>1, <3>2
  <2>6. QED
    BY <2>4, <2>5
<1>16. f[N] \in T[N]
  <2> HIDE DEF T
  <2>1. QED
    BY <1>1, <1>14, <1>15, RoundsKeepEach
<1>17. f[N] \in S /\ UpRound(f[N], at) = f[N]
  <2>1. f[N] \in S /\ (f[N].k + N <= N \/ UpRound(f[N], at) = f[N])
    BY <1>1, <1>16
  <2>2. QED
    BY <1>1, <1>13, <2>1
<1>18. Ordered(f[N].h, at)
  BY <1>17, UpRoundIs DEF S
<1>19. Shuffled(f[N].h, h)
  BY <1>17 DEF S, UpStates
<1>20. QED
  BY <1>11, <1>18, <1>19

LEMMA DownRoundIs ==
  ASSUME NEW h \in Seq(Timers), NEW at \in [Timers -> Nat], NEW x \in DownStates(h, at)
  PROVE  /\ DownRound(x, at) \in DownStates(h, at)
         /\ DownRound(x, at) = x \/ DownRound(x, at).k > x.k
         /\ DownRound(x, at) = x => Ordered(x.h, at)
<1> DEFINE g == x.h
           k == x.k
           K == Kids(Len(g), k)
           m == MinPos(g, at, k)
           t == Swap(g, k, m)
           y == [h |-> t, k |-> m]
<1>1. /\ g \in Seq(Timers) /\ Len(g) = Len(h) /\ IsInjective(g) /\ ToSet(g) = ToSet(h)
      /\ k \in 1..Len(h) /\ TooLate(g, k, at) /\ Len(h) \in Nat
  BY DEF DownStates, Shuffled
<1>2. DownRound(x, at) = IF K = {} THEN x ELSE IF Before(g, at, k, m) THEN x ELSE y
  BY DEF DownRound, Before
<1>3. k \in 1..Len(g) /\ k \in Nat /\ k >= 1
  BY <1>1
<1>4. K = {c \in 2..Len(g) : HPARENT(c) = k}
  <2> HIDE DEF g, k
  <2>1. QED
    BY <1>1, <1>3, KidsAre
<1>5. K # {} => /\ m \in 2..Len(g) /\ HPARENT(m) = k
                /\ \A d \in 2..Len(g) : HPARENT(d) = k => Before(g, at, m, d)
  <2> HIDE DEF g, k
  <2>1. QED
    BY <1>1, <1>3, MinPosIs
<1> HIDE DEF g, k, t, K, m
<1>6. CASE K = {} \/ Before(g, at, k, m)
  <2>1. DownRound(x, at) = x
    BY <1>2, <1>6
  <2>2. ASSUME NEW c \in 2..Len(g), HPARENT(c) = k PROVE Before(g, at, k, c)
    <3>1. K # {} /\ Before(g, at, k, m) /\ Before(g, at, m, c)
      BY <1>4, <1>5, <1>6, <2>2
    <3>5. m \in 2..Len(g) /\ Len(g) \in Nat
      BY <1>1, <1>5, <3>1
    <3>2. m \in 1..Len(g) /\ c \in 1..Len(g)
      BY <3>5
    <3>6. \A i \in 1..Len(g) : at[g[i]] \in Nat
      BY <1>1, TimesOf
    <3>3. at[g[k]] \in Nat /\ at[g[m]] \in Nat /\ at[g[c]] \in Nat
      BY <1>3, <3>2, <3>6
    <3>7. at[g[k]] <= at[g[m]] /\ at[g[m]] <= at[g[c]]
      BY <3>1 DEF Before
    <3> DEFINE a == at[g[k]]
               b == at[g[m]]
               d == at[g[c]]
    <3>9. a \in Nat /\ b \in Nat /\ d \in Nat /\ a <= b /\ b <= d
      BY <3>3, <3>7, Zenon
    <3> HIDE DEF a, b, d
    <3>4. a <= d
      BY <3>9
    <3>8. QED
      BY <3>4 DEF Before, a, d
  <2>3. Ordered(g, at)
    BY <1>1, <2>2 DEF Ordered, TooLate
  <2>4. QED
    BY <1>1, <2>1, <2>3 DEF g
<1>7. CASE K # {} /\ ~Before(g, at, k, m)
  <2>2. m \in 2..Len(g) /\ HPARENT(m) = k /\ Len(g) \in Nat
    BY <1>1, <1>5, <1>7
  <2>1. m \in 1..Len(g) /\ m > k /\ m \in Nat
    BY <2>2, ParentsOf
  <2>3. /\ t \in Seq(Timers) /\ Len(t) = Len(g) /\ IsInjective(t) /\ ToSet(t) = ToSet(g)
        /\ Exchanged(t, g, k, m)
    BY <1>1, <1>3, <2>1, SwapIs DEF t
  <2>4. TooLate(t, m, at)
    BY <1>1, <1>3, <1>5, <1>7, <2>3, SiftedDown
  <2>5. DownRound(x, at) = y
    BY <1>2, <1>7
  <2>6. y \in Sifts(h) /\ y.h = t /\ y.k = m
    BY <2>1, <2>3 DEF Sifts
  <2> HIDE DEF y
  <2>7. y \in DownStates(h, at)
    BY <1>1, <2>1, <2>3, <2>4, <2>6 DEF DownStates, Shuffled
  <2>8. y.k > x.k /\ y # x
    BY <1>3, <2>1, <2>6 DEF k
  <2>9. QED
    BY <2>5, <2>7, <2>8
<1>8. QED
  BY <1>6, <1>7

IsDown(f, h, at, k) ==
    f = [n \in 0..Len(h) |-> IF n = 0 THEN [h |-> h, k |-> k] ELSE DownRound(f[n - 1], at)]

\* downheap makes a heap of one with an element that is too late for its place.
LEMMA DownheapIs ==
  ASSUME NEW h \in Seq(Timers), NEW at \in [Timers -> Nat], NEW k \in 1..Len(h),
         IsInjective(h), TooLate(h, k, at)
  PROVE  Shuffled(downheap(h, at, k), h) /\ Ordered(downheap(h, at, k), at)
<1> DEFINE S == DownStates(h, at)
           N == Len(h)
           s == [h |-> h, k |-> k]
           F == [q \in S \X (1..N) |-> DownRound(q[1], at)]
<1>1. N \in Nat /\ k \in Nat
  OBVIOUS
<1>2. s \in S
  BY <1>1 DEF DownStates, Sifts, Shuffled
<1>3. \A x \in S : DownRound(x, at) \in S
  BY DownRoundIs
<1> HIDE DEF S
<1>4. F \in [S \X (1..N) -> S]
  BY <1>3, Zenon
<1>5. \A x \in S, i \in 1..N : F[<<x, i>>] = DownRound(x, at)
  OBVIOUS
<1> HIDE DEF F, s, N
<1>6. PICK f0 : Rounds(f0, S, s, N, F)
  BY <1>1, <1>2, <1>4, RoundsExist, Zenon
<1>7. \A i \in 0..N : i = 0 \/ (i \in 1..N /\ i - 1 \in 0..N)
  BY <1>1
<1>8. \A i \in 0..N : f0[i] = IF i = 0 THEN s ELSE DownRound(f0[i - 1], at)
  BY <1>5, <1>6, <1>7 DEF Rounds
<1>9. IsDown(f0, h, at, k)
  BY <1>6, <1>8 DEF Rounds, IsDown, N, s
<1>10. downheap(h, at, k) = (CHOOSE f : IsDown(f, h, at, k))[N].h
  BY Zenon DEF downheap, IsDown, N
<1>11. PICK f : IsDown(f, h, at, k) /\ downheap(h, at, k) = f[N].h
  BY <1>9, <1>10, Zenon
<1>12. \A i \in 0..N : f[i] = IF i = 0 THEN s ELSE DownRound(f[i - 1], at)
  BY <1>11 DEF IsDown, N, s
<1> DEFINE T == [i \in 0..N |-> {x \in S : x.k > i \/ DownRound(x, at) = x}]
<1>13. \A x \in S : x.k \in 1..N
  BY DEF S, DownStates, N
<1>14. f[0] \in T[0]
  <2>1. f[0] = s /\ T[0] = {x \in S : x.k > 0 \/ DownRound(x, at) = x}
    BY <1>1, <1>12
  <2>2. s.k > 0
    BY <1>1, <1>2, <1>13
  <2>3. QED
    BY <1>2, <2>1, <2>2
<1>15. ASSUME NEW i \in 1..N, f[i - 1] \in T[i - 1] PROVE f[i] \in T[i]
  <2> DEFINE x == f[i - 1]
  <2>1. f[i] = DownRound(x, at) /\ i - 1 \in 0..N /\ i \in 0..N
    BY <1>1, <1>12
  <2>2. x \in S /\ (x.k > i - 1 \/ DownRound(x, at) = x)
    BY <1>15, <2>1
  <2>3. T[i] = {z \in S : z.k > i \/ DownRound(z, at) = z}
    BY <2>1
  <2> HIDE DEF T, x
  <2>4. CASE DownRound(x, at) = x
    BY <2>1, <2>2, <2>3, <2>4
  <2>5. CASE DownRound(x, at) # x
    <3>1. DownRound(x, at) \in S /\ DownRound(x, at).k > x.k
      BY <2>2, <2>5, DownRoundIs DEF S
    <3>2. DownRound(x, at).k > i
      <4>1. DownRound(x, at).k \in 1..N /\ x.k \in 1..N /\ x.k > i - 1
        BY <1>13, <2>2, <2>5, <3>1
      <4> DEFINE a == DownRound(x, at).k
                 b == x.k
      <4>2. a \in 1..N /\ b \in 1..N /\ b > i - 1 /\ a > b
        BY <3>1, <4>1
      <4> HIDE DEF a, b
      <4>3. a > i
        BY <1>1, <4>2
      <4>4. QED
        BY <4>3 DEF a
    <3>3. QED
      BY <2>1, <2>3, <3>1, <3>2
  <2>6. QED
    BY <2>4, <2>5
<1>16. f[N] \in T[N]
  <2> HIDE DEF T
  <2>1. QED
    BY <1>1, <1>14, <1>15, RoundsKeepEach
<1>17. f[N] \in S /\ DownRound(f[N], at) = f[N]
  <2>1. f[N] \in S /\ (f[N].k > N \/ DownRound(f[N], at) = f[N])
    BY <1>1, <1>16
  <2>2. QED
    BY <1>1, <1>13, <2>1
<1>18. Ordered(f[N].h, at)
  BY <1>17, DownRoundIs DEF S
<1>19. Shuffled(f[N].h, h)
  BY <1>17 DEF S, DownStates
<1>20. QED
  BY <1>11, <1>18, <1>19

\* The order depends on the times of the elements only.
LEMMA OrderedSame ==
  ASSUME NEW h \in Seq(Timers), NEW at, NEW bt, \A t \in ToSet(h) : at[t] = bt[t], Ordered(h, at)
  PROVE  Ordered(h, bt)
<1>1. Len(h) \in Nat /\ DOMAIN h = 1..Len(h)
  OBVIOUS
<1>2. \A i \in 1..Len(h) : at[h[i]] = bt[h[i]]
  BY <1>1 DEF ToSet
<1>3. \A c \in 2..Len(h) : HPARENT(c) \in 1..Len(h) /\ c \in 1..Len(h)
  BY <1>1, ParentsOf
<1>4. QED
  BY <1>2, <1>3 DEF Ordered, Before

\* A heap from which an element was removed by putting the last in its place.
LEMMA AdjustheapIs ==
  ASSUME NEW g \in Seq(Timers), NEW at \in [Timers -> Nat], IsInjective(g), Ordered(g, at),
         NEW k \in 1..Len(g), k < Len(g), NEW h \in Seq(Timers), IsInjective(h), Swapped(h, g, k)
  PROVE  Shuffled(adjustheap(h, at, k), h) /\ Ordered(adjustheap(h, at, k), at)
<1> DEFINE n == Len(h)
           v(c) == at[g[c]]
           u(c) == at[h[c]]
<1>1. n \in Nat /\ Len(g) = n + 1 /\ k \in 1..n
  <2>1. Len(h) = Len(g) - 1
    BY Zenon DEF Swapped
  <2>2. Len(h) \in Nat /\ Len(g) \in Nat
    OBVIOUS
  <2>3. QED
    BY <2>1, <2>2
<1>2. \A c \in 1..n : c # k => u(c) = v(c)
  BY <1>1 DEF Swapped
<1>3. (\A c \in 1..n : u(c) \in Nat) /\ (\A c \in 1..n : v(c) \in Nat)
  <2>1. \A c \in 1..n : c \in 1..Len(g)
    BY <1>1
  <2>2. QED
    BY <2>1, TimesOf
<1>4. \A c \in 2..n : HPARENT(c) \in 1..n /\ HPARENT(c) < c /\ HPARENT(c) # c /\ c \in 1..n
  BY <1>1, ParentsOf
<1>5. \A c \in 2..n : v(HPARENT(c)) <= v(c)
  <2>1. \A c \in 2..n : c \in 2..Len(g)
    BY <1>1
  <2>2. QED
    BY <2>1 DEF Ordered, Before
<1>6. adjustheap(h, at, k)
        = IF k > 1 /\ u(k) <= u(HPARENT(k)) THEN upheap(h, at, k) ELSE downheap(h, at, k)
  BY DEF adjustheap
<1>7. \A a, b : Before(h, at, a, b) <=> u(a) <= u(b)
  BY DEF Before
<1> HIDE DEF u, v, n
<1>8. ASSUME k > 1 PROVE u(HPARENT(k)) = v(HPARENT(k)) /\ HPARENT(k) \in 1..n /\ k \in 2..n
  <2>1. k \in 2..n
    BY <1>1, <1>8
  <2>2. QED
    BY <1>2, <1>4, <2>1
<1>9. ASSUME k > 1, NEW c \in 2..n, HPARENT(c) = k PROVE u(HPARENT(k)) <= u(c)
  <2>1. c # k /\ c \in 1..n /\ u(c) = v(c)
    BY <1>2, <1>4, <1>9
  <2>2. v(HPARENT(k)) <= v(k) /\ v(k) <= v(c)
    BY <1>5, <1>8, <1>9
  <2>3. v(HPARENT(k)) \in Nat /\ v(k) \in Nat /\ v(c) \in Nat
    BY <1>1, <1>3, <1>8, <1>9, <2>1
  <2> DEFINE a == v(HPARENT(k))
             b == v(k)
             d == v(c)
  <2>4. a \in Nat /\ b \in Nat /\ d \in Nat /\ a <= b /\ b <= d /\ u(HPARENT(k)) = a /\ u(c) = d
    BY <1>8, <1>9, <2>1, <2>2, <2>3
  <2> HIDE DEF a, b, d
  <2>5. QED
    BY <2>4
<1>10. CASE k > 1 /\ u(k) <= u(HPARENT(k))
  <2>1. ASSUME NEW c \in 2..n, c # k PROVE u(HPARENT(c)) <= u(c)
    <3>1. CASE HPARENT(c) = k
      <4> DEFINE a == u(k)
                 b == u(HPARENT(k))
                 d == u(c)
      <4>1. a \in Nat /\ b \in Nat /\ d \in Nat
        BY <1>1, <1>3, <1>4, <1>8, <1>10
      <4>2. a <= b /\ b <= d
        BY <1>9, <1>10, <3>1
      <4> HIDE DEF a, b, d
      <4>3. a <= d
        BY <4>1, <4>2
      <4>4. QED
        BY <3>1, <4>3 DEF a, d
    <3>2. CASE HPARENT(c) # k
      BY <1>2, <1>4, <1>5, <2>1, <3>2
    <3>3. QED
      BY <3>1, <3>2
  <2>2. TooEarly(h, k, at)
    BY <1>7, <1>9, <2>1 DEF TooEarly, n
  <2>3. QED
    BY <1>1, <1>6, <1>10, <2>2, UpheapIs DEF n
<1>11. CASE ~(k > 1 /\ u(k) <= u(HPARENT(k)))
  <2>1. ASSUME NEW c \in 2..n, HPARENT(c) # k PROVE u(HPARENT(c)) <= u(c)
    <3>1. CASE c = k
      <4>1. k > 1
        BY <3>1, <1>1
      <4> DEFINE a == u(k)
                 b == u(HPARENT(k))
      <4>2. a \in Nat /\ b \in Nat /\ ~(a <= b)
        BY <1>1, <1>3, <1>8, <1>11, <4>1
      <4> HIDE DEF a, b
      <4>3. b <= a
        BY <4>2
      <4>4. QED
        BY <3>1, <4>3 DEF a, b
    <3>2. CASE c # k
      BY <1>2, <1>4, <1>5, <2>1, <3>2
    <3>3. QED
      BY <3>1, <3>2
  <2>2. TooLate(h, k, at)
    BY <1>7, <1>9, <2>1 DEF TooLate, n
  <2>3. QED
    BY <1>1, <1>6, <1>11, <2>2, DownheapIs DEF n
<1>12. QED
  BY <1>10, <1>11

WithTimers(e, heap, at) == [e EXCEPT !.heap = heap, !.at = at]

\* x is e but for the timers.
SameButTimers(x, e) ==
    /\ x.active = e.active /\ x.cnt = e.cnt /\ x.pend = e.pend /\ x.idx = e.idx
    /\ x.fd = e.fd /\ x.changes = e.changes /\ x.eperms = e.eperms /\ x.now = e.now
    /\ x.asyncs = e.asyncs /\ x.postfork = e.postfork

LEMMA WithTimersIs ==
  ASSUME NEW e \in Loops, NEW heap \in Seq(Timers), NEW at \in [Timers -> Nat]
  PROVE  LET x == WithTimers(e, heap, at)
         IN  x \in Loops /\ SameButTimers(x, e) /\ x.heap = heap /\ x.at = at
BY DEF WithTimers, Loops, SameButTimers

LEMMA HeapedIs ==
  ASSUME NEW e \in Loops
  PROVE  Heaped(e) <=> Ordered(e.heap, e.at)
<1> DEFINE h == e.heap
<1>1. h \in Seq(Timers)
  BY LoopFields
<1>2. Heaped(e) <=> \A k \in DOMAIN h : \A c \in Kids(Len(h), k) : e.at[h[k]] <= e.at[h[c]]
  BY Zenon DEF Heaped
<1> HIDE DEF h
<1>3. Len(h) \in Nat /\ DOMAIN h = 1..Len(h)
  BY <1>1
<1>4. QED
  BY <1>2, <1>3, OrderedIs DEF h

LEMMA TimerStartIs ==
  ASSUME NEW e \in Loops, LoopInv(e), NEW w \in Timers, w \notin e.active
  PROVE  LET x == ev_timer_start(e, w)
         IN  /\ x \in Loops /\ LoopInv(x) /\ SameKernelSide(x, e) /\ x.pend = e.pend
             /\ x.idx = e.idx /\ x.active = e.active \cup {w}
<1> DEFINE y == ev_start(e, w)
           g == e.heap
           h == Append(g, w)
           n == Len(h)
           at == [e.at EXCEPT ![w] = e.now + Delay[w]]
           r == upheap(h, at, n)
           x == ev_timer_start(e, w)
<1>1. y \in Loops /\ Counted(y) /\ SameBut(y, e) /\ y.active = e.active \cup {w}
  BY StartIs, Kinds DEF LoopInv
<1>2. x = WithTimers(y, r, at)
  BY DEF ev_timer_start, WithTimers
<1> HIDE DEF y
<1>3. g \in Seq(Timers) /\ IsInjective(g) /\ w \notin ToSet(g) /\ ToSet(g) = e.active \cap Timers
  BY LoopFields DEF LoopInv, TimersListed
<1>4. Delay[w] \in Nat /\ e.now \in Nat /\ e.at \in [Timers -> Nat]
  BY LoopFields, LoopAssumption
<1>5. at \in [Timers -> Nat] /\ \A t \in Timers : t # w => at[t] = e.at[t]
  BY <1>4
<1>6. Ordered(g, e.at)
  BY HeapedIs DEF LoopInv
<1> HIDE DEF at, g
<1>7. h \in Seq(Timers) /\ IsInjective(h) /\ ToSet(h) = ToSet(g) \cup {w}
  BY <1>3, AppendNew
<1>8. /\ n \in Nat /\ Len(g) \in Nat /\ n = Len(g) + 1 /\ n \in 1..n /\ DOMAIN g = 1..Len(g)
      /\ \A j \in 1..Len(g) : h[j] = g[j]
  BY <1>3
<1>9. Ordered(g, at)
  <2>1. \A t \in ToSet(g) : e.at[t] = at[t]
    BY <1>3, <1>5
  <2>2. QED
    BY <1>3, <1>6, <2>1, OrderedSame
<1> HIDE DEF h
<1>10. TooEarly(h, n, at)
  <2>1. \A c \in 2..n : HPARENT(c) \in 1..n /\ HPARENT(c) < c
    BY <1>8, ParentsOf
  <2>2. ASSUME NEW c \in 2..n, c # n PROVE Before(h, at, HPARENT(c), c)
    <3>1. c \in 2..Len(g) /\ c \in 1..Len(g) /\ HPARENT(c) \in 1..Len(g)
      BY <1>8, <2>1, <2>2
    <3>2. Before(g, at, HPARENT(c), c)
      BY <1>9, <3>1 DEF Ordered
    <3>3. QED
      BY <1>8, <3>1, <3>2 DEF Before
  <2>3. \A c \in 2..n : HPARENT(c) # n
    BY <1>8, <2>1
  <2>4. QED
    BY <2>2, <2>3 DEF TooEarly
<1>11. Shuffled(r, h) /\ Ordered(r, at)
  BY <1>5, <1>7, <1>8, <1>10, UpheapIs
<1> HIDE DEF r
<1>12. r \in Seq(Timers) /\ IsInjective(r) /\ ToSet(r) = (e.active \cap Timers) \cup {w}
  BY <1>3, <1>7, <1>11 DEF Shuffled
<1>13. x \in Loops /\ SameButTimers(x, y) /\ x.heap = r /\ x.at = at
  BY <1>1, <1>2, <1>5, <1>12, WithTimersIs
<1> HIDE DEF x
<1>14. x.active = e.active \cup {w} /\ x.active \cap Timers = (e.active \cap Timers) \cup {w}
       /\ x.active \cap Ios = e.active \cap Ios /\ x.active \cap Asyncs = e.active \cap Asyncs
  BY <1>1, <1>13, Kinds DEF SameButTimers
<1>15. TimersListed(x)
  BY <1>12, <1>13, <1>14 DEF TimersListed
<1>16. Heaped(x)
  BY <1>11, <1>13, HeapedIs
<1>17. Counted(x)
  BY <1>1, <1>13 DEF Counted, SameButTimers
<1>18. /\ x.pend = e.pend /\ x.idx = e.idx /\ x.fd = e.fd /\ x.changes = e.changes
       /\ x.eperms = e.eperms /\ x.asyncs = e.asyncs
  BY <1>1, <1>13 DEF SameButTimers, SameBut
<1>19. LoopInv(x)
  BY <1>14, <1>15, <1>16, <1>17, <1>18, KeepExact, KeepIos, KeepAsyncs, KeepFds, Zenon DEF LoopInv
<1>20. SameKernelSide(x, e)
  BY <1>1, <1>13 DEF SameKernelSide, SameButTimers, SameBut
<1>21. QED
  BY <1>13, <1>14, <1>18, <1>19, <1>20 DEF x

LEMMA FrontIs ==
  ASSUME NEW S, NEW g \in Seq(S), Len(g) > 0
  PROVE  /\ Front(g) \in Seq(S) /\ Len(Front(g)) = Len(g) - 1
         /\ \A j \in 1..(Len(g) - 1) : Front(g)[j] = g[j]
<1> DEFINE n == Len(g) - 1
           t == SubSeq(g, 1, n)
<1>1. n \in Nat /\ n \in Int /\ 1 \in Int /\ \A i \in 1..n : g[i] \in S
  OBVIOUS
<1>2. Front(g) = t
  BY DEF Front
<1> HIDE DEF n
<1>3. t \in Seq(S) /\ Len(t) = (IF 1 <= n THEN n - 1 + 1 ELSE 0) /\ \A i \in 1..(n - 1 + 1) : t[i] = g[1 + i - 1]
  BY <1>1, SubSeqProperties
<1> HIDE DEF t
<1>4. Len(t) = n /\ \A i \in 1..n : t[i] = g[i]
  <2>1. n - 1 + 1 = n /\ \A i \in 1..n : 1 + i - 1 = i
    BY <1>1
  <2>2. QED
    BY <1>1, <1>3, <2>1
<1>5. QED
  BY <1>2, <1>3, <1>4 DEF n

\* Putting the last in the place of the one that is removed.
LEMMA SwappedOut ==
  ASSUME NEW S, NEW g \in Seq(S), NEW k \in 1..Len(g)
  PROVE  LET h == IF k < Len(g) THEN [Front(g) EXCEPT ![k] = Last(g)] ELSE Front(g)
         IN  h \in Seq(S) /\ Swapped(h, g, k) /\ Len(h) = Len(g) - 1
<1> DEFINE f == Front(g)
           l == Last(g)
           h == IF k < Len(g) THEN [f EXCEPT ![k] = l] ELSE f
<1>1. Len(g) \in Nat /\ Len(g) > 0 /\ Len(g) \in 1..Len(g)
  OBVIOUS
<1>2. l = g[Len(g)] /\ l \in S
  BY <1>1 DEF Last
<1>3. f \in Seq(S) /\ Len(f) = Len(g) - 1 /\ \A j \in 1..(Len(g) - 1) : f[j] = g[j]
  BY <1>1, FrontIs
<1> HIDE DEF f, l
<1>4. CASE k < Len(g)
  <2>1. k \in 1..Len(f)
    BY <1>1, <1>3, <1>4
  <2> DEFINE t == [f EXCEPT ![k] = l]
  <2>2. /\ t \in Seq(S) /\ Len(t) = Len(f)
        /\ \A j \in 1..Len(f) : t[j] = IF j = k THEN l ELSE f[j]
    BY <1>2, <1>3, <2>1, ExceptSeq
  <2> HIDE DEF t
  <2>3. h = t
    BY <1>4 DEF t
  <2> HIDE DEF h
  <2>4. QED
    BY <1>1, <1>2, <1>3, <2>2, <2>3 DEF Swapped, h, f, l
<1>5. CASE ~(k < Len(g))
  <2>1. h = f
    BY <1>5
  <2>2. \A j \in 1..(Len(g) - 1) : j # k
    BY <1>1, <1>5
  <2> HIDE DEF h
  <2>3. QED
    BY <1>1, <1>3, <2>1, <2>2 DEF Swapped, h, f, l
<1>6. QED
  BY <1>4, <1>5

LEMMA TimerStopIs ==
  ASSUME NEW e \in Loops, LoopInv(e), NEW w \in Timers
  PROVE  Stopped(ev_timer_stop(e, w), e, w) /\ SameKernelSide(ev_timer_stop(e, w), e)
<1> DEFINE c == clear_pending(e, w)
           y == ev_stop(c, w)
           g == e.heap
           k == CHOOSE j \in DOMAIN g : g[j] = w
           h == IF k < Len(g) THEN [Front(g) EXCEPT ![k] = Last(g)] ELSE Front(g)
           r == IF k > Len(h) THEN h ELSE adjustheap(h, e.at, k)
           at == [e.at EXCEPT ![w] = 0]
           x == ev_timer_stop(e, w)
<1>1. w \in Watchers /\ w \in All
  BY Kinds, Names
<1>2. /\ c \in Loops /\ LoopInv(c) /\ SameLists(c, e)
      /\ c.idx[w] = 0 /\ \A v \in All \ {w} : c.idx[v] = e.idx[v]
      /\ NoPending(e) => NoPending(c)
  BY <1>1, ClearedIs
<1>4. CASE w \notin e.active
  <2>1. x = c
    BY <1>4 DEF ev_timer_stop
  <2>2. e.active = e.active \ {w}
    BY <1>4
  <2> HIDE DEF c, x
  <2>3. QED
    BY <1>2, <1>4, <2>1, <2>2 DEF Stopped, SameKernelSide, SameLists, x
<1>5. CASE w \in e.active
  <2>1. x = [y EXCEPT !.at[w] = 0, !.heap = r] /\ w \in c.active
    BY <1>2, <1>5, Zenon DEF ev_timer_stop, SameLists
  <2> HIDE DEF c
  <2>2. y \in Loops /\ Counted(y) /\ SameBut(y, c) /\ y.active = c.active \ {w}
    BY <1>1, <1>2, <2>1, StopIs DEF LoopInv
  <2> HIDE DEF y
  <2>3. y.heap = g /\ y.at = e.at /\ y.at \in [Timers -> Nat]
    BY <1>2, <2>2, LoopFields DEF SameBut, SameLists
  <2>4. x = WithTimers(y, r, at)
    <3> HIDE DEF r
    <3>1. [y EXCEPT !.at[w] = 0, !.heap = r] = [y EXCEPT !.heap = r, !.at = [y.at EXCEPT ![w] = 0]]
      BY <2>2 DEF Loops
    <3>2. QED
      BY <2>1, <2>3, <3>1 DEF WithTimers
  <2>5. g \in Seq(Timers) /\ IsInjective(g) /\ ToSet(g) = e.active \cap Timers /\ Ordered(g, e.at)
    BY HeapedIs, LoopFields DEF LoopInv, TimersListed
  <2>6. at \in [Timers -> Nat] /\ e.at \in [Timers -> Nat] /\ \A t \in Timers : t # w => at[t] = e.at[t]
    BY <2>3
  <2> HIDE DEF at
  <2>7. k \in DOMAIN g /\ g[k] = w
    <3>1. \E j \in DOMAIN g : g[j] = w
      BY <1>5, <2>5 DEF ToSet
    <3>2. QED
      BY <3>1
  <2>8. h \in Seq(Timers) /\ Swapped(h, g, k) /\ k \in 1..Len(g) /\ Len(g) \in Nat /\ Len(h) = Len(g) - 1
    <3> HIDE DEF g, k
    <3>1. k \in 1..Len(g) /\ Len(g) \in Nat
      BY <2>5, <2>7
    <3>2. QED
      BY <2>5, <3>1, SwappedOut
  <2> HIDE DEF g, k, h
  <2>9. IsInjective(h) /\ ToSet(h) = ToSet(g) \ {w}
    BY <2>5, <2>7, <2>8, SwapOut
  <2>10. Shuffled(r, h) /\ Ordered(r, e.at)
    <3>1. CASE k < Len(g)
      <4>1. r = adjustheap(h, e.at, k)
        BY <2>8, <3>1
      <4> DEFINE bt == e.at
      <4>2. bt \in [Timers -> Nat] /\ Ordered(g, bt)
        BY <2>5, <2>6
      <4> HIDE DEF bt
      <4>3. Shuffled(adjustheap(h, bt, k), h) /\ Ordered(adjustheap(h, bt, k), bt)
        BY <2>5, <2>8, <2>9, <3>1, <4>2, AdjustheapIs
      <4>4. QED
        BY <4>1, <4>3 DEF bt
    <3>2. CASE ~(k < Len(g))
      <4>1. k > Len(h)
        BY <2>8, <3>2
      <4>2. r = h
        BY <4>1
      <4>3. \A j \in 1..Len(h) : h[j] = g[j]
        BY <2>8, <3>2 DEF Swapped
      <4>7. Len(h) \in Nat /\ Len(h) = Len(g) - 1 /\ Len(g) \in Nat
        BY <2>8
      <4>8. \A j \in 2..Len(h) : HPARENT(j) \in 1..Len(h)
        BY <4>7, ParentsOf
      <4>4. \A j \in 2..Len(h) : HPARENT(j) \in 1..Len(h) /\ j \in 1..Len(h) /\ j \in 2..Len(g)
        BY <4>7, <4>8
      <4>5. Ordered(h, e.at)
        BY <2>5, <4>3, <4>4 DEF Ordered, Before
      <4>6. QED
        BY <2>8, <2>9, <4>2, <4>5 DEF Shuffled
    <3>3. QED
      BY <3>1, <3>2
  <2> HIDE DEF r
  <2>11. r \in Seq(Timers) /\ IsInjective(r) /\ ToSet(r) = (e.active \cap Timers) \ {w}
    BY <2>5, <2>9, <2>10 DEF Shuffled
  <2>12. Ordered(r, at)
    <3>1. \A t \in ToSet(r) : e.at[t] = at[t]
      BY <2>6, <2>11
    <3>2. QED
      BY <2>10, <2>11, <3>1, OrderedSame
  <2>13. x \in Loops /\ SameButTimers(x, y) /\ x.heap = r /\ x.at = at
    BY <2>2, <2>4, <2>6, <2>11, WithTimersIs
  <2> HIDE DEF x
  <2>14. x.active = e.active \ {w} /\ x.active \cap Timers = (e.active \cap Timers) \ {w}
         /\ x.active \cap Ios = e.active \cap Ios /\ x.active \cap Asyncs = e.active \cap Asyncs
    BY <1>2, <2>2, <2>13, Kinds DEF SameButTimers, SameLists
  <2>15. TimersListed(x)
    BY <2>11, <2>13, <2>14 DEF TimersListed
  <2>16. Heaped(x)
    BY <2>12, <2>13, HeapedIs
  <2>17. Counted(x)
    BY <2>2, <2>13 DEF Counted, SameButTimers
  <2>18. /\ x.pend = c.pend /\ x.idx = c.idx /\ x.fd = e.fd /\ x.changes = e.changes
         /\ x.eperms = e.eperms /\ x.asyncs = e.asyncs
    BY <1>2, <2>2, <2>13 DEF SameButTimers, SameBut, SameLists
  <2>19. Exact(x)
    BY <1>2, <2>18, KeepExact DEF LoopInv
  <2>20. LoopInv(x)
    BY <2>14, <2>15, <2>16, <2>17, <2>18, <2>19, KeepIos, KeepAsyncs, KeepFds, Zenon DEF LoopInv
  <2>21. SameKernelSide(x, e)
    BY <1>2, <2>2, <2>13 DEF SameKernelSide, SameButTimers, SameBut, SameLists
  <2>22. NoPending(e) => NoPending(x)
    BY <1>2, <2>18 DEF NoPending
  <2>23. QED
    BY <1>2, <2>13, <2>14, <2>18, <2>20, <2>21, <2>22 DEF Stopped, x
<1>6. QED
  BY <1>4, <1>5

----------------------------------------------------------------------------
(* Timers that are due *)

\* x: the loop after some rounds of timers_reify, and the timers taken.
Taken(x, e) ==
    /\ x.e \in Loops /\ LoopInv(x.e) /\ SameKernelSide(x.e, e)
    /\ x.e.active \subseteq e.active /\ x.e.active \ Timers = e.active \ Timers
    /\ \A v \in All : v \notin Timers \/ v \notin e.active => x.e.idx[v] = e.idx[v]
    /\ x.ts \in Seq(Timers) /\ \A i \in 1..Len(x.ts) : x.ts[i] \in e.active

LEMMA TimerRoundIs ==
  ASSUME NEW e \in Loops, NEW x \in [e : Loops, ts : Seq(Timers)], Taken(x, e)
  PROVE  TimerRound(x) \in [e : Loops, ts : Seq(Timers)] /\ Taken(TimerRound(x), e)
<1> DEFINE y == x.e
           t == Head(y.heap)
           z == ev_timer_stop(y, t)
           r == <<t>> \o x.ts
           n == [e |-> z, ts |-> r]
<1>1. TimerRound(x) = IF y.heap = <<>> \/ y.at[t] >= y.now THEN x ELSE n
  BY DEF TimerRound
<1>2. CASE y.heap = <<>> \/ y.at[t] >= y.now
  BY <1>1, <1>2
<1>3. CASE ~(y.heap = <<>> \/ y.at[t] >= y.now)
  <2>1. y \in Loops /\ LoopInv(y)
    BY DEF Taken
  <2>2. y.heap \in Seq(Timers) /\ ToSet(y.heap) = y.active \cap Timers /\ y.heap # <<>>
    BY <1>3, <2>1, LoopFields DEF LoopInv, TimersListed
  <2>3. t \in y.active /\ t \in Timers
    <3> DEFINE h == y.heap
    <3>1. h \in Seq(Timers) /\ h # <<>> /\ ToSet(h) = y.active \cap Timers /\ t = Head(h)
      BY <2>2
    <3> HIDE DEF h, t
    <3>2. t = h[1] /\ 1 \in DOMAIN h
      BY <3>1
    <3>3. QED
      BY <3>1, <3>2 DEF ToSet
  <2>4. Stopped(z, y, t) /\ SameKernelSide(z, y)
    BY <2>1, <2>3, TimerStopIs
  <2>5. t \in e.active
    BY <2>3 DEF Taken
  <2> HIDE DEF y, t, z
  <2>6. x.ts \in Seq(Timers) /\ \A i \in 1..Len(x.ts) : x.ts[i] \in e.active
    BY DEF Taken
  <2>7. r \in Seq(Timers) /\ \A i \in 1..Len(r) : r[i] \in e.active
    <3> DEFINE s == x.ts
    <3>1. s \in Seq(Timers) /\ \A i \in 1..Len(s) : s[i] \in e.active
      BY <2>6
    <3>5. r = <<t>> \o s
      OBVIOUS
    <3> HIDE DEF s, r
    <3>2. r \in Seq(Timers) /\ Len(r) = Len(s) + 1 /\ r[1] = t /\ Len(s) \in Nat
      BY <2>3, <3>1, <3>5
    <3>3. \A j \in 1..Len(s) : r[j + 1] = s[j]
      BY <2>3, <3>1, <3>5
    <3>4. ASSUME NEW i \in 1..Len(r) PROVE r[i] \in e.active
      <4>1. CASE i = 1
        BY <4>1, <2>5, <3>2
      <4>2. CASE i # 1
        <5>1. i - 1 \in 1..Len(s) /\ (i - 1) + 1 = i
          BY <3>2, <4>2
        <5>2. r[i] = s[i - 1]
          BY <3>3, <5>1
        <5>3. QED
          BY <3>1, <5>1, <5>2
      <4>3. QED
        BY <4>1, <4>2
    <3>6. QED
      BY <3>2, <3>4
  <2> HIDE DEF r
  <2>8. n \in [e : Loops, ts : Seq(Timers)] /\ n.e = z /\ n.ts = r
    BY <2>4, <2>7 DEF Stopped
  <2>9. z \in Loops /\ LoopInv(z) /\ SameKernelSide(z, e)
    BY <2>4 DEF Stopped, Taken, SameKernelSide, y
  <2>10. z.active \subseteq e.active /\ z.active \ Timers = e.active \ Timers
    <3>1. z.active = y.active \ {t} /\ y.active \subseteq e.active /\ y.active \ Timers = e.active \ Timers
      BY <2>4 DEF Stopped, Taken, y
    <3>2. QED
      BY <2>3, <3>1
  <2>11. \A v \in All : v \notin Timers \/ v \notin e.active => z.idx[v] = e.idx[v]
    <3>1. \A v \in All \ {t} : z.idx[v] = y.idx[v]
      BY <2>4 DEF Stopped
    <3>2. \A v \in All : v \notin Timers \/ v \notin e.active => y.idx[v] = e.idx[v] /\ v # t
      BY <2>3, <2>5 DEF Taken, y
    <3>3. QED
      BY <3>1, <3>2
  <2> HIDE DEF n
  <2>12. Taken(n, e)
    BY <2>7, <2>8, <2>9, <2>10, <2>11 DEF Taken
  <2>13. TimerRound(x) = n
    BY <1>1, <1>3 DEF y, t, z, r, n
  <2>14. QED
    BY <2>8, <2>12, <2>13
<1>4. QED
  BY <1>2, <1>3

IsTaken(f, e) ==
    f = [n \in 0..Len(e.heap) |-> IF n = 0 THEN [e |-> e, ts |-> <<>>] ELSE TimerRound(f[n - 1])]

\* Timers that are due are stopped, and their events pending.
LEMMA TimersReified ==
  ASSUME NEW e \in Loops, LoopInv(e)
  PROVE  LET x == timers_reify(e)
         IN  /\ x \in Loops /\ LoopInv(x) /\ SameKernelSide(x, e)
             /\ x.active \subseteq e.active /\ x.active \ Timers = e.active \ Timers
             /\ \A v \in All : v \notin Timers \/ v \notin e.active => x.idx[v] = e.idx[v]
<1> DEFINE X == [e : Loops, ts : Seq(Timers)]
           S == {x \in X : Taken(x, e)}
           N == Len(e.heap)
           s == [e |-> e, ts |-> <<>>]
           F == [q \in S \X (1..N) |-> TimerRound(q[1])]
<1>1. N \in Nat
  BY LoopFields
<1>2. s \in S
  <2>1. s \in X /\ s.e = e /\ s.ts = <<>> /\ Len(s.ts) = 0
    OBVIOUS
  <2> HIDE DEF s
  <2>2. Taken(s, e)
    BY <2>1 DEF Taken, SameKernelSide
  <2>3. QED
    BY <2>1, <2>2
<1>3. \A x \in S : TimerRound(x) \in S
  BY TimerRoundIs
<1> HIDE DEF S
<1>4. F \in [S \X (1..N) -> S]
  BY <1>3, Zenon
<1>5. \A x \in S, i \in 1..N : F[<<x, i>>] = TimerRound(x)
  OBVIOUS
<1> HIDE DEF F, s, N
<1>6. PICK f0 : Rounds(f0, S, s, N, F)
  BY <1>1, <1>2, <1>4, RoundsExist, Zenon
<1>7. \A i \in 0..N : i = 0 \/ (i \in 1..N /\ i - 1 \in 0..N)
  BY <1>1
<1>8. \A i \in 0..N : f0[i] = IF i = 0 THEN s ELSE TimerRound(f0[i - 1])
  BY <1>5, <1>6, <1>7 DEF Rounds
<1>9. IsTaken(f0, e)
  BY <1>6, <1>8 DEF Rounds, IsTaken, N, s
<1> DEFINE C == CHOOSE f : IsTaken(f, e)
           rev == [t \in Timers |-> {"T"}]
<1>10. timers_reify(e) = FeedAll(C[N].e, C[N].ts, rev)
  BY Zenon DEF timers_reify, IsTaken, N
<1>11. IsTaken(C, e)
  BY <1>9, Zenon
<1> HIDE DEF C
<1>12. \A i \in 0..N : C[i] = IF i = 0 THEN s ELSE TimerRound(C[i - 1])
  BY <1>11 DEF IsTaken, N, s
<1>13. C[0] = s /\ \A i \in 1..N : C[i] = TimerRound(C[i - 1])
  BY <1>1, <1>12
<1>14. C[N] \in S
  <2>1. \A i \in 0..N : C[i] \in S
    BY <1>1, <1>2, <1>3, <1>13, RoundsKeep
  <2>2. QED
    BY <1>1, <2>1
<1> DEFINE y == C[N].e
           ts == C[N].ts
           W == e.active \cap Timers
           x == timers_reify(e)
<1>15. Taken(C[N], e)
  BY <1>14 DEF S
<1>16. /\ y \in Loops /\ LoopInv(y) /\ Exact(y) /\ SameKernelSide(y, e)
       /\ y.active \subseteq e.active /\ y.active \ Timers = e.active \ Timers
       /\ \A v \in All : v \notin Timers \/ v \notin e.active => y.idx[v] = e.idx[v]
       /\ ts \in Seq(Timers) /\ \A i \in 1..Len(ts) : ts[i] \in e.active
  BY <1>15 DEF Taken, LoopInv
<1> HIDE DEF y, ts
<1>17. ts \in Seq(All) /\ \A i \in 1..Len(ts) : ts[i] \in W /\ rev[ts[i]] \in SUBSET Flags
  <2>1. Timers \subseteq All
    BY Kinds, Names
  <2>2. \A i \in 1..Len(ts) : ts[i] \in Timers
    BY <1>16
  <2>3. \A t \in Timers : rev[t] \in SUBSET Flags
    BY DEF Flags
  <2> HIDE DEF rev
  <2>4. QED
    BY <1>16, <2>1, <2>2, <2>3
<1> HIDE DEF rev, W
<1>18. Fed(x, y, W)
  BY <1>10, <1>16, <1>17, FedAll DEF y, ts
<1> HIDE DEF x
<1>19. x \in Loops /\ Exact(x) /\ SameLists(x, y) /\ \A v \in All \ W : x.idx[v] = y.idx[v]
  BY <1>18 DEF Fed
<1>20. LoopInv(x)
  BY <1>16, <1>19, FedInv
<1>21. \A v \in All : v \notin Timers \/ v \notin e.active => x.idx[v] = e.idx[v]
  BY <1>16, <1>19 DEF W
<1>22. SameKernelSide(x, e) /\ x.active = y.active
  BY <1>16, <1>19 DEF SameKernelSide, SameLists
<1>23. QED
  BY <1>16, <1>19, <1>20, <1>21, <1>22 DEF x

----------------------------------------------------------------------------
(* What the kernel is told *)

WithMask(a, mask, gen) == [a EXCEPT !.emask = mask, !.egen = gen]
WithEvents(a, events) == [a EXCEPT !.reify = {}, !.events = events]

LEMMA WithMaskIs ==
  ASSUME NEW a \in Anfds, NEW mask \in SUBSET {"R", "W", "P"}, NEW gen \in Nat
  PROVE  LET b == WithMask(a, mask, gen)
         IN  /\ b \in Anfds /\ b.head = a.head /\ b.reify = a.reify /\ b.events = a.events
             /\ b.emask = mask /\ b.egen = gen
BY DEF WithMask, Anfds

LEMMA WithEventsIs ==
  ASSUME NEW a \in Anfds, NEW events \in SUBSET {"R", "W"}
  PROVE  LET b == WithEvents(a, events)
         IN  /\ b \in Anfds /\ b.head = a.head /\ b.reify = {} /\ b.events = events
             /\ b.emask = a.emask /\ b.egen = a.egen
BY DEF WithEvents, Anfds

\* x is e but for descriptor d.
SameButOne(x, e, d) ==
    /\ x \in Loops /\ SameButFd(x, e) /\ x.changes = e.changes
    /\ \A c \in AllFds \ {d} : x.fd[c] = e.fd[c]
    /\ x.fd[d].head = e.fd[d].head

LEMMA OneChanges ==
  ASSUME NEW e \in Loops, NEW d \in AllFds, NEW b \in Anfds, b.head = e.fd[d].head
  PROVE  LET x == WithFd(e, [e.fd EXCEPT ![d] = b], e.changes)
         IN  SameButOne(x, e, d) /\ x.fd[d] = b
<1> DEFINE fd == [e.fd EXCEPT ![d] = b]
           x == WithFd(e, fd, e.changes)
<1>1. fd \in [AllFds -> Anfds] /\ fd[d] = b /\ \A c \in AllFds \ {d} : fd[c] = e.fd[c]
  BY LoopFields
<1> HIDE DEF fd
<1>2. x \in Loops /\ SameButFd(x, e) /\ x.fd = fd /\ x.changes = e.changes
  BY <1>1, LoopFields, WithFdIs
<1>3. QED
  BY <1>1, <1>2 DEF SameButOne, fd

LEMMA SetMaskIs ==
  ASSUME NEW e \in Loops, NEW d \in AllFds, NEW mask \in SUBSET {"R", "W", "P"}, NEW gen \in Nat
  PROVE  LET x == SetMask(e, d, mask, gen)
         IN  /\ SameButOne(x, e, d) /\ x.fd[d].events = e.fd[d].events
             /\ x.fd[d].reify = e.fd[d].reify /\ x.fd[d].emask = mask /\ x.fd[d].egen = gen
<1> DEFINE a == e.fd[d]
           b == WithMask(a, mask, gen)
           x == SetMask(e, d, mask, gen)
<1>1. a \in Anfds
  BY LoopFields
<1>2. /\ b \in Anfds /\ b.head = a.head /\ b.reify = a.reify /\ b.events = a.events
      /\ b.emask = mask /\ b.egen = gen
  <2> HIDE DEF a
  <2>1. QED
    BY <1>1, WithMaskIs
<1>3. x = WithFd(e, [e.fd EXCEPT ![d] = b], e.changes)
  <2>1. x = WithFd(e, [e.fd EXCEPT ![d].emask = mask, ![d].egen = gen], e.changes)
    BY LoopFields DEF SetMask, WithFd, Loops
  <2>2. [e.fd EXCEPT ![d].emask = mask, ![d].egen = gen] = [e.fd EXCEPT ![d] = b]
    BY LoopFields, <1>1 DEF WithMask, Anfds
  <2>3. QED
    BY <2>1, <2>2
<1> HIDE DEF b
<1>4. SameButOne(x, e, d) /\ x.fd[d] = b
  BY <1>2, <1>3, OneChanges
<1>5. QED
  BY <1>2, <1>4

LEMMA SetEventsIs ==
  ASSUME NEW e \in Loops, NEW d \in AllFds, NEW events \in SUBSET {"R", "W"}
  PROVE  LET x == SetEvents(e, d, events)
         IN  /\ SameButOne(x, e, d) /\ x.fd[d].events = events /\ x.fd[d].reify = {}
             /\ x.fd[d].emask = e.fd[d].emask /\ x.fd[d].egen = e.fd[d].egen
<1> DEFINE a == e.fd[d]
           b == WithEvents(a, events)
           x == SetEvents(e, d, events)
<1>1. a \in Anfds
  BY LoopFields
<1>2. /\ b \in Anfds /\ b.head = a.head /\ b.reify = {} /\ b.events = events
      /\ b.emask = a.emask /\ b.egen = a.egen
  <2> HIDE DEF a
  <2>1. QED
    BY <1>1, WithEventsIs
<1>3. x = WithFd(e, [e.fd EXCEPT ![d] = b], e.changes)
  <2>1. x = WithFd(e, [e.fd EXCEPT ![d].reify = {}, ![d].events = events], e.changes)
    BY LoopFields DEF SetEvents, WithFd, Loops
  <2>2. [e.fd EXCEPT ![d].reify = {}, ![d].events = events] = [e.fd EXCEPT ![d] = b]
    BY LoopFields, <1>1 DEF WithEvents, Anfds
  <2>3. QED
    BY <2>1, <2>2
<1> HIDE DEF b
<1>4. SameButOne(x, e, d) /\ x.fd[d] = b
  BY <1>2, <1>3, OneChanges
<1>5. QED
  BY <1>2, <1>4

WithEperms(e, eperms) == [e EXCEPT !.eperms = eperms]

LEMMA WithEpermsIs ==
  ASSUME NEW e \in Loops, NEW eperms \in SUBSET AllFds
  PROVE  LET x == WithEperms(e, eperms)
         IN  /\ x \in Loops /\ x.eperms = eperms /\ x.active = e.active /\ x.cnt = e.cnt
             /\ x.pend = e.pend /\ x.idx = e.idx /\ x.fd = e.fd /\ x.changes = e.changes
             /\ x.heap = e.heap /\ x.at = e.at /\ x.now = e.now
             /\ x.asyncs = e.asyncs /\ x.postfork = e.postfork
BY DEF WithEperms, Loops

WithPostfork(e, postfork) == [e EXCEPT !.postfork = postfork]

LEMMA WithPostforkIs ==
  ASSUME NEW e \in Loops, NEW postfork \in BOOLEAN
  PROVE  LET x == WithPostfork(e, postfork)
         IN  /\ x \in Loops
             /\ x.postfork = postfork /\ x.active = e.active /\ x.cnt = e.cnt
             /\ x.pend = e.pend /\ x.idx = e.idx /\ x.fd = e.fd /\ x.changes = e.changes
             /\ x.heap = e.heap /\ x.at = e.at /\ x.now = e.now
             /\ x.asyncs = e.asyncs /\ x.eperms = e.eperms
BY DEF WithPostfork, Loops

LEMMA KernFields ==
  ASSUME NEW k \in Kernels
  PROVE  /\ k.file \in [AllFds -> Nat] /\ k.last \in 0..MaxFile /\ k.regs \in SUBSET Regs
         /\ k.held \in SUBSET Files /\ k.ready \in [Files -> SUBSET {"R", "W", "H"}]
         /\ k.time \in Nat /\ k.regular \in SUBSET Files /\ k.inited \in [Ios -> Nat]
         /\ k.zombies \in SUBSET Children /\ k.raised \in BOOLEAN
BY DEF Kernels

LEMMA RegFields ==
  ASSUME NEW r \in Regs
  PROVE  r.fd \in AllFds /\ r.file \in Files \cup {PipeFile} /\ r.events \in SUBSET {"R", "W"} /\ r.gen \in Nat
BY DEF Regs

WithRegs(k, regs) == [k EXCEPT !.regs = regs]

SameButRegs(x, k) ==
    /\ x.file = k.file /\ x.last = k.last /\ x.held = k.held /\ x.ready = k.ready
    /\ x.time = k.time /\ x.regular = k.regular /\ x.inited = k.inited
    /\ x.zombies = k.zombies /\ x.raised = k.raised

LEMMA WithRegsIs ==
  ASSUME NEW k \in Kernels, NEW regs \in SUBSET Regs
  PROVE  LET x == WithRegs(k, regs)
         IN  x \in Kernels /\ SameButRegs(x, k) /\ x.regs = regs
BY DEF WithRegs, Kernels, SameButRegs

\* The registration of d for its file is replaced, or removed.
Reregistered(x, k, d) ==
    /\ x \in Kernels /\ SameButRegs(x, k)
    /\ \A q \in Regs : ~(q.fd = d /\ q.file = k.file[d]) => (q \in x.regs <=> q \in k.regs)

LEMMA RegisterIs ==
  ASSUME NEW k \in Kernels, NEW d \in AllFds, k.file[d] \in Files \cup {PipeFile},
         NEW events \in SUBSET {"R", "W"}, NEW gen \in Nat
  PROVE  LET x == Register(k, d, events, gen)
         IN  /\ Reregistered(x, k, d)
             /\ (IsFiniteSet(k.regs) => IsFiniteSet(x.regs))
             /\ \A q \in x.regs : q.fd = d /\ q.file = k.file[d] => q.events = events /\ q.gen = gen
             /\ \E q \in Registered(x, d) : q.events = events
<1> DEFINE r == [fd |-> d, file |-> k.file[d], events |-> events, gen |-> gen]
           regs == (k.regs \ Registered(k, d)) \cup {r}
           x == Register(k, d, events, gen)
<1>1. r \in Regs /\ r.fd = d /\ r.file = k.file[d] /\ r.events = events /\ r.gen = gen
  BY DEF Regs
<1>2. x = WithRegs(k, regs)
  BY Zenon DEF Register, WithRegs
<1> HIDE DEF r
<1>3. regs \in SUBSET Regs
  BY <1>1, KernFields
<1>4. /\ \A q \in Regs : ~(q.fd = d /\ q.file = k.file[d]) => (q \in regs <=> q \in k.regs)
      /\ \A q \in regs : q.fd = d /\ q.file = k.file[d] => q = r
  BY <1>1 DEF Registered
<1>5. IsFiniteSet(k.regs) => IsFiniteSet(regs)
  <2> SUFFICES ASSUME IsFiniteSet(k.regs) PROVE IsFiniteSet(regs)
    OBVIOUS
  <2> DEFINE S == k.regs \ Registered(k, d)
  <2>1. IsFiniteSet(S)
    BY FS_Subset
  <2> HIDE DEF S
  <2>2. IsFiniteSet(S \cup {r})
    BY <2>1, FS_AddElement
  <2>3. QED
    BY <2>2 DEF S
<1>7. r \in regs
  OBVIOUS
<1> HIDE DEF regs
<1>6. x \in Kernels /\ SameButRegs(x, k) /\ x.regs = regs
  BY <1>2, <1>3, WithRegsIs
<1> HIDE DEF x
<1>8. r \in Registered(x, d)
  BY <1>1, <1>6, <1>7 DEF Registered, SameButRegs
<1>9. QED
  BY <1>1, <1>4, <1>5, <1>6, <1>8 DEF Reregistered, x

LEMMA UnregisterIs ==
  ASSUME NEW k \in Kernels, NEW d \in AllFds
  PROVE  LET x == [k EXCEPT !.regs = @ \ Registered(k, d)]
         IN  /\ Reregistered(x, k, d)
             /\ (IsFiniteSet(k.regs) => IsFiniteSet(x.regs))
             /\ \A q \in x.regs : ~(q.fd = d /\ q.file = k.file[d])
<1> DEFINE regs == k.regs \ Registered(k, d)
           x == [k EXCEPT !.regs = @ \ Registered(k, d)]
<1>2. x = WithRegs(k, regs)
  BY Zenon DEF WithRegs
<1>3. regs \in SUBSET Regs
  BY KernFields
<1>4. /\ \A q \in Regs : ~(q.fd = d /\ q.file = k.file[d]) => (q \in regs <=> q \in k.regs)
      /\ \A q \in regs : ~(q.fd = d /\ q.file = k.file[d])
  BY DEF Registered
<1>5. IsFiniteSet(k.regs) => IsFiniteSet(regs)
  BY FS_Subset
<1> HIDE DEF regs
<1>6. x \in Kernels /\ SameButRegs(x, k) /\ x.regs = regs
  BY <1>2, <1>3, WithRegsIs
<1> HIDE DEF x
<1>9. QED
  BY <1>4, <1>5, <1>6 DEF Reregistered, x

\* x is e but for what the kernel was told of descriptor d.
OneTold(x, e, d) ==
    /\ x \in Loops /\ x.active = e.active /\ x.cnt = e.cnt /\ x.pend = e.pend /\ x.idx = e.idx
    /\ x.heap = e.heap /\ x.at = e.at /\ x.now = e.now /\ x.asyncs = e.asyncs
    /\ x.changes = e.changes
    /\ \A c \in AllFds \ {d} : x.fd[c] = e.fd[c]
    /\ x.fd[d].head = e.fd[d].head

\* What registrations may become when descriptor d is told something.
LEMMA RegsKnownOne ==
  ASSUME NEW e, NEW x, NEW k \in Kernels, NEW z \in Kernels, NEW d \in AllFds,
         RegsKnown(e, k), FilesKnown(k), Reregistered(z, k, d), OneTold(x, e, d), IsFiniteSet(z.regs),
         \A q \in z.regs : q.fd = d /\ q.file = k.file[d] =>
             q.file \notin k.regular /\ q.gen = x.fd[d].egen /\ x.fd[d].emask \in {{}, q.events}
  PROVE  RegsKnown(x, z)
<1>1. /\ z.file = k.file /\ z.regular = k.regular /\ z.last = k.last
  BY DEF Reregistered, SameButRegs
<1>2. ASSUME NEW r \in z.regs
      PROVE  /\ r.file \notin z.regular
             /\ r.file <= z.last \/ r.file = PipeFile
             /\ r.file = z.file[r.fd] =>
                   r.gen = x.fd[r.fd].egen /\ x.fd[r.fd].emask \in {{}, r.events}
  <2>1. r \in Regs /\ r.fd \in AllFds
    BY KernFields, RegFields
  <2>2. CASE r.fd = d /\ r.file = k.file[d]
    <3>1. r.file <= k.last \/ r.file = PipeFile
      <4>1. CASE d = PipeFd
        BY <2>2, <4>1 DEF FilesKnown
      <4>2. CASE d # PipeFd
        BY <2>2, <4>2 DEF FilesKnown, AllFds
      <4>3. QED
        BY <4>1, <4>2
    <3>2. QED
      BY <1>1, <2>2, <3>1
  <2>3. CASE ~(r.fd = d /\ r.file = k.file[d])
    <3>1. r \in k.regs
      BY <2>1, <2>3 DEF Reregistered
    <3>2. CASE r.fd = d
      BY <1>1, <2>3, <3>1, <3>2 DEF RegsKnown
    <3>3. CASE r.fd # d
      <4>1. x.fd[r.fd] = e.fd[r.fd]
        BY <2>1, <3>3 DEF OneTold
      <4>2. QED
        BY <1>1, <3>1, <4>1 DEF RegsKnown
    <3>4. QED
      BY <3>2, <3>3
  <2>4. QED
    BY <2>2, <2>3
<1>3. QED
  BY <1>2 DEF RegsKnown

\* The others stay known.
LEMMA KnownOthers ==
  ASSUME NEW e, NEW x, NEW k \in Kernels, NEW z \in Kernels, NEW d \in AllFds, NEW c \in AllFds \ {d},
         Reregistered(z, k, d), OneTold(x, e, d)
  PROVE  (Known(e, k, c) <=> Known(x, z, c)) /\ (InUse(z, c) <=> InUse(k, c))
<1>1. z.file = k.file /\ z.regular = k.regular /\ z.inited = k.inited
  BY DEF Reregistered, SameButRegs
<1>2. Registered(z, c) = Registered(k, c)
  <2>1. k.regs \subseteq Regs /\ z.regs \subseteq Regs
    BY KernFields
  <2>2. \A q \in Regs : q.fd = c => (q \in z.regs <=> q \in k.regs)
    BY DEF Reregistered
  <2>3. QED
    BY <1>1, <2>1, <2>2 DEF Registered
<1>3. x.fd[c] = e.fd[c]
  BY DEF OneTold
<1>4. Known(e, k, c) <=> Known(x, z, c)
  BY <1>1, <1>2, <1>3, Zenon DEF Known
<1>5. InUse(z, c) <=> InUse(k, c)
  BY <1>1, Zenon DEF InUse
<1>6. QED
  BY <1>4, <1>5

LEMMA OneIsTold ==
  ASSUME NEW e, NEW x, NEW d, SameButOne(x, e, d)
  PROVE  OneTold(x, e, d) /\ x.postfork = e.postfork /\ x.eperms = e.eperms
BY DEF SameButOne, OneTold, SameButFd

LEMMA NotReregistered ==
  ASSUME NEW k \in Kernels, NEW d
  PROVE  Reregistered(k, k, d)
BY DEF Reregistered, SameButRegs

EpermsOne(x, e, d) == "P" \in x.fd[d].emask => d \in x.eperms

LEMMA EpermsKept ==
  ASSUME NEW e, NEW x, NEW d \in AllFds, OneTold(x, e, d), EpermsListed(e),
         e.eperms \ {d} \subseteq x.eperms, EpermsOne(x, e, d)
  PROVE  EpermsListed(x)
<1>1. ASSUME NEW c \in AllFds, "P" \in x.fd[c].emask PROVE c \in x.eperms
  <2>1. CASE c = d
    BY <1>1, <2>1 DEF EpermsOne
  <2>2. CASE c # d
    <3>1. x.fd[c] = e.fd[c]
      BY <2>2 DEF OneTold
    <3>2. c \in e.eperms
      BY <1>1, <3>1 DEF EpermsListed
    <3>3. QED
      BY <2>2, <3>2
  <2>3. QED
    BY <2>1, <2>2
<1>2. QED
  BY <1>1 DEF EpermsListed

\* The kernel watches d for the events, or has refused to.
Watched(e, k, d, events) ==
    IF k.file[d] \in k.regular THEN "P" \in e.fd[d].emask
    ELSE \E r \in Registered(k, d) : events \subseteq r.events

Modified(x, z, e, k, d, nev) ==
    /\ OneTold(x, e, d) /\ x.postfork = e.postfork
    /\ x.fd[d].events = e.fd[d].events /\ x.fd[d].reify = e.fd[d].reify
    /\ Reregistered(z, k, d) /\ RegsKnown(x, z) /\ EpermsListed(x)
    /\ nev # {} => Watched(x, z, d, nev)

\* epoll_modify: what the kernel did not know it does then.
LEMMA ModifyIs ==
  ASSUME NEW e \in Loops, NEW k \in Kernels, RegsKnown(e, k), FilesKnown(k), EpermsListed(e),
         NEW d \in AllFds, NEW oev, NEW nev \in SUBSET {"R", "W"},
         nev # {} => k.file[d] \in Files \cup {PipeFile}
  PROVE  \E x \in Loops, z \in Kernels :
            /\ epoll_modify([e |-> e, k |-> k], d, oev, nev) = [e |-> x, k |-> z]
            /\ Modified(x, z, e, k, d, nev)
<1> DEFINE old == e.fd[d].emask
           gen == e.fd[d].egen
           mod == oev # {} /\ old # nev
           s == [e |-> e, k |-> k]
           y == epoll_modify(s, d, oev, nev)
           m1 == SetMask(e, d, {"P"}, gen + 1)
           ep == IF "P" \in old THEN m1.eperms ELSE m1.eperms \cup {d}
           x1 == WithEperms(m1, ep)
           x2 == SetMask(e, d, nev, gen)
           x3 == SetMask(e, d, nev, gen + 1)
           z3 == Register(k, d, nev, gen + 1)
<1>1. s.e = e /\ s.k = k
  OBVIOUS
<1> HIDE DEF s
<1>2. y = IF nev = {} THEN s
          ELSE IF k.file[d] \in k.regular THEN [e |-> x1, k |-> k]
          ELSE IF ~mod /\ Registered(k, d) # {} /\ old = nev THEN [e |-> x2, k |-> k]
          ELSE [e |-> x3, k |-> z3]
  BY <1>1, Zenon DEF epoll_modify, EpollCtl, WithEperms
<1>3. e.fd[d] \in Anfds /\ old \in SUBSET {"R", "W", "P"} /\ gen \in Nat /\ gen + 1 \in Nat
  BY LoopFields, AnfdFields
<1>4. IsFiniteSet(k.regs)
  BY DEF RegsKnown
<1> HIDE DEF old, gen, y
<1>5. CASE nev = {}
  <2>1. y = s
    BY <1>2, <1>5
  <2>2. OneTold(e, e, d)
    BY DEF OneTold
  <2>3. Modified(e, k, e, k, d, nev)
    BY <1>5, <2>2, NotReregistered DEF Modified
  <2>4. QED
    BY <2>1, <2>3 DEF y, s
<1>6. CASE nev # {} /\ k.file[d] \in k.regular
  <2>1. /\ SameButOne(m1, e, d) /\ m1.fd[d].events = e.fd[d].events
        /\ m1.fd[d].reify = e.fd[d].reify /\ m1.fd[d].emask = {"P"} /\ m1.fd[d].egen = gen + 1
    BY <1>3, SetMaskIs
  <2> HIDE DEF m1
  <2>2. m1 \in Loops /\ m1.eperms = e.eperms /\ e.eperms \in SUBSET AllFds
    BY <2>1, LoopFields DEF SameButOne, SameButFd
  <2>3. ep \in SUBSET AllFds /\ e.eperms \subseteq ep /\ d \in ep
    <3>1. "P" \in old => d \in e.eperms
      BY DEF EpermsListed, old
    <3>2. QED
      BY <2>2, <3>1
  <2> HIDE DEF ep
  <2>4. /\ x1 \in Loops /\ x1.eperms = ep /\ x1.active = m1.active /\ x1.cnt = m1.cnt
        /\ x1.pend = m1.pend /\ x1.idx = m1.idx /\ x1.fd = m1.fd /\ x1.changes = m1.changes
        /\ x1.heap = m1.heap /\ x1.at = m1.at /\ x1.now = m1.now
        /\ x1.asyncs = m1.asyncs /\ x1.postfork = m1.postfork
    BY <2>2, <2>3, WithEpermsIs
  <2> HIDE DEF x1
  <2>5. OneTold(x1, e, d) /\ x1.postfork = e.postfork
    BY <2>1, <2>4, OneIsTold DEF OneTold
  <2>6. \A q \in k.regs : ~(q.fd = d /\ q.file = k.file[d])
    BY <1>6 DEF RegsKnown
  <2>7. RegsKnown(x1, k)
    BY <1>4, <2>5, <2>6, NotReregistered, RegsKnownOne
  <2>8. EpermsListed(x1)
    BY <2>3, <2>4, <2>5, EpermsKept DEF EpermsOne
  <2>9. Modified(x1, k, e, k, d, nev)
    BY <1>6, <2>1, <2>4, <2>5, <2>7, <2>8, NotReregistered DEF Modified, Watched
  <2>10. QED
    BY <1>2, <1>6, <2>4, <2>9 DEF y, s
<1>7. CASE nev # {} /\ ~(k.file[d] \in k.regular) /\ (~mod /\ Registered(k, d) # {} /\ old = nev)
  <2>1. /\ SameButOne(x2, e, d) /\ x2.fd[d].events = e.fd[d].events
        /\ x2.fd[d].reify = e.fd[d].reify /\ x2.fd[d].emask = nev /\ x2.fd[d].egen = gen
    BY <1>3, SetMaskIs
  <2> HIDE DEF x2
  <2>2. x2 \in Loops /\ OneTold(x2, e, d) /\ x2.postfork = e.postfork /\ x2.eperms = e.eperms
    BY <2>1, OneIsTold DEF SameButOne
  <2>3. \A q \in k.regs : q.fd = d /\ q.file = k.file[d] =>
             q.file \notin k.regular /\ q.gen = gen /\ nev = q.events
    BY <1>7 DEF RegsKnown, old, gen
  <2>4. RegsKnown(x2, k)
    BY <1>4, <2>1, <2>2, <2>3, NotReregistered, RegsKnownOne
  <2>5. EpermsOne(x2, e, d)
    BY <2>1 DEF EpermsOne
  <2>6. EpermsListed(x2)
    BY <2>2, <2>5, EpermsKept
  <2>7. Watched(x2, k, d, nev)
    BY <1>7, <2>3 DEF Watched, Registered
  <2>8. Modified(x2, k, e, k, d, nev)
    BY <2>1, <2>2, <2>4, <2>6, <2>7, NotReregistered DEF Modified
  <2>9. QED
    BY <1>2, <1>7, <2>2, <2>8 DEF y, s
<1>8. CASE nev # {} /\ ~(k.file[d] \in k.regular) /\ ~(~mod /\ Registered(k, d) # {} /\ old = nev)
  <2>1. /\ SameButOne(x3, e, d) /\ x3.fd[d].events = e.fd[d].events
        /\ x3.fd[d].reify = e.fd[d].reify /\ x3.fd[d].emask = nev /\ x3.fd[d].egen = gen + 1
    BY <1>3, SetMaskIs
  <2> HIDE DEF x3
  <2>2. x3 \in Loops /\ OneTold(x3, e, d) /\ x3.postfork = e.postfork /\ x3.eperms = e.eperms
    BY <2>1, OneIsTold DEF SameButOne
  <2>3. /\ Reregistered(z3, k, d) /\ IsFiniteSet(z3.regs)
        /\ \A q \in z3.regs : q.fd = d /\ q.file = k.file[d] => q.events = nev /\ q.gen = gen + 1
        /\ \E q \in Registered(z3, d) : q.events = nev
    BY <1>3, <1>4, <1>8, RegisterIs
  <2> HIDE DEF z3
  <2>4. z3 \in Kernels /\ z3.file = k.file /\ z3.regular = k.regular
    BY <2>3 DEF Reregistered, SameButRegs
  <2>5. RegsKnown(x3, z3)
    BY <1>8, <2>1, <2>2, <2>3, <2>4, RegsKnownOne
  <2>6. EpermsOne(x3, e, d)
    BY <2>1 DEF EpermsOne
  <2>7. EpermsListed(x3)
    BY <2>2, <2>6, EpermsKept
  <2>8. Watched(x3, z3, d, nev)
    BY <1>8, <2>3, <2>4 DEF Watched
  <2>9. Modified(x3, z3, e, k, d, nev)
    BY <2>1, <2>2, <2>3, <2>5, <2>7, <2>8 DEF Modified
  <2>10. y = [e |-> x3, k |-> z3]
    BY <1>2, <1>8
  <2>11. QED
    BY <2>2, <2>4, <2>9, <2>10 DEF y, s
<1>9. QED
  BY <1>5, <1>6, <1>7, <1>8

KernInv(e, k) == RegsKnown(e, k) /\ FilesKnown(k) /\ WatchersInited(e, k) /\ Told(e, k)

ToldOf(e, k, d) ==
    "set" \notin e.fd[d].reify /\ e.fd[d].events # {} /\ InUse(k, d) => Known(e, k, d)

LEMMA KnownIs ==
  ASSUME NEW e, NEW k, NEW d
  PROVE  Known(e, k, d) <=> Watched(e, k, d, e.fd[d].events)
BY DEF Known, Watched

LEMMA WatcherEvents ==
  ASSUME NEW w \in Ios \cup {pipe_w}
  PROVE  EventsOf(w) \in SUBSET {"R", "W"} /\ EventsOf(w) # {} /\ EventsOf(w) \in SUBSET Flags
<1>1. CASE w = pipe_w
  BY <1>1 DEF EventsOf, Flags
<1>2. CASE w # pipe_w
  <2>1. EventsOf(w) = WEvents[w] /\ w \in Ios
    BY <1>2 DEF EventsOf
  <2>2. WEvents[w] \in SUBSET {"R", "W"} /\ WEvents[w] # {}
    BY <2>1, LoopAssumption
  <2>3. QED
    BY <2>1, <2>2 DEF Flags
<1>3. QED
  BY <1>1, <1>2

\* Watchers want something of a descriptor that refers to a file.
LEMMA WantedFile ==
  ASSUME NEW e \in Loops, NEW k \in Kernels, IoListed(e), FilesKnown(k), WatchersInited(e, k),
         NEW d \in AllFds
  PROVE  /\ WantedOf(e, d) \in SUBSET {"R", "W"}
         /\ WantedOf(e, d) # {} => k.file[d] \in Files \cup {PipeFile}
<1>1. e.fd[d] \in Anfds
  BY LoopFields
<1>2. \A w \in ToSet(e.fd[d].head) : w \in Ios \cup {pipe_w}
  <2> DEFINE h == e.fd[d].head
  <2>1. h \in Seq(Ios \cup {pipe_w})
    BY <1>1, AnfdFields
  <2> HIDE DEF h
  <2>2. \A w \in ToSet(h) : w \in Ios \cup {pipe_w}
    BY <2>1 DEF ToSet
  <2>3. QED
    BY <2>2 DEF h
<1>3. WantedOf(e, d) \in SUBSET {"R", "W"}
  BY <1>2, WatcherEvents DEF WantedOf
<1>4. ASSUME WantedOf(e, d) # {} PROVE k.file[d] \in Files \cup {PipeFile}
  <2>1. CASE d = PipeFd
    BY <2>1 DEF FilesKnown
  <2>2. CASE d # PipeFd
    <3>1. d \in Fds
      BY <2>2 DEF AllFds
    <3>2. PICK w : w \in ToSet(e.fd[d].head)
      BY <1>4 DEF WantedOf
    <3>3. w \in e.active /\ w \in Ios /\ WFd[w] = d
      BY <3>1, <3>2 DEF IoListed
    <3>4. k.inited[w] # 0 /\ k.inited[w] = k.file[d]
      BY <3>3 DEF WatchersInited
    <3>5. k.file[d] \in Nat /\ k.file[d] <= k.last /\ k.last \in 0..MaxFile /\ MaxFile \in Nat
      BY <3>1, KernFields, LoopAssumption DEF FilesKnown
    <3>6. QED
      BY <3>4, <3>5 DEF Files
  <2>3. QED
    BY <2>1, <2>2
<1>5. QED
  BY <1>3, <1>4

\* x: the loop and the kernel in the course of fd_reify.
Reifying(x, e, k) ==
    /\ x.e \in Loops /\ x.k \in Kernels /\ SameButRegs(x.k, k)
    /\ x.e.active = e.active /\ x.e.cnt = e.cnt /\ x.e.pend = e.pend /\ x.e.idx = e.idx
    /\ x.e.heap = e.heap /\ x.e.at = e.at /\ x.e.now = e.now /\ x.e.asyncs = e.asyncs
    /\ x.e.changes = e.changes /\ x.e.postfork = e.postfork
    /\ \A c \in AllFds : x.e.fd[c].head = e.fd[c].head /\ x.e.fd[c].reify \in {{}, e.fd[c].reify}
    /\ RegsKnown(x.e, x.k) /\ EpermsListed(x.e) /\ Reified(x.e)
    /\ \A c \in AllFds : ToldOf(x.e, x.k, c)

\* A step that tells the kernel of d what its watchers want.
LEMMA OneReified ==
  ASSUME NEW e \in Loops, NEW k \in Kernels, NEW x, Reifying(x, e, k), NEW d \in AllFds,
         NEW y \in Loops, NEW z \in Kernels, OneTold(y, x.e, d), y.postfork = x.e.postfork,
         Reregistered(z, x.k, d), RegsKnown(y, z), EpermsListed(y),
         y.fd[d].reify = {}, y.fd[d].events = WantedOf(x.e, d), ToldOf(y, z, d)
  PROVE  Reifying([e |-> y, k |-> z], e, k)
<1> DEFINE n == [e |-> y, k |-> z]
<1>1. n.e = y /\ n.k = z
  OBVIOUS
<1> HIDE DEF n
<1>2. SameButRegs(z, k)
  BY DEF Reifying, Reregistered, SameButRegs
<1>3. /\ y.active = e.active /\ y.cnt = e.cnt /\ y.pend = e.pend /\ y.idx = e.idx
      /\ y.heap = e.heap /\ y.at = e.at /\ y.now = e.now /\ y.asyncs = e.asyncs
      /\ y.changes = e.changes /\ y.postfork = e.postfork
  BY DEF Reifying, OneTold
<1>4. ASSUME NEW c \in AllFds
      PROVE  /\ y.fd[c].head = e.fd[c].head /\ y.fd[c].reify \in {{}, e.fd[c].reify}
             /\ y.fd[c].reify = {} => y.fd[c].events = WantedOf(y, c)
             /\ ToldOf(y, z, c)
  <2>1. CASE c = d
    <3>1. y.fd[d].head = x.e.fd[d].head /\ x.e.fd[d].head = e.fd[d].head
      BY DEF OneTold, Reifying
    <3>2. WantedOf(y, d) = WantedOf(x.e, d)
      BY <3>1, Zenon DEF WantedOf
    <3>3. QED
      BY <2>1, <3>1, <3>2
  <2>2. CASE c # d
    <3>1. y.fd[c] = x.e.fd[c]
      BY <2>2 DEF OneTold
    <3>2. /\ x.e.fd[c].head = e.fd[c].head /\ x.e.fd[c].reify \in {{}, e.fd[c].reify}
          /\ ToldOf(x.e, x.k, c) /\ x.k \in Kernels
      BY DEF Reifying
    <3>3. x.e.fd[c].reify = {} => x.e.fd[c].events = WantedOf(x.e, c)
      BY DEF Reifying, Reified
    <3>4. WantedOf(y, c) = WantedOf(x.e, c)
      BY <3>1, Zenon DEF WantedOf
    <3>5. (Known(x.e, x.k, c) <=> Known(y, z, c)) /\ (InUse(z, c) <=> InUse(x.k, c))
      BY <2>2, <3>2, KnownOthers
    <3>6. ToldOf(y, z, c)
      BY <3>1, <3>2, <3>5 DEF ToldOf
    <3>7. QED
      BY <3>1, <3>2, <3>3, <3>4, <3>6
  <2>3. QED
    BY <2>1, <2>2
<1>5. Reified(y)
  BY <1>4 DEF Reified
<1>6. QED
  BY <1>1, <1>2, <1>3, <1>4, <1>5 DEF Reifying, n

LoopAndKernel == [e : Loops, k : Kernels]

LEMMA ReifyOneIs ==
  ASSUME NEW e \in Loops, NEW k \in Kernels, IoListed(e), FilesKnown(k), WatchersInited(e, k),
         NEW x \in LoopAndKernel, Reifying(x, e, k), NEW d \in AllFds
  PROVE  LET r == ReifyOne(x, d)
         IN  /\ r \in LoopAndKernel /\ Reifying(r, e, k) /\ r.e.fd[d].reify = {}
             /\ \A c \in AllFds \ {d} : r.e.fd[c] = x.e.fd[c]
<1> DEFINE e0 == x.e
           k0 == x.k
           a == e0.fd[d]
           events == WantedOf(e0, d)
           y == SetEvents(e0, d, events)
           s == [e |-> y, k |-> k0]
           r == ReifyOne(x, d)
<1>1. e0 \in Loops /\ k0 \in Kernels /\ RegsKnown(e0, k0) /\ EpermsListed(e0)
  BY DEF Reifying
<1>2. IoListed(e0)
  <2>1. /\ e0.active = e.active
        /\ \A c \in AllFds : e0.fd[c].head = e.fd[c].head
    BY DEF Reifying
  <2>2. QED
    BY <2>1 DEF IoListed, AllFds
<1>3. FilesKnown(k0) /\ WatchersInited(e0, k0)
  <2>1. k0.file = k.file /\ k0.last = k.last /\ k0.regular = k.regular /\ k0.inited = k.inited
        /\ e0.active = e.active
    BY DEF Reifying, SameButRegs
  <2>2. QED
    BY <2>1, Zenon DEF FilesKnown, WatchersInited
<1>4. events \in SUBSET {"R", "W"} /\ (events # {} => k0.file[d] \in Files \cup {PipeFile})
  BY <1>1, <1>2, <1>3, WantedFile
<1>5. /\ SameButOne(y, e0, d) /\ y.fd[d].events = events /\ y.fd[d].reify = {}
      /\ y.fd[d].emask = a.emask /\ y.fd[d].egen = a.egen
  <2> HIDE DEF events, e0
  <2>1. QED
    BY <1>1, <1>4, SetEventsIs
<1>6. r = IF a.events # events \/ "set" \in a.reify THEN epoll_modify(s, d, a.events, events) ELSE s
  BY Zenon DEF ReifyOne, WantedOf
<1> HIDE DEF y, events
<1>7. y \in Loops /\ OneTold(y, e0, d) /\ y.postfork = e0.postfork /\ y.eperms = e0.eperms
  BY <1>5, OneIsTold DEF SameButOne
<1>8. RegsKnown(y, k0)
  <2>1. IsFiniteSet(k0.regs) /\ Reregistered(k0, k0, d)
    BY <1>1, NotReregistered DEF RegsKnown
  <2>2. \A q \in k0.regs : q.fd = d /\ q.file = k0.file[d] =>
             q.file \notin k0.regular /\ q.gen = y.fd[d].egen /\ y.fd[d].emask \in {{}, q.events}
    BY <1>1, <1>5 DEF RegsKnown
  <2> HIDE DEF k0, e0
  <2>3. QED
    BY <1>1, <1>3, <1>7, <2>1, <2>2, RegsKnownOne
<1>9. EpermsListed(y)
  <2>1. EpermsOne(y, e0, d)
    BY <1>1, <1>5, <1>7 DEF EpermsOne, EpermsListed
  <2> HIDE DEF e0
  <2>2. QED
    BY <1>1, <1>7, <2>1, EpermsKept
<1>10. CASE a.events # events \/ "set" \in a.reify
  <2>1. PICK u \in Loops, v \in Kernels :
            /\ epoll_modify(s, d, a.events, events) = [e |-> u, k |-> v]
            /\ Modified(u, v, y, k0, d, events)
    <3> HIDE DEF k0, e0, a
    <3>1. QED
      BY <1>1, <1>3, <1>4, <1>7, <1>8, <1>9, ModifyIs
  <2>2. r = [e |-> u, k |-> v]
    BY <1>6, <1>10, <2>1, Zenon
  <2>3. /\ OneTold(u, y, d) /\ u.postfork = y.postfork
        /\ u.fd[d].events = events /\ u.fd[d].reify = {}
        /\ Reregistered(v, k0, d) /\ RegsKnown(u, v) /\ EpermsListed(u)
        /\ events # {} => Watched(u, v, d, events)
    BY <1>5, <2>1 DEF Modified
  <2>4. OneTold(u, e0, d) /\ u.postfork = e0.postfork
    BY <1>7, <2>3 DEF OneTold
  <2>5. ToldOf(u, v, d)
    BY <2>3, KnownIs DEF ToldOf
  <2>6. Reifying([e |-> u, k |-> v], e, k)
    BY <2>3, <2>4, <2>5, OneReified DEF events
  <2>7. QED
    BY <2>2, <2>3, <2>4, <2>6 DEF OneTold, LoopAndKernel
<1>11. CASE ~(a.events # events \/ "set" \in a.reify)
  <2>1. r = s
    BY <1>6, <1>11, Zenon
  <2>2. ToldOf(e0, k0, d)
    BY DEF Reifying
  <2>3. ToldOf(y, k0, d)
    <3>1. y.fd[d].events = a.events /\ y.fd[d].emask = a.emask /\ "set" \notin a.reify
      BY <1>5, <1>11
    <3>2. Known(e0, k0, d) => Known(y, k0, d)
      BY <3>1 DEF Known
    <3>3. QED
      BY <2>2, <3>1, <3>2 DEF ToldOf
  <2>4. Reregistered(k0, k0, d)
    BY <1>1, NotReregistered
  <2>5. Reifying(s, e, k)
    BY <1>1, <1>5, <1>7, <1>8, <1>9, <2>3, <2>4, OneReified DEF events
  <2>6. QED
    BY <1>1, <1>5, <1>7, <2>1, <2>5 DEF OneTold, LoopAndKernel
<1>12. QED
  BY <1>10, <1>11

IsReify(f, x) ==
    f = [n \in 0..Len(x.e.changes) |-> IF n = 0 THEN x ELSE ReifyOne(f[n - 1], x.e.changes[n])]

WithChanges(e, changes) == [e EXCEPT !.changes = changes]

LEMMA WithChangesIs ==
  ASSUME NEW e \in Loops, NEW changes \in Seq(AllFds)
  PROVE  LET x == WithChanges(e, changes)
         IN  x \in Loops /\ SameButFd(x, e) /\ x.fd = e.fd /\ x.changes = changes
BY DEF WithChanges, Loops, SameButFd

\* fd_reify tells the kernel all there is to tell.
LEMMA FdReifyIs ==
  ASSUME NEW e \in Loops, LoopInv(e), NEW k \in Kernels, KernInv(e, k), ~e.postfork
  PROVE  LET r == fd_reify([e |-> e, k |-> k])
         IN  /\ r \in LoopAndKernel /\ LoopInv(r.e) /\ KernInv(r.e, r.k) /\ r.e.postfork = e.postfork
             /\ r.e.changes = <<>> /\ r.e.pend = e.pend /\ r.e.idx = e.idx /\ r.e.active = e.active
             /\ r.e.heap = e.heap /\ r.e.at = e.at /\ SameButRegs(r.k, k)
<1> DEFINE x == [e |-> e, k |-> k]
           ch == e.changes
           N == Len(ch)
           S == {y \in LoopAndKernel : Reifying(y, e, k)}
           F == [q \in S \X (1..N) |-> ReifyOne(q[1], ch[q[2]])]
<1>1. ch \in Seq(AllFds) /\ N \in Nat /\ \A i \in 1..N : ch[i] \in AllFds
  BY LoopFields
<1>20. x.e = e /\ x.k = k /\ x \in LoopAndKernel
  BY DEF LoopAndKernel
<1> HIDE DEF x
<1>2. x \in S
  <2>1. \A c \in AllFds : ToldOf(e, k, c)
    BY DEF KernInv, Told, ToldOf
  <2>2. Reifying(x, e, k)
    BY <1>20, <2>1 DEF Reifying, SameButRegs, LoopInv, KernInv
  <2>3. QED
    BY <1>20, <2>2
<1>0. IoListed(e) /\ FilesKnown(k) /\ WatchersInited(e, k)
  BY DEF LoopInv, KernInv
<1>3. ASSUME NEW y \in S, NEW d \in AllFds
      PROVE  /\ ReifyOne(y, d) \in S /\ ReifyOne(y, d).e.fd[d].reify = {}
             /\ \A c \in AllFds \ {d} : ReifyOne(y, d).e.fd[c] = y.e.fd[c]
  BY <1>0, ReifyOneIs
<1> HIDE DEF S, N, ch
<1>4. F \in [S \X (1..N) -> S]
  BY <1>1, <1>3, Zenon
<1>5. \A y \in S, i \in 1..N : F[<<y, i>>] = ReifyOne(y, ch[i])
  OBVIOUS
<1> HIDE DEF F
<1>6. PICK f0 : Rounds(f0, S, x, N, F)
  BY <1>1, <1>2, <1>4, RoundsExist, Zenon
<1>7. \A i \in 0..N : i = 0 \/ (i \in 1..N /\ i - 1 \in 0..N)
  BY <1>1
<1>8. \A i \in 0..N : f0[i] = IF i = 0 THEN x ELSE ReifyOne(f0[i - 1], ch[i])
  BY <1>5, <1>6, <1>7 DEF Rounds
<1>21. ch = x.e.changes /\ N = Len(x.e.changes)
  BY <1>20 DEF ch, N
<1>9. IsReify(f0, x)
  BY <1>6, <1>8, <1>21 DEF Rounds, IsReify
<1> DEFINE C == CHOOSE f : IsReify(f, x)
<1>10. fd_reify(x) = [e |-> [C[N].e EXCEPT !.changes = <<>>], k |-> C[N].k]
  BY <1>21, Zenon DEF fd_reify, IsReify
<1>11. IsReify(C, x)
  BY <1>9, Zenon
<1> HIDE DEF C
<1>12. \A i \in 0..N : C[i] = IF i = 0 THEN x ELSE ReifyOne(C[i - 1], ch[i])
  BY <1>11, <1>21 DEF IsReify
<1>13. C[0] = x /\ \A i \in 1..N : C[i] = ReifyOne(C[i - 1], ch[i])
  BY <1>1, <1>12
<1> DEFINE T == [i \in 0..N |-> {y \in S : \A j \in 1..i : y.e.fd[ch[j]].reify = {}}]
<1>14. C[0] \in T[0]
  <2>1. \A j \in 1..0 : FALSE
    OBVIOUS
  <2>2. 0 \in 0..N
    BY <1>1
  <2>3. QED
    BY <1>2, <1>13, <2>1, <2>2
<1>15. ASSUME NEW i \in 1..N, C[i - 1] \in T[i - 1] PROVE C[i] \in T[i]
  <2> DEFINE y == C[i - 1]
             d == ch[i]
             z == ReifyOne(y, d)
  <2>1. i - 1 \in 0..N /\ i \in 0..N /\ d \in AllFds /\ C[i] = z
    BY <1>1, <1>13
  <2>2. y \in S /\ \A j \in 1..(i - 1) : y.e.fd[ch[j]].reify = {}
    BY <1>15, <2>1
  <2>3. z \in S /\ z.e.fd[d].reify = {} /\ \A c \in AllFds \ {d} : z.e.fd[c] = y.e.fd[c]
    BY <1>3, <2>1, <2>2
  <2> HIDE DEF z, y
  <2>4. ASSUME NEW j \in 1..i PROVE z.e.fd[ch[j]].reify = {}
    <3>1. CASE ch[j] = d
      BY <2>3, <3>1
    <3>2. CASE ch[j] # d
      <4>1. j \in 1..(i - 1) /\ ch[j] \in AllFds
        BY <1>1, <3>2
      <4>2. QED
        BY <2>2, <2>3, <3>2, <4>1
    <3>3. QED
      BY <3>1, <3>2
  <2>5. QED
    BY <2>1, <2>3, <2>4
<1>16. C[N] \in T[N]
  <2> HIDE DEF T
  <2>1. QED
    BY <1>1, <1>14, <1>15, RoundsKeepEach
<1> DEFINE y == C[N]
           z == WithChanges(y.e, <<>>)
           r == [e |-> z, k |-> y.k]
<1>17. Reifying(y, e, k) /\ \A j \in 1..N : y.e.fd[ch[j]].reify = {}
  <2>0. N \in 0..N
    BY <1>1
  <2>1. y \in S /\ \A j \in 1..N : y.e.fd[ch[j]].reify = {}
    BY <1>16, <2>0, Zenon
  <2>2. QED
    BY <2>1 DEF S
<1>18. fd_reify(x) = r
  BY <1>10, Zenon DEF WithChanges
<1> HIDE DEF y
<1>19. y.e \in Loops /\ y.k \in Kernels
  BY <1>17 DEF Reifying
<1>22. z \in Loops /\ SameButFd(z, y.e) /\ z.fd = y.e.fd /\ z.changes = <<>>
  <2>1. <<>> \in Seq(AllFds)
    OBVIOUS
  <2>2. QED
    BY <1>19, <2>1, WithChangesIs
<1> HIDE DEF z
<1>23. \A c \in AllFds : z.fd[c].reify = {}
  <2> TAKE c \in AllFds
  <2>1. CASE c \in ToSet(ch)
    <3>1. PICK j \in 1..N : ch[j] = c
      BY <1>1, <2>1 DEF ToSet, N
    <3>2. QED
      BY <1>17, <1>22, <3>1
  <2>2. CASE c \notin ToSet(ch)
    <3>1. e.fd[c].reify = {}
      BY <2>2 DEF LoopInv, Changed, ch
    <3>2. QED
      BY <1>17, <1>22, <3>1 DEF Reifying
  <2>3. QED
    BY <2>1, <2>2
<1>24. Changed(z)
  <2>1. IsInjective(<<>>) /\ ToSet(<<>>) = {}
    BY DEF IsInjective, ToSet
  <2>2. QED
    BY <1>22, <1>23, <2>1 DEF Changed
<1>25. /\ z.active = e.active /\ z.cnt = e.cnt /\ z.pend = e.pend /\ z.idx = e.idx
       /\ z.heap = e.heap /\ z.at = e.at /\ z.now = e.now /\ z.asyncs = e.asyncs
       /\ z.postfork = e.postfork
  BY <1>17, <1>22 DEF Reifying, SameButFd
<1>26. Reified(z) /\ EpermsListed(z)
  <2>1. Reified(y.e) /\ EpermsListed(y.e) /\ z.eperms = y.e.eperms
    BY <1>17, <1>22 DEF Reifying, SameButFd
  <2>2. QED
    BY <1>22, <2>1, Zenon DEF Reified, EpermsListed, WantedOf
<1>27. IoListed(z)
  <2>1. \A c \in AllFds : z.fd[c].head = e.fd[c].head
    BY <1>17, <1>22 DEF Reifying
  <2>2. QED
    BY <1>0, <1>25, <2>1 DEF IoListed, AllFds
<1>28. Counted(z)
  BY <1>25 DEF Counted, LoopInv
<1>29. LoopInv(z)
  BY <1>24, <1>25, <1>26, <1>27, <1>28, KeepExact, KeepTimers, KeepAsyncs, Zenon DEF LoopInv
<1>30. KernInv(z, y.k)
  <2>1. SameButRegs(y.k, k)
    BY <1>17 DEF Reifying
  <2>2. FilesKnown(y.k) /\ WatchersInited(z, y.k)
    BY <1>0, <1>25, <2>1, Zenon DEF FilesKnown, WatchersInited, SameButRegs
  <2>3. RegsKnown(z, y.k)
    BY <1>17, <1>22, Zenon DEF Reifying, RegsKnown
  <2>4. \A c \in AllFds : ToldOf(z, y.k, c)
    <3>1. \A c \in AllFds : ToldOf(y.e, y.k, c)
      BY <1>17 DEF Reifying
    <3>2. QED
      BY <1>22, <3>1, Zenon DEF ToldOf, Known
  <2>5. Told(z, y.k)
    BY <2>4 DEF Told, ToldOf
  <2>6. QED
    BY <2>2, <2>3, <2>5 DEF KernInv
<1>31. r \in LoopAndKernel /\ r.e = z /\ r.k = y.k
  BY <1>19, <1>22 DEF LoopAndKernel
<1>32. SameButRegs(r.k, k)
  BY <1>17, <1>31 DEF Reifying
<1>33. QED
  BY <1>18, <1>22, <1>25, <1>29, <1>30, <1>31, <1>32 DEF x, r


----------------------------------------------------------------------------
(* A fork: epoll_fork forgets what the kernel was told *)

\* SetToSeq lists a finite set, each element once.
LEMMA ListIs ==
  ASSUME NEW S, IsFiniteSet(S)
  PROVE  SetToSeq(S) \in Seq(S) /\ IsInjective(SetToSeq(S)) /\ ToSet(SetToSeq(S)) = S
<1> DEFINE n == Cardinality(S)
           s == SetToSeq(S)
<1>1. n \in Nat /\ ExistsBijection(1..n, S)
  BY FS_CardinalityType
<1>2. PICK f \in [1..n -> S] : IsInjective(f)
  BY <1>1 DEF ExistsBijection, Bijection, Injection, IsInjective
<1>3. s \in [1..n -> S] /\ IsInjective(s)
  BY <1>2 DEF SetToSeq
<1> HIDE DEF s
<1>4. s \in Injection(1..n, S)
  BY <1>3 DEF Injection, IsInjective
<1>5. IsFiniteSet(1..n) /\ Cardinality(1..n) = n
  BY <1>1, FS_Interval
<1> HIDE DEF n
<1>6. s \in Surjection(1..n, S)
  <2>1. Cardinality(1..n) = Cardinality(S)
    BY <1>5 DEF n
  <2>2. QED
    BY <1>4, <2>1, FS_Injection
<1>7. ToSet(s) = S
  BY <1>3, <1>6 DEF Surjection, ToSet
<1>8. s \in Seq(S)
  BY <1>1, <1>3
<1>9. QED
  BY <1>3, <1>7, <1>8 DEF s

\* Two lists that have nothing in common.
LEMMA ConcatNew ==
  ASSUME NEW S, NEW s \in Seq(S), NEW t \in Seq(S), IsInjective(s), IsInjective(t),
         ToSet(s) \cap ToSet(t) = {}
  PROVE  s \o t \in Seq(S) /\ IsInjective(s \o t) /\ ToSet(s \o t) = ToSet(s) \cup ToSet(t)
<1> DEFINE u == s \o t
           m == Len(s)
           n == Len(t)
<1>1. /\ u \in Seq(S) /\ m \in Nat /\ n \in Nat /\ DOMAIN s = 1..m /\ DOMAIN t = 1..n
      /\ DOMAIN u = 1..(m + n)
  OBVIOUS
<1>2. \A j \in 1..m : u[j] = s[j]
  OBVIOUS
<1>3. \A j \in (m + 1)..(m + n) : u[j] = t[j - m]
  OBVIOUS
<1>4. \A j \in 1..n : u[j + m] = t[j]
  OBVIOUS
<1> HIDE DEF u, m, n
<1>5. \A j \in 1..(m + n) : j \in 1..m \/ (j \in (m + 1)..(m + n) /\ j - m \in 1..n)
  BY <1>1
<1>6. \A i \in 1..m, j \in 1..n : s[i] # t[j]
  BY <1>1 DEF ToSet
<1>7. IsInjective(u)
  <2> SUFFICES ASSUME NEW a \in 1..(m + n), NEW b \in 1..(m + n), u[a] = u[b] PROVE a = b
    BY <1>1 DEF IsInjective
  <2>1. CASE a \in 1..m /\ b \in 1..m
    BY <1>1, <1>2, <2>1 DEF IsInjective
  <2>2. CASE a \notin 1..m /\ b \notin 1..m
    <3>1. a - m \in 1..n /\ b - m \in 1..n /\ t[a - m] = t[b - m]
      BY <1>3, <1>5, <2>2
    <3>2. a - m = b - m
      BY <1>1, <3>1 DEF IsInjective
    <3>3. QED
      BY <1>1, <3>2
  <2>3. CASE a \in 1..m /\ b \notin 1..m
    BY <1>2, <1>3, <1>5, <1>6, <2>3
  <2>4. CASE a \notin 1..m /\ b \in 1..m
    BY <1>2, <1>3, <1>5, <1>6, <2>4
  <2>5. QED
    BY <2>1, <2>2, <2>3, <2>4
<1>8. ToSet(u) = ToSet(s) \cup ToSet(t)
  <2>1. \A x \in ToSet(u) : x \in ToSet(s) \cup ToSet(t)
    BY <1>1, <1>2, <1>3, <1>5 DEF ToSet
  <2>2. \A j \in 1..m : j \in 1..(m + n)
    BY <1>1
  <2>3. \A j \in 1..n : j + m \in 1..(m + n)
    BY <1>1
  <2>4. \A x \in ToSet(s) \cup ToSet(t) : x \in ToSet(u)
    BY <1>1, <1>2, <1>4, <2>2, <2>3 DEF ToSet
  <2>5. QED
    BY <2>1, <2>4
<1>9. QED
  BY <1>1, <1>7, <1>8 DEF u

LEMMA RearmedIs ==
  ASSUME NEW a \in Anfds
  PROVE  LET b == Rearmed(a)
         IN  /\ b \in Anfds /\ b.head = a.head /\ b.events = {} /\ b.emask = {} /\ b.egen = a.egen
             /\ b.reify = {"set", "reify"}
BY DEF Rearmed, Anfds

\* loop_fork: the kernel knows nothing any more, and everything is to be told.
LEMMA LoopForkIs ==
  ASSUME NEW e \in Loops, LoopInv(e), NEW k \in Kernels, KernInv(e, k)
  PROVE  \E x \in Loops, z \in Kernels :
            /\ loop_fork([e |-> e, k |-> k]) = [e |-> x, k |-> z]
            /\ LoopInv(x) /\ KernInv(x, z) /\ ~x.postfork
            /\ x.pend = e.pend /\ x.idx = e.idx /\ x.active = e.active
            /\ x.heap = e.heap /\ x.at = e.at /\ SameButRegs(z, k)
<1> DEFINE s == [e |-> e, k |-> k]
<1>0. s.e = e /\ s.k = k
  OBVIOUS
<1> HIDE DEF s
<1>1. CASE ~e.postfork
  <2>1. loop_fork(s) = [e |-> e, k |-> k]
    BY <1>0, <1>1 DEF loop_fork, s
  <2>2. SameButRegs(k, k)
    BY DEF SameButRegs
  <2>3. QED
    BY <1>1, <2>1, <2>2 DEF s
<1>2. CASE e.postfork
  <2> DEFINE R == {d \in AllFds : e.fd[d].events # {}}
             T == {d \in R : e.fd[d].reify = {}}
             fd == [d \in AllFds |-> IF d \in R THEN Rearmed(e.fd[d]) ELSE e.fd[d]]
             t == SetToSeq(T)
             ch == e.changes \o t
             y == WithFd(e, fd, ch)
             x == WithPostfork(y, FALSE)
             z == WithRegs(k, {})
  <2>1. loop_fork(s) = [e |-> x, k |-> z]
    <3>1. epoll_fork(s) = [e |-> y, k |-> z]
      BY <1>0, Zenon DEF epoll_fork, WithFd, WithRegs
    <3>2. QED
      BY <1>0, <1>2, <3>1 DEF loop_fork, WithPostfork
  <2>2. \A d \in AllFds : e.fd[d] \in Anfds
    BY LoopFields
  <2>3. \A d \in AllFds : d \in R => fd[d] = Rearmed(e.fd[d]) /\ fd[d] \in Anfds
    BY <2>2, RearmedIs
  <2>4. \A d \in AllFds : d \notin R => fd[d] = e.fd[d] /\ fd[d] \in Anfds
    BY <2>2
  <2>5. fd \in [AllFds -> Anfds]
    BY <2>3, <2>4
  <2>6. IsFiniteSet(T)
    <3>1. IsFiniteSet(AllFds)
      BY LoopAssumption, FS_AddElement DEF AllFds
    <3>2. QED
      BY <3>1, FS_Subset
  <2> HIDE DEF fd
  <2>7. t \in Seq(T) /\ IsInjective(t) /\ ToSet(t) = T
    BY <2>6, ListIs
  <2>8. t \in Seq(AllFds)
    <3> HIDE DEF t
    <3>1. T \subseteq AllFds
      OBVIOUS
    <3>2. QED
      BY <2>7, <3>1
  <2> HIDE DEF t
  <2>9. e.changes \in Seq(AllFds) /\ IsInjective(e.changes) /\ ToSet(e.changes) = {d \in AllFds : e.fd[d].reify # {}}
    BY LoopFields DEF LoopInv, Changed
  <2>10. ToSet(e.changes) \cap ToSet(t) = {}
    BY <2>7, <2>9
  <2>11. /\ ch \in Seq(AllFds) /\ IsInjective(ch)
         /\ ToSet(ch) = {d \in AllFds : e.fd[d].reify # {}} \cup T
    BY <2>7, <2>8, <2>9, <2>10, ConcatNew
  <2> HIDE DEF ch
  <2>12. y \in Loops /\ SameButFd(y, e) /\ y.fd = fd /\ y.changes = ch
    BY <2>5, <2>11, WithFdIs
  <2> HIDE DEF y
  <2>13. /\ x \in Loops /\ ~x.postfork /\ x.fd = fd /\ x.changes = ch /\ x.eperms = e.eperms
         /\ x.active = e.active /\ x.cnt = e.cnt /\ x.pend = e.pend /\ x.idx = e.idx
         /\ x.heap = e.heap /\ x.at = e.at /\ x.asyncs = e.asyncs
    <3>1. /\ x \in Loops
          /\ x.postfork = FALSE /\ x.active = y.active /\ x.cnt = y.cnt
          /\ x.pend = y.pend /\ x.idx = y.idx /\ x.fd = y.fd /\ x.changes = y.changes
          /\ x.heap = y.heap /\ x.at = y.at /\ x.asyncs = y.asyncs /\ x.eperms = y.eperms
      BY <2>12, WithPostforkIs
    <3>2. QED
      BY <2>12, <3>1 DEF SameButFd
  <2>14. z \in Kernels /\ SameButRegs(z, k) /\ z.regs = {}
    BY WithRegsIs
  <2> HIDE DEF x, z
  <2>15. ASSUME NEW d \in AllFds
         PROVE  /\ x.fd[d].head = e.fd[d].head /\ x.fd[d].events = {}
                /\ x.fd[d].reify = {} => x.fd[d] = e.fd[d]
                /\ x.fd[d].reify # {} <=> (e.fd[d].reify # {} \/ d \in T)
                /\ "P" \in x.fd[d].emask => "P" \in e.fd[d].emask
    <3>1. CASE d \in R
      <4>1. /\ x.fd[d].head = e.fd[d].head /\ x.fd[d].events = {} /\ x.fd[d].emask = {}
            /\ x.fd[d].reify = {"set", "reify"}
        BY <2>2, <2>3, <2>13, <3>1, RearmedIs
      <4>2. QED
        BY <3>1, <4>1
    <3>2. CASE d \notin R
      <4>1. x.fd[d] = e.fd[d] /\ e.fd[d].events = {}
        BY <2>4, <2>13, <3>2
      <4>2. QED
        BY <3>2, <4>1
    <3>3. QED
      BY <3>1, <3>2
  <2>16. Changed(x)
    BY <2>11, <2>13, <2>15 DEF Changed
  <2>17. Reified(x)
    <3>1. Reified(e)
      BY DEF LoopInv
    <3>2. ASSUME NEW d \in AllFds, x.fd[d].reify = {} PROVE x.fd[d].events = WantedOf(x, d)
      <4>1. x.fd[d] = e.fd[d]
        BY <2>15, <3>2
      <4>2. WantedOf(x, d) = WantedOf(e, d)
        BY <4>1, Zenon DEF WantedOf
      <4>3. QED
        BY <3>1, <3>2, <4>1, <4>2 DEF Reified
    <3>3. QED
      BY <3>2 DEF Reified
  <2>18. EpermsListed(x)
    BY <2>13, <2>15 DEF EpermsListed, LoopInv
  <2>19. IoListed(x)
    <3>1. IoListed(e) /\ PipeFd \in AllFds /\ \A d \in Fds : d \in AllFds
      BY DEF LoopInv, AllFds
    <3>2. \A d \in AllFds : x.fd[d].head = e.fd[d].head
      BY <2>15
    <3>3. QED
      BY <2>13, <3>1, <3>2, Zenon DEF IoListed
  <2>20. Counted(x)
    <3>1. Counted(e)
      BY DEF LoopInv
    <3>2. QED
      BY <2>13, <3>1, Zenon DEF Counted
  <2>21. LoopInv(x)
    BY <2>13, <2>16, <2>17, <2>18, <2>19, <2>20, KeepExact, KeepTimers, KeepAsyncs, Zenon DEF LoopInv
  <2>22. FilesKnown(z) /\ WatchersInited(x, z)
    BY <2>13, <2>14, Zenon DEF KernInv, FilesKnown, WatchersInited, SameButRegs
  <2>23. RegsKnown(x, z)
    BY <2>14, FS_EmptySet DEF RegsKnown
  <2>24. Told(x, z)
    BY <2>15 DEF Told
  <2>25. KernInv(x, z)
    BY <2>22, <2>23, <2>24 DEF KernInv
  <2>26. QED
    BY <2>1, <2>13, <2>14, <2>21, <2>25 DEF s
<1>3. QED
  BY <1>1, <1>2

----------------------------------------------------------------------------
(* Polling *)

\* The events of a descriptor are for active watchers.
LEMMA FdEventIs ==
  ASSUME NEW e \in Loops, LoopInv(e), NEW d \in AllFds, NEW got
  PROVE  Fed(fd_event(e, d, got), e, e.active)
<1> DEFINE h == e.fd[d].head
           revents == [w \in ToSet(h) |-> EventsOf(w) \cap got]
<1>1. Exact(e) /\ IoListed(e) /\ Counted(e)
  BY DEF LoopInv
<1>2. CASE e.fd[d].reify # {}
  <2>1. fd_event(e, d, got) = e
    BY <1>2 DEF fd_event
  <2>2. QED
    BY <1>1, <2>1, FedNone
<1>3. CASE e.fd[d].reify = {}
  <2>1. fd_event(e, d, got) = FeedAll(e, h, revents)
    BY <1>3, Zenon DEF fd_event, fd_event_nocheck
  <2>2. e.fd[d] \in Anfds
    BY LoopFields
  <2>3. h \in Seq(Ios \cup {pipe_w})
    BY <2>2, AnfdFields
  <2>4. ToSet(h) \subseteq e.active
    <3>1. CASE d = PipeFd
      <4>1. h = <<pipe_w>>
        BY <1>1, <3>1 DEF IoListed
      <4> HIDE DEF h
      <4>2. ToSet(h) = {pipe_w}
        BY <4>1 DEF ToSet
      <4>3. QED
        BY <1>1, <4>2 DEF Counted, Own
    <3>2. CASE d # PipeFd
      BY <1>1, <3>2 DEF IoListed, AllFds
    <3>3. QED
      BY <3>1, <3>2
  <2>5. Ios \cup {pipe_w} \subseteq All
    BY Names, Kinds
  <2> HIDE DEF h
  <2>6. h \in Seq(All)
    BY <2>3, <2>5
  <2>7. \A i \in 1..Len(h) : h[i] \in ToSet(h) /\ h[i] \in Ios \cup {pipe_w}
    BY <2>3 DEF ToSet
  <2>8. \A i \in 1..Len(h) : h[i] \in e.active /\ revents[h[i]] \in SUBSET Flags
    BY <2>4, <2>7, WatcherEvents
  <2> HIDE DEF revents
  <2>9. QED
    BY <1>1, <2>1, <2>6, <2>8, FedAll
<1>4. QED
  BY <1>2, <1>3

LEMMA KernFed ==
  ASSUME NEW e, NEW x, NEW k, KernInv(e, k), x.fd = e.fd, x.active = e.active, x.postfork = e.postfork
  PROVE  KernInv(x, k)
<1>1. RegsKnown(x, k) /\ FilesKnown(k) /\ WatchersInited(x, k)
  BY Zenon DEF KernInv, RegsKnown, WatchersInited
<1>2. Told(x, k)
  BY Zenon DEF KernInv, Told, Known
<1>3. QED
  BY <1>1, <1>2 DEF KernInv

\* What is said of the others when descriptor d is told something.
LEMMA MaskChanges ==
  ASSUME NEW e \in Loops, NEW k \in Kernels, LoopInv(e), KernInv(e, k), NEW d \in AllFds,
         NEW y \in Loops, NEW z \in Kernels, OneTold(y, e, d),
         y.fd[d].events = e.fd[d].events, y.fd[d].reify = e.fd[d].reify,
         Reregistered(z, k, d), RegsKnown(y, z), EpermsListed(y),
         ~y.postfork => ~e.postfork /\ ToldOf(y, z, d)
  PROVE  LoopInv(y) /\ KernInv(y, z)
<1>1. \A c \in AllFds : /\ y.fd[c].head = e.fd[c].head /\ y.fd[c].events = e.fd[c].events
                        /\ y.fd[c].reify = e.fd[c].reify
  BY DEF OneTold
<1>2. /\ y.active = e.active /\ y.cnt = e.cnt /\ y.pend = e.pend /\ y.idx = e.idx
      /\ y.heap = e.heap /\ y.at = e.at /\ y.asyncs = e.asyncs /\ y.changes = e.changes
  BY DEF OneTold
<1>3. Changed(y) /\ Reified(y)
  <2>1. Changed(e) /\ Reified(e)
    BY DEF LoopInv
  <2>2. Changed(y)
    BY <1>1, <1>2, <2>1 DEF Changed
  <2>3. \A c \in AllFds : WantedOf(y, c) = WantedOf(e, c)
    BY <1>1, Zenon DEF WantedOf
  <2>4. QED
    BY <1>1, <2>1, <2>2, <2>3 DEF Reified
<1>4. IoListed(y)
  <2>1. IoListed(e) /\ PipeFd \in AllFds /\ \A c \in Fds : c \in AllFds
    BY DEF LoopInv, AllFds
  <2>2. QED
    BY <1>1, <1>2, <2>1, Zenon DEF IoListed
<1>5. Counted(y)
  <2>1. Counted(e)
    BY DEF LoopInv
  <2>2. QED
    BY <1>2, <2>1, Zenon DEF Counted
<1>6. LoopInv(y)
  BY <1>2, <1>3, <1>4, <1>5, KeepExact, KeepTimers, KeepAsyncs, Zenon DEF LoopInv
<1>7. FilesKnown(z) /\ WatchersInited(y, z)
  BY <1>2, Zenon DEF KernInv, FilesKnown, WatchersInited, Reregistered, SameButRegs
<1>8. Told(y, z)
  <2> SUFFICES ASSUME ~y.postfork PROVE \A c \in AllFds : ToldOf(y, z, c)
    BY DEF Told, ToldOf
  <2> TAKE c \in AllFds
  <2>1. CASE c = d
    BY <2>1
  <2>2. CASE c # d
    <3>1. ToldOf(e, k, c)
      BY DEF KernInv, Told, ToldOf
    <3>2. (Known(e, k, c) <=> Known(y, z, c)) /\ (InUse(z, c) <=> InUse(k, c))
      BY <2>2, KnownOthers
    <3>3. QED
      BY <1>1, <3>1, <3>2 DEF ToldOf
  <2>3. QED
    BY <2>1, <2>2
<1>9. QED
  BY <1>6, <1>7, <1>8 DEF KernInv

\* x: the loop and the kernel in the course of epoll_poll.
Polling(x, e, k) ==
    /\ x.e \in Loops /\ x.k \in Kernels /\ LoopInv(x.e) /\ KernInv(x.e, x.k) /\ SameButRegs(x.k, k)
    /\ x.e.active = e.active
    /\ \A w \in All : e.idx[w] > 0 => x.e.idx[w] > 0
    /\ \A w \in All \ e.active : x.e.idx[w] = e.idx[w]

\* What is told of a descriptor, then its events.
LEMMA PollingOn ==
  ASSUME NEW e, NEW k, NEW x, Polling(x, e, k), NEW y \in Loops, NEW z \in Kernels,
         y.active = x.e.active, y.idx = x.e.idx, SameButRegs(z, x.k), LoopInv(y), KernInv(y, z),
         NEW f, Fed(f, y, y.active)
  PROVE  Polling([e |-> f, k |-> z], e, k)
<1> DEFINE n == [e |-> f, k |-> z]
<1>1. n.e = f /\ n.k = z
  OBVIOUS
<1> HIDE DEF n
<1>2. f \in Loops /\ Exact(f) /\ SameLists(f, y)
  BY DEF Fed
<1>3. LoopInv(f)
  BY <1>2, FedInv
<1>4. KernInv(f, z)
  BY <1>2, KernFed DEF SameLists
<1>5. SameButRegs(z, k)
  BY DEF Polling, SameButRegs
<1>6. f.active = e.active
  BY <1>2 DEF Polling, SameLists
<1>7. \A w \in All : e.idx[w] > 0 => f.idx[w] > 0
  BY DEF Polling, Fed
<1>8. \A w \in All \ e.active : f.idx[w] = e.idx[w]
  BY DEF Polling, Fed
<1>9. QED
  BY <1>1, <1>2, <1>3, <1>4, <1>5, <1>6, <1>7, <1>8 DEF Polling, n

\* No event is fed.
LEMMA PollingQuiet ==
  ASSUME NEW e, NEW k, NEW x, Polling(x, e, k), NEW y \in Loops, NEW z \in Kernels,
         y.active = x.e.active, y.idx = x.e.idx, SameButRegs(z, x.k), LoopInv(y), KernInv(y, z)
  PROVE  Polling([e |-> y, k |-> z], e, k)
<1>1. Fed(y, y, y.active)
  BY FedNone DEF LoopInv
<1>2. QED
  BY <1>1, PollingOn

\* A descriptor that has a registration for its file is one that epoll takes.
LEMMA RegisteredIs ==
  ASSUME NEW e \in Loops, NEW k \in Kernels, RegsKnown(e, k), NEW d \in AllFds, Registered(k, d) # {}
  PROVE  k.file[d] \notin k.regular /\ k.file[d] \in Files \cup {PipeFile}
<1>1. PICK q \in k.regs : q.fd = d /\ q.file = k.file[d]
  BY DEF Registered
<1>2. q \in Regs
  BY KernFields
<1>3. QED
  BY <1>1, <1>2, RegFields DEF RegsKnown

\* The loop gives up on what the kernel was told: it will be told again.
LEMMA AgainIs ==
  ASSUME NEW e \in Loops, NEW k \in Kernels, LoopInv(e), RegsKnown(e, k), FilesKnown(k),
         WatchersInited(e, k)
  PROVE  LET y == WithPostfork(e, TRUE)
         IN  /\ y \in Loops /\ LoopInv(y) /\ KernInv(y, k) /\ y.active = e.active /\ y.idx = e.idx
             /\ y.postfork
<1> DEFINE y == WithPostfork(e, TRUE)
<1>1. /\ y \in Loops
      /\ y.postfork = TRUE /\ y.active = e.active /\ y.cnt = e.cnt
      /\ y.pend = e.pend /\ y.idx = e.idx /\ y.fd = e.fd /\ y.changes = e.changes
      /\ y.heap = e.heap /\ y.at = e.at /\ y.now = e.now
      /\ y.asyncs = e.asyncs /\ y.eperms = e.eperms
  BY WithPostforkIs
<1> HIDE DEF y
<1>2. LoopInv(y)
  <2>1. Counted(y)
    BY <1>1, Zenon DEF LoopInv, Counted
  <2>2. QED
    BY <1>1, <2>1, KeepExact, KeepIos, KeepTimers, KeepAsyncs, KeepFds, Zenon DEF LoopInv
<1>3. RegsKnown(y, k) /\ WatchersInited(y, k)
  BY <1>1, Zenon DEF RegsKnown, WatchersInited
<1>4. Told(y, k)
  BY <1>1 DEF Told
<1>5. QED
  BY <1>1, <1>2, <1>3, <1>4 DEF KernInv, y

\* An event that the kernel reports: an epoll_ctl corrects what it watches, or
\* shows that it watches what the loop does not know of.
LEMMA EpollEventIs ==
  ASSUME NEW e, NEW k, NEW x \in LoopAndKernel, Polling(x, e, k), NEW r \in Regs, NEW got
  PROVE  EpollEvent(x, r, got) \in LoopAndKernel /\ Polling(EpollEvent(x, r, got), e, k)
<1> DEFINE a == x.e
           z == x.k
           d == r.fd
           A == a.fd[d]
           want == A.events
           told == SetMask(a, d, want, A.egen)
           again(y) == [y EXCEPT !.postfork = TRUE]
           n == EpollEvent(x, r, got)
<1>1. a \in Loops /\ z \in Kernels /\ LoopInv(a) /\ KernInv(a, z) /\ d \in AllFds /\ r.gen \in Nat
  BY RegFields DEF Polling
<1>2. A \in Anfds /\ A.egen \in Nat /\ want \in SUBSET {"R", "W"} /\ want \in SUBSET {"R", "W", "P"}
  <2>1. A \in Anfds
    BY <1>1, LoopFields
  <2> HIDE DEF A
  <2>2. QED
    BY <2>1, AnfdFields
<1>3. RegsKnown(a, z) /\ FilesKnown(z) /\ WatchersInited(a, z) /\ EpermsListed(a) /\ SameButRegs(z, z)
  BY <1>1 DEF KernInv, LoopInv, SameButRegs
<1>4. \A y : again(y) = WithPostfork(y, TRUE)
  BY DEF WithPostfork
<1>5. /\ A.egen # r.gen => n = [e |-> again(a), k |-> z]
      /\ A.egen = r.gen /\ got \subseteq want => n = [e |-> fd_event(a, d, got), k |-> z]
      /\ A.egen = r.gen /\ ~(got \subseteq want) /\ Registered(z, d) = {} => n = [e |-> again(told), k |-> z]
      /\ A.egen = r.gen /\ ~(got \subseteq want) /\ Registered(z, d) # {}
            => n = [e |-> fd_event(told, d, got),
                    k |-> IF want = {} THEN [z EXCEPT !.regs = @ \ Registered(z, d)]
                          ELSE Register(z, d, want, r.gen)]
  BY Zenon DEF EpollEvent
<1> HIDE DEF n
<1>6. ASSUME NEW f \in Loops, NEW g \in Kernels PROVE [e |-> f, k |-> g] \in LoopAndKernel
  BY DEF LoopAndKernel
<1>7. CASE A.egen # r.gen
  <2> DEFINE y == WithPostfork(a, TRUE)
  <2>1. y \in Loops /\ LoopInv(y) /\ KernInv(y, z) /\ y.active = a.active /\ y.idx = a.idx
    <3> HIDE DEF a, z
    <3>1. QED
      BY <1>1, <1>3, AgainIs
  <2>2. n = [e |-> y, k |-> z]
    BY <1>4, <1>5, <1>7
  <2> HIDE DEF y
  <2>3. Polling([e |-> y, k |-> z], e, k)
    BY <1>1, <1>3, <2>1, PollingQuiet
  <2>4. QED
    BY <1>1, <1>6, <2>1, <2>2, <2>3 DEF n
<1>8. CASE A.egen = r.gen /\ got \subseteq want
  <2> DEFINE f == fd_event(a, d, got)
  <2>1. Fed(f, a, a.active)
    <3> HIDE DEF a
    <3>1. QED
      BY <1>1, FdEventIs
  <2>2. n = [e |-> f, k |-> z]
    BY <1>5, <1>8
  <2> HIDE DEF f
  <2>3. Polling([e |-> f, k |-> z], e, k)
    BY <1>1, <1>3, <2>1, PollingOn
  <2>4. f \in Loops
    BY <2>1 DEF Fed
  <2>5. QED
    BY <1>1, <1>6, <2>2, <2>3, <2>4 DEF n
<1>9. /\ SameButOne(told, a, d) /\ told.fd[d].events = want
      /\ told.fd[d].reify = A.reify /\ told.fd[d].emask = want /\ told.fd[d].egen = A.egen
  <2> HIDE DEF a
  <2>1. QED
    BY <1>1, <1>2, SetMaskIs
<1> HIDE DEF told
<1>10. told \in Loops /\ OneTold(told, a, d) /\ told.postfork = a.postfork /\ told.eperms = a.eperms
  BY <1>9, OneIsTold DEF SameButOne
<1>11. EpermsListed(told)
  <2>1. EpermsOne(told, a, d)
    BY <1>2, <1>9 DEF EpermsOne
  <2> HIDE DEF a
  <2>2. QED
    BY <1>1, <1>3, <1>10, <2>1, EpermsKept
<1>12. told.active = a.active /\ told.idx = a.idx
  BY <1>10 DEF OneTold
<1>13. CASE Registered(z, d) = {} /\ A.egen = r.gen /\ ~(got \subseteq want)
  <2> DEFINE y == WithPostfork(told, TRUE)
  <2>1. RegsKnown(told, z)
    <3>1. \A q \in z.regs : ~(q.fd = d /\ q.file = z.file[d])
      BY <1>13 DEF Registered
    <3>2. IsFiniteSet(z.regs) /\ Reregistered(z, z, d)
      BY <1>1, <1>3, NotReregistered DEF RegsKnown
    <3> HIDE DEF a, z
    <3>3. QED
      BY <1>1, <1>3, <1>10, <3>1, <3>2, RegsKnownOne
  <2>2. /\ y \in Loops /\ y.postfork = TRUE /\ y.active = told.active /\ y.cnt = told.cnt
        /\ y.pend = told.pend /\ y.idx = told.idx /\ y.fd = told.fd /\ y.changes = told.changes
        /\ y.heap = told.heap /\ y.at = told.at /\ y.now = told.now
        /\ y.asyncs = told.asyncs /\ y.eperms = told.eperms
    BY <1>10, WithPostforkIs
  <2>3. n = [e |-> y, k |-> z]
    BY <1>4, <1>5, <1>13
  <2> HIDE DEF y
  <2>4. OneTold(y, a, d) /\ y.fd[d].events = a.fd[d].events /\ y.fd[d].reify = a.fd[d].reify
    BY <1>9, <1>10, <2>2 DEF OneTold
  <2>5. RegsKnown(y, z) /\ EpermsListed(y)
    BY <1>11, <2>1, <2>2, Zenon DEF RegsKnown, EpermsListed
  <2>6. LoopInv(y) /\ KernInv(y, z)
    <3>1. Reregistered(z, z, d)
      BY <1>1, NotReregistered
    <3> HIDE DEF a, z, d
    <3>2. QED
      BY <1>1, <2>2, <2>4, <2>5, <3>1, MaskChanges
  <2>7. Polling([e |-> y, k |-> z], e, k)
    BY <1>1, <1>3, <1>12, <2>2, <2>6, PollingQuiet
  <2>8. QED
    BY <1>1, <1>6, <2>2, <2>3, <2>7 DEF n
<1>14. CASE Registered(z, d) # {} /\ A.egen = r.gen /\ ~(got \subseteq want)
  <2> DEFINE g == IF want = {} THEN [z EXCEPT !.regs = @ \ Registered(z, d)]
                  ELSE Register(z, d, want, r.gen)
             f == fd_event(told, d, got)
  <2>1. z.file[d] \notin z.regular /\ z.file[d] \in Files \cup {PipeFile}
    <3> HIDE DEF a, z, d
    <3>1. QED
      BY <1>1, <1>3, <1>14, RegisteredIs
  <2>2. /\ Reregistered(g, z, d) /\ IsFiniteSet(g.regs)
        /\ \A q \in g.regs : q.fd = d /\ q.file = z.file[d] => q.events = want /\ q.gen = r.gen
        /\ want # {} => \E q \in Registered(g, d) : q.events = want
    <3>1. IsFiniteSet(z.regs)
      BY <1>3 DEF RegsKnown
    <3> HIDE DEF z, d, A
    <3>2. CASE want = {}
      <4>1. g = [z EXCEPT !.regs = @ \ Registered(z, d)]
        BY <3>2
      <4>2. QED
        BY <1>1, <3>1, <3>2, <4>1, UnregisterIs
    <3>3. CASE want # {}
      <4>1. g = Register(z, d, want, r.gen)
        BY <3>3
      <4>2. want \in SUBSET {"R", "W"} /\ r.gen \in Nat /\ z \in Kernels /\ d \in AllFds
        BY <1>1, <1>2
      <4> DEFINE gen == r.gen
                 u == Register(z, d, want, gen)
      <4> HIDE DEF g, want
      <4>3. /\ Reregistered(u, z, d) /\ (IsFiniteSet(z.regs) => IsFiniteSet(u.regs))
            /\ \A q \in u.regs : q.fd = d /\ q.file = z.file[d] => q.events = want /\ q.gen = gen
            /\ \E q \in Registered(u, d) : q.events = want
        <5>1. gen \in Nat /\ z.file[d] \in Files \cup {PipeFile}
          BY <2>1, <4>2
        <5> HIDE DEF gen
        <5>2. QED
          BY <4>2, <5>1, RegisterIs
      <4>4. QED
        BY <3>1, <4>1, <4>3, Zenon
    <3>4. QED
      BY <3>2, <3>3
  <2>3. n = [e |-> f, k |-> g]
    BY <1>5, <1>14
  <2> HIDE DEF g
  <2>4. g \in Kernels /\ SameButRegs(g, z)
    BY <2>2 DEF Reregistered
  <2>5. RegsKnown(told, g)
    <3>1. \A q \in g.regs : q.fd = d /\ q.file = z.file[d] =>
             q.file \notin z.regular /\ q.gen = told.fd[d].egen /\ told.fd[d].emask \in {{}, q.events}
      BY <1>9, <1>14, <2>1, <2>2
    <3> HIDE DEF a, z, d
    <3>2. QED
      BY <1>1, <1>3, <1>10, <2>2, <2>4, <3>1, RegsKnownOne
  <2>6. ToldOf(told, g, d)
    <3>1. g.file[d] \notin g.regular
      BY <2>1, <2>4 DEF SameButRegs
    <3>2. want # {} => Known(told, g, d)
      BY <1>9, <2>2, <3>1 DEF Known
    <3>3. QED
      BY <1>9, <3>2 DEF ToldOf
  <2>7. LoopInv(told) /\ KernInv(told, g)
    <3>1. told.fd[d].events = a.fd[d].events /\ told.fd[d].reify = a.fd[d].reify
      BY <1>9
    <3> HIDE DEF a, z, d
    <3>2. QED
      BY <1>1, <1>10, <1>11, <2>2, <2>4, <2>5, <2>6, <3>1, MaskChanges
  <2>8. Fed(f, told, told.active)
    BY <1>1, <1>10, <2>7, FdEventIs
  <2> HIDE DEF f
  <2>9. Polling([e |-> f, k |-> g], e, k)
    BY <1>10, <1>12, <2>4, <2>7, <2>8, PollingOn
  <2>10. f \in Loops
    BY <2>8 DEF Fed
  <2>11. QED
    BY <1>6, <2>3, <2>4, <2>9, <2>10 DEF n
<1>15. QED
  BY <1>7, <1>8, <1>13, <1>14

\* A descriptor that epoll refused is always ready, until it is not wanted.
LEMMA EpermEventIs ==
  ASSUME NEW e, NEW k, NEW k0, NEW x \in Loops, Polling([e |-> x, k |-> k], e, k0), NEW d \in AllFds
  PROVE  EpermEvent(x, d) \in Loops /\ Polling([e |-> EpermEvent(x, d), k |-> k], e, k0)
<1> DEFINE s == [e |-> x, k |-> k]
           A == x.fd[d]
           told == SetMask(x, d, {}, A.egen)
           y == WithEperms(told, x.eperms \ {d})
<1>0. s.e = x /\ s.k = k
  OBVIOUS
<1> HIDE DEF s
<1>1. /\ x \in Loops /\ k \in Kernels /\ LoopInv(x) /\ KernInv(x, k) /\ SameButRegs(k, k)
      /\ Polling(s, e, k0)
  BY <1>0 DEF Polling, SameButRegs, s
<1>2. A \in Anfds /\ A.egen \in Nat
  <2>1. A \in Anfds
    BY <1>1, LoopFields
  <2> HIDE DEF A
  <2>2. QED
    BY <2>1, AnfdFields
<1>3. CASE "P" \in A.emask /\ A.events # {}
  <2> DEFINE f == fd_event(x, d, A.events)
  <2>1. EpermEvent(x, d) = f
    BY <1>3, Zenon DEF EpermEvent
  <2>2. Fed(f, x, x.active)
    BY <1>1, FdEventIs
  <2> HIDE DEF f
  <2>3. Polling([e |-> f, k |-> k], e, k0)
    BY <1>0, <1>1, <2>2, PollingOn
  <2>4. QED
    BY <2>1, <2>2, <2>3 DEF Fed
<1>4. CASE ~("P" \in A.emask /\ A.events # {})
  <2>1. /\ SameButOne(told, x, d) /\ told.fd[d].events = A.events
        /\ told.fd[d].reify = A.reify /\ told.fd[d].emask = {} /\ told.fd[d].egen = A.egen
    BY <1>1, <1>2, SetMaskIs
  <2> HIDE DEF told
  <2>2. told \in Loops /\ OneTold(told, x, d) /\ told.postfork = x.postfork /\ told.eperms = x.eperms
    BY <2>1, OneIsTold DEF SameButOne
  <2>3. EpermEvent(x, d) = y
    <3>1. EpermEvent(x, d) = [SetMask(x, d, {}, A.egen) EXCEPT !.eperms = @ \ {d}]
      BY <1>4, Zenon DEF EpermEvent
    <3>2. EpermEvent(x, d) = WithEperms(told, told.eperms \ {d})
      BY <3>1, Zenon DEF WithEperms, told
    <3>3. QED
      BY <2>2, <3>2
  <2>4. /\ y \in Loops /\ y.eperms = x.eperms \ {d} /\ y.fd = told.fd /\ y.idx = told.idx
        /\ y.active = told.active /\ y.postfork = told.postfork
        /\ OneTold(y, x, d)
    <3>1. x.eperms \ {d} \in SUBSET AllFds
      BY LoopFields
    <3>2. /\ y \in Loops /\ y.eperms = x.eperms \ {d} /\ y.active = told.active /\ y.cnt = told.cnt
          /\ y.pend = told.pend /\ y.idx = told.idx /\ y.fd = told.fd /\ y.changes = told.changes
          /\ y.heap = told.heap /\ y.at = told.at /\ y.now = told.now
          /\ y.asyncs = told.asyncs /\ y.postfork = told.postfork
      BY <2>2, <3>1, WithEpermsIs
    <3> HIDE DEF y
    <3>3. OneTold(y, x, d)
      BY <2>2, <3>2 DEF OneTold
    <3>4. QED
      BY <3>2, <3>3
  <2> HIDE DEF y
  <2>5. /\ y.fd[d].events = A.events /\ y.fd[d].reify = A.reify /\ y.fd[d].emask = {}
        /\ y.fd[d].egen = A.egen
    BY <2>1, <2>4
  <2>6. EpermsListed(y)
    <3>1. EpermsOne(y, x, d) /\ EpermsListed(x)
      BY <1>1, <2>5 DEF EpermsOne, LoopInv
    <3>2. QED
      BY <2>4, <3>1, EpermsKept
  <2>7. Reregistered(k, k, d)
    BY <1>1, NotReregistered
  <2>8. RegsKnown(y, k)
    <3>1. RegsKnown(x, k) /\ FilesKnown(k) /\ IsFiniteSet(k.regs)
      BY <1>1 DEF KernInv, RegsKnown
    <3>2. \A q \in k.regs : q.fd = d /\ q.file = k.file[d] =>
             q.file \notin k.regular /\ q.gen = y.fd[d].egen /\ y.fd[d].emask \in {{}, q.events}
      BY <2>5, <3>1 DEF RegsKnown
    <3>3. QED
      BY <1>1, <2>4, <2>7, <3>1, <3>2, RegsKnownOne
  <2>9. ~y.postfork => ~x.postfork /\ ToldOf(y, k, d)
    <3> SUFFICES ASSUME ~y.postfork PROVE ~x.postfork /\ ToldOf(y, k, d)
      OBVIOUS
    <3>1. ~x.postfork
      BY <2>2, <2>4
    <3>2. ToldOf(x, k, d)
      BY <1>1, <3>1 DEF KernInv, Told, ToldOf
    <3>3. Known(x, k, d) /\ A.events # {} => Known(y, k, d)
      BY <1>4, <2>5 DEF Known
    <3>4. ToldOf(y, k, d)
      BY <2>5, <3>2, <3>3 DEF ToldOf
    <3>5. QED
      BY <3>1, <3>4
  <2>10. LoopInv(y) /\ KernInv(y, k)
    BY <1>1, <2>4, <2>5, <2>6, <2>7, <2>8, <2>9, MaskChanges
  <2>11. y.active = x.active /\ y.idx = x.idx
    BY <2>4 DEF OneTold
  <2>12. Polling([e |-> y, k |-> k], e, k0)
    BY <1>0, <1>1, <2>4, <2>10, <2>11, PollingQuiet
  <2>13. QED
    BY <2>3, <2>4, <2>12
<1>5. QED
  BY <1>3, <1>4

IsEpolled(f, x, rs) ==
    f = [n \in 0..Len(rs) |-> IF n = 0 THEN x ELSE EpollEvent(f[n - 1], rs[n], ReadyOf(rs[n]))]

LEMMA EpollEventsAre ==
  ASSUME NEW e, NEW k, NEW x \in LoopAndKernel, Polling(x, e, k), NEW rs \in Seq(Regs)
  PROVE  EpollEvents(x, rs) \in LoopAndKernel /\ Polling(EpollEvents(x, rs), e, k)
<1> DEFINE S == {y \in LoopAndKernel : Polling(y, e, k)}
           N == Len(rs)
           Step(y, i) == EpollEvent(y, rs[i], ReadyOf(rs[i]))
           F == [q \in S \X (1..N) |-> Step(q[1], q[2])]
<1>1. N \in Nat /\ \A i \in 1..N : rs[i] \in Regs
  OBVIOUS
<1>2. x \in S
  OBVIOUS
<1>3. ASSUME NEW y \in S, NEW i \in 1..N PROVE Step(y, i) \in S
  BY <1>1, EpollEventIs
<1> HIDE DEF S
<1>4. F \in [S \X (1..N) -> S]
  BY <1>3, Zenon
<1>5. \A y \in S, i \in 1..N : F[<<y, i>>] = Step(y, i)
  OBVIOUS
<1> HIDE DEF F, Step
<1>6. PICK h : Rounds(h, S, x, N, F)
  BY <1>1, <1>2, <1>4, RoundsExist, Zenon
<1>7. \A i \in 0..N : i = 0 \/ (i \in 1..N /\ i - 1 \in 0..N)
  BY <1>1
<1>8. \A i \in 0..N : h[i] = IF i = 0 THEN x ELSE Step(h[i - 1], i)
  BY <1>5, <1>6, <1>7 DEF Rounds
<1>9. IsEpolled(h, x, rs)
  BY <1>6, <1>8 DEF Rounds, IsEpolled, Step
<1>10. EpollEvents(x, rs) = (CHOOSE f : IsEpolled(f, x, rs))[N]
  BY Zenon DEF EpollEvents, IsEpolled
<1>11. PICK f : IsEpolled(f, x, rs) /\ EpollEvents(x, rs) = f[N]
  BY <1>9, <1>10, Zenon
<1>12. \A i \in 0..N : f[i] = IF i = 0 THEN x ELSE Step(f[i - 1], i)
  BY <1>11 DEF IsEpolled, Step
<1>13. f[0] \in S /\ \A i \in 1..N : f[i - 1] \in S => f[i] \in S
  <2>1. f[0] = x
    BY <1>1, <1>12
  <2>2. \A i \in 1..N : f[i] = Step(f[i - 1], i)
    BY <1>1, <1>12
  <2>3. QED
    BY <1>2, <1>3, <2>1, <2>2
<1>14. f[N] \in S
  <2> HIDE DEF N
  <2>1. \A i \in 0..N : f[i] \in S
    BY <1>1, <1>13, RoundsKeep, Zenon
  <2>2. QED
    BY <1>1, <2>1
<1>15. QED
  BY <1>11, <1>14 DEF S

IsEpermed(f, x, fds) ==
    f = [n \in 0..Len(fds) |-> IF n = 0 THEN x ELSE EpermEvent(f[n - 1], fds[n])]

LEMMA EpermEventsAre ==
  ASSUME NEW e, NEW k, NEW k0, NEW x \in Loops, Polling([e |-> x, k |-> k], e, k0), NEW fds \in Seq(AllFds)
  PROVE  EpermEvents(x, fds) \in Loops /\ Polling([e |-> EpermEvents(x, fds), k |-> k], e, k0)
<1> DEFINE S == {y \in Loops : Polling([e |-> y, k |-> k], e, k0)}
           N == Len(fds)
           Step(y, i) == EpermEvent(y, fds[i])
           F == [q \in S \X (1..N) |-> Step(q[1], q[2])]
<1>1. N \in Nat /\ \A i \in 1..N : fds[i] \in AllFds
  OBVIOUS
<1>2. x \in S
  OBVIOUS
<1>3. ASSUME NEW y \in S, NEW i \in 1..N PROVE Step(y, i) \in S
  BY <1>1, EpermEventIs
<1> HIDE DEF S
<1>4. F \in [S \X (1..N) -> S]
  BY <1>3, Zenon
<1>5. \A y \in S, i \in 1..N : F[<<y, i>>] = Step(y, i)
  OBVIOUS
<1> HIDE DEF F, Step
<1>6. PICK h : Rounds(h, S, x, N, F)
  BY <1>1, <1>2, <1>4, RoundsExist, Zenon
<1>7. \A i \in 0..N : i = 0 \/ (i \in 1..N /\ i - 1 \in 0..N)
  BY <1>1
<1>8. \A i \in 0..N : h[i] = IF i = 0 THEN x ELSE Step(h[i - 1], i)
  BY <1>5, <1>6, <1>7 DEF Rounds
<1>9. IsEpermed(h, x, fds)
  BY <1>6, <1>8 DEF Rounds, IsEpermed, Step
<1>10. EpermEvents(x, fds) = (CHOOSE f : IsEpermed(f, x, fds))[N]
  BY Zenon DEF EpermEvents, IsEpermed
<1>11. PICK f : IsEpermed(f, x, fds) /\ EpermEvents(x, fds) = f[N]
  BY <1>9, <1>10, Zenon
<1>12. \A i \in 0..N : f[i] = IF i = 0 THEN x ELSE Step(f[i - 1], i)
  BY <1>11 DEF IsEpermed, Step
<1>13. f[0] \in S /\ \A i \in 1..N : f[i - 1] \in S => f[i] \in S
  <2>1. f[0] = x
    BY <1>1, <1>12
  <2>2. \A i \in 1..N : f[i] = Step(f[i - 1], i)
    BY <1>1, <1>12
  <2>3. QED
    BY <1>2, <1>3, <2>1, <2>2
<1>14. f[N] \in S
  <2> HIDE DEF N
  <2>1. \A i \in 0..N : f[i] \in S
    BY <1>1, <1>13, RoundsKeep, Zenon
  <2>2. QED
    BY <1>1, <2>1
<1>15. QED
  BY <1>11, <1>14 DEF S

----------------------------------------------------------------------------
(* The kernel's own steps *)

\* A kernel of the same files and registrations, in which what the loop was
\* told still holds.
SameFiles(x, k) ==
    /\ x.file = k.file /\ x.last = k.last /\ x.regs = k.regs /\ x.regular = k.regular
    /\ x.inited = k.inited

LEMMA KernSame ==
  ASSUME NEW e, NEW k, NEW x, KernInv(e, k), SameFiles(x, k)
  PROVE  KernInv(e, x)
<1>1. FilesKnown(x) /\ WatchersInited(e, x)
  BY Zenon DEF KernInv, SameFiles, FilesKnown, WatchersInited
<1>2. RegsKnown(e, x)
  BY Zenon DEF KernInv, SameFiles, RegsKnown
<1>3. Told(e, x)
  <2>1. \A d : (Known(e, k, d) <=> Known(e, x, d)) /\ (InUse(k, d) <=> InUse(x, d))
    BY Zenon DEF SameFiles, Known, InUse, Registered
  <2>2. QED
    BY <2>1, Zenon DEF KernInv, Told
<1>4. QED
  BY <1>1, <1>2, <1>3 DEF KernInv

\* Fewer active watchers, more to tell.
LEMMA KernTells ==
  ASSUME NEW e \in Loops, NEW k \in Kernels, KernInv(e, k), NEW x \in Loops,
         x.active \cap Ios \subseteq e.active, FdKept(x, e)
  PROVE  KernInv(x, k)
<1>1. WatchersInited(x, k)
  BY DEF KernInv, WatchersInited
<1>2. RegsKnown(x, k)
  <2>1. \A r \in k.regs : r.fd \in AllFds
    BY KernFields, RegFields
  <2>2. QED
    BY <2>1 DEF KernInv, RegsKnown, FdKept
<1>3. Told(x, k)
  <2> SUFFICES ASSUME ~x.postfork, NEW d \in AllFds, "set" \notin x.fd[d].reify,
                      x.fd[d].events # {}, InUse(k, d)
               PROVE  Known(x, k, d)
    BY DEF Told
  <2>1. /\ ~e.postfork /\ "set" \notin e.fd[d].reify /\ e.fd[d].events = x.fd[d].events
        /\ e.fd[d].emask = x.fd[d].emask
    BY DEF FdKept
  <2>2. Known(e, k, d)
    BY <2>1 DEF KernInv, Told
  <2>3. QED
    BY <2>1, <2>2 DEF Known
<1>4. QED
  BY <1>1, <1>2, <1>3 DEF KernInv

WithInited(k, inited) == [k EXCEPT !.inited = inited]

LEMMA WithInitedIs ==
  ASSUME NEW k \in Kernels, NEW inited \in [Ios -> Nat]
  PROVE  LET x == WithInited(k, inited)
         IN  /\ x \in Kernels /\ x.file = k.file /\ x.last = k.last /\ x.regs = k.regs
             /\ x.held = k.held /\ x.ready = k.ready /\ x.time = k.time
             /\ x.regular = k.regular /\ x.inited = inited /\ x.zombies = k.zombies
             /\ x.raised = k.raised
BY DEF WithInited, Kernels

\* An I/O watcher is started for the file its descriptor refers to: the kernel
\* is told of it, or was told when the watcher was started for it before.
LEMMA KernStarted ==
  ASSUME NEW e \in Loops, NEW k \in Kernels, KernInv(e, k), NEW w \in Ios, k.file[WFd[w]] # 0,
         NEW x \in Loops, x.active = e.active \cup {w}, FdKept(x, e),
         "set" \in x.fd[WFd[w]].reify \/ k.inited[w] = k.file[WFd[w]]
  PROVE  LET z == [k EXCEPT !.inited[w] = k.file[WFd[w]]]
         IN  /\ z \in Kernels /\ KernInv(x, z) /\ z.zombies = k.zombies /\ z.raised = k.raised
<1> DEFINE i == k.file[WFd[w]]
           inited == [k.inited EXCEPT ![w] = i]
           z == [k EXCEPT !.inited[w] = k.file[WFd[w]]]
<1>1. WFd[w] \in Fds /\ WFd[w] \in AllFds
  BY LoopAssumption DEF AllFds
<1>2. i \in Nat /\ inited \in [Ios -> Nat] /\ inited[w] = i /\ \A v \in Ios \ {w} : inited[v] = k.inited[v]
  BY <1>1, KernFields
<1>3. z = WithInited(k, inited)
  BY Zenon DEF WithInited
<1> HIDE DEF inited, z
<1>4. /\ z \in Kernels /\ z.file = k.file /\ z.last = k.last /\ z.regs = k.regs
      /\ z.regular = k.regular /\ z.inited = inited /\ z.zombies = k.zombies
      /\ z.raised = k.raised
  BY <1>2, <1>3, WithInitedIs
<1>5. WatchersInited(x, z)
  <2> SUFFICES ASSUME NEW v \in Ios
               PROVE  /\ z.inited[v] # 0 => z.inited[v] = z.file[WFd[v]]
                      /\ v \in x.active => z.inited[v] # 0
    BY DEF WatchersInited
  <2>1. CASE v = w
    BY <1>2, <1>4, <2>1
  <2>2. CASE v # w
    BY <1>2, <1>4, <2>2 DEF KernInv, WatchersInited
  <2>3. QED
    BY <2>1, <2>2
<1>6. FilesKnown(z)
  BY <1>4, Zenon DEF KernInv, FilesKnown
<1>7. RegsKnown(x, z)
  <2>1. \A r \in k.regs : r.fd \in AllFds
    BY KernFields, RegFields
  <2>2. QED
    BY <1>4, <2>1 DEF KernInv, RegsKnown, FdKept
<1>8. Told(x, z)
  <2> SUFFICES ASSUME ~x.postfork, NEW d \in AllFds, "set" \notin x.fd[d].reify,
                      x.fd[d].events # {}, InUse(z, d)
               PROVE  Known(x, z, d)
    BY DEF Told
  <2>1. /\ ~e.postfork /\ "set" \notin e.fd[d].reify /\ e.fd[d].events = x.fd[d].events
        /\ e.fd[d].emask = x.fd[d].emask
    BY DEF FdKept
  <2>2. InUse(k, d)
    <3>1. CASE d = PipeFd
      BY <3>1 DEF InUse
    <3>2. CASE d # PipeFd
      <4>1. PICK v \in Ios : WFd[v] = d /\ inited[v] # 0
        BY <1>4, <3>2 DEF InUse
      <4>2. CASE v = w
        BY <4>1, <4>2 DEF InUse
      <4>3. CASE v # w
        BY <1>2, <4>1, <4>3 DEF InUse
      <4>4. QED
        BY <4>2, <4>3
    <3>3. QED
      BY <3>1, <3>2
  <2>3. Known(e, k, d)
    BY <2>1, <2>2 DEF KernInv, Told
  <2>4. Registered(z, d) = Registered(k, d)
    BY <1>4, Zenon DEF Registered
  <2>5. QED
    BY <1>4, <2>1, <2>3, <2>4 DEF Known
<1>9. QED
  BY <1>4, <1>5, <1>6, <1>7, <1>8 DEF KernInv, z

----------------------------------------------------------------------------
(* Files that are closed and opened *)

WithFile(k, file) == [k EXCEPT !.file = file]
WithHeld(k, held) == [k EXCEPT !.held = held]

LEMMA WithFileIs ==
  ASSUME NEW k \in Kernels, NEW file \in [AllFds -> Nat]
  PROVE  LET x == WithFile(k, file)
         IN  /\ x \in Kernels /\ x.file = file /\ x.last = k.last /\ x.regs = k.regs
             /\ x.held = k.held /\ x.ready = k.ready /\ x.time = k.time
             /\ x.regular = k.regular /\ x.inited = k.inited /\ x.zombies = k.zombies
             /\ x.raised = k.raised
BY DEF WithFile, Kernels

LEMMA WithHeldIs ==
  ASSUME NEW k \in Kernels, NEW held \in SUBSET Files
  PROVE  LET x == WithHeld(k, held)
         IN  /\ x \in Kernels /\ x.file = k.file /\ x.last = k.last /\ x.regs = k.regs
             /\ x.held = held /\ x.ready = k.ready /\ x.time = k.time
             /\ x.regular = k.regular /\ x.inited = k.inited /\ x.zombies = k.zombies
             /\ x.raised = k.raised
BY DEF WithHeld, Kernels

Forgetful(k, regs, regular, ready, inited) ==
    [k EXCEPT !.regs = regs, !.regular = regular, !.ready = ready, !.inited = inited]

LEMMA ForgetfulIs ==
  ASSUME NEW k \in Kernels, NEW regs \in SUBSET Regs, NEW regular \in SUBSET Files,
         NEW ready \in [Files -> SUBSET {"R", "W", "H"}], NEW inited \in [Ios -> Nat]
  PROVE  LET x == Forgetful(k, regs, regular, ready, inited)
         IN  /\ x \in Kernels /\ x.file = k.file /\ x.last = k.last /\ x.regs = regs
             /\ x.held = k.held /\ x.time = k.time /\ x.regular = regular
             /\ x.inited = inited /\ x.zombies = k.zombies /\ x.raised = k.raised
BY DEF Forgetful, Kernels

\* Forget drops what nothing refers to, and no more.
LEMMA ForgetIs ==
  ASSUME NEW k \in Kernels
  PROVE  LET x == Forget(k)
         IN  /\ x \in Kernels /\ x.file = k.file /\ x.last = k.last /\ x.held = k.held
             /\ x.time = k.time /\ x.zombies = k.zombies /\ x.raised = k.raised
             /\ x.regs \subseteq k.regs /\ x.regular \subseteq k.regular
             /\ \A d \in AllFds : /\ Registered(x, d) = Registered(k, d)
                                  /\ k.file[d] \in k.regular => k.file[d] \in x.regular
             /\ \A w \in Ios : x.inited[w] = IF k.file[WFd[w]] = k.inited[w] THEN k.inited[w] ELSE 0
<1> DEFINE used == k.held \cup Range(k.file)
           regs == {r \in k.regs : r.file \in used}
           regular == k.regular \cap used
           ready == [i \in Files |-> IF i \in used THEN k.ready[i] ELSE {}]
           inited == [w \in Ios |-> IF k.file[WFd[w]] = k.inited[w] THEN k.inited[w] ELSE 0]
           x == Forget(k)
<1>1. x = Forgetful(k, regs, regular, ready, inited)
  BY Zenon DEF Forget, Forgetful
<1>2. regs \in SUBSET Regs /\ regular \in SUBSET Files
  BY KernFields
<1>3. ready \in [Files -> SUBSET {"R", "W", "H"}]
  <2> HIDE DEF used
  <2>1. QED
    BY KernFields
<1>4. inited \in [Ios -> Nat]
  BY KernFields
<1>5. \A w \in Ios : inited[w] = IF k.file[WFd[w]] = k.inited[w] THEN k.inited[w] ELSE 0
  OBVIOUS
<1>6. \A d \in AllFds : k.file[d] \in used
  BY KernFields DEF Range
<1> HIDE DEF ready, inited
<1>7. /\ x \in Kernels /\ x.file = k.file /\ x.last = k.last /\ x.regs = regs
      /\ x.held = k.held /\ x.time = k.time /\ x.regular = regular
      /\ x.inited = inited /\ x.zombies = k.zombies /\ x.raised = k.raised
  <2> HIDE DEF regs, regular
  <2>1. QED
    BY <1>1, <1>2, <1>3, <1>4, ForgetfulIs
<1> HIDE DEF x, used
<1>8. \A d \in AllFds : Registered(x, d) = Registered(k, d)
  BY <1>6, <1>7 DEF Registered
<1>9. QED
  BY <1>5, <1>6, <1>7, <1>8 DEF x

\* A descriptor without watchers is closed, or a child process lets go of a file.
LEMMA Forgotten ==
  ASSUME NEW e \in Loops, NEW k \in Kernels, KernInv(e, k), NEW x \in Kernels,
         x.last = k.last, x.regs = k.regs, x.regular = k.regular, x.inited = k.inited,
         x.file[PipeFd] = k.file[PipeFd],
         \A c \in AllFds : x.file[c] \in {k.file[c], 0},
         \A w \in Ios \cap e.active : x.file[WFd[w]] = k.file[WFd[w]]
  PROVE  /\ Forget(x) \in Kernels /\ KernInv(e, Forget(x))
         /\ Forget(x).zombies = x.zombies /\ Forget(x).raised = x.raised
<1> DEFINE z == Forget(x)
<1>1. /\ z \in Kernels /\ z.file = x.file /\ z.last = x.last /\ z.held = x.held
      /\ z.time = x.time /\ z.zombies = x.zombies /\ z.raised = x.raised
      /\ z.regs \subseteq x.regs /\ z.regular \subseteq x.regular
      /\ \A d \in AllFds : /\ Registered(z, d) = Registered(x, d)
                           /\ x.file[d] \in x.regular => x.file[d] \in z.regular
      /\ \A w \in Ios : z.inited[w] = IF x.file[WFd[w]] = x.inited[w] THEN x.inited[w] ELSE 0
  BY ForgetIs
<1> HIDE DEF z
<1>2. k.last \in Nat /\ PipeFd \in AllFds /\ \A c \in AllFds : k.file[c] \in Nat
  BY KernFields, LoopAssumption DEF AllFds
<1>3. FilesKnown(z)
  <2>1. FilesKnown(k)
    BY DEF KernInv
  <2>2. ASSUME NEW d \in Fds PROVE z.file[d] <= z.last
    <3>1. d \in AllFds /\ x.file[d] \in {k.file[d], 0} /\ k.file[d] <= k.last
      BY <2>1 DEF AllFds, FilesKnown
    <3>2. QED
      BY <1>1, <1>2, <3>1
  <2>3. QED
    BY <1>1, <2>1, <2>2 DEF FilesKnown
<1>4. WatchersInited(e, z)
  <2> SUFFICES ASSUME NEW w \in Ios
               PROVE  /\ z.inited[w] # 0 => z.inited[w] = z.file[WFd[w]]
                      /\ w \in e.active => z.inited[w] # 0
    BY DEF WatchersInited
  <2>1. z.inited[w] # 0 => z.inited[w] = z.file[WFd[w]]
    BY <1>1
  <2>2. w \in e.active => z.inited[w] # 0
    BY <1>1 DEF KernInv, WatchersInited
  <2>3. QED
    BY <2>1, <2>2
<1>5. RegsKnown(e, z)
  <2>1. RegsKnown(e, k)
    BY DEF KernInv
  <2>2. IsFiniteSet(z.regs)
    BY <1>1, <2>1, FS_Subset DEF RegsKnown
  <2>3. ASSUME NEW r \in z.regs
        PROVE  /\ r.file \notin z.regular
               /\ r.file <= z.last \/ r.file = PipeFile
               /\ r.file = z.file[r.fd] =>
                     r.gen = e.fd[r.fd].egen /\ e.fd[r.fd].emask \in {{}, r.events}
    <3>1. r \in k.regs /\ r \in Regs /\ r.fd \in AllFds /\ r.file \in Files \cup {PipeFile}
      BY <1>1, KernFields, RegFields
    <3>2. r.file # 0
      BY <3>1, LoopAssumption DEF Files, PipeFile
    <3>3. r.file = z.file[r.fd] => r.file = k.file[r.fd]
      BY <1>1, <3>1, <3>2
    <3>4. QED
      BY <1>1, <2>1, <3>1, <3>3 DEF RegsKnown
  <2>4. QED
    BY <2>2, <2>3 DEF RegsKnown
<1>6. Told(e, z)
  <2> SUFFICES ASSUME ~e.postfork, NEW d \in AllFds, "set" \notin e.fd[d].reify,
                      e.fd[d].events # {}, InUse(z, d)
               PROVE  Known(e, z, d)
    BY DEF Told
  <2>1. InUse(k, d) /\ x.file[d] = k.file[d]
    <3>1. CASE d = PipeFd
      BY <3>1 DEF InUse
    <3>2. CASE d # PipeFd
      <4>1. PICK w \in Ios : WFd[w] = d /\ z.inited[w] # 0
        BY <3>2 DEF InUse
      <4>2. x.file[d] = x.inited[w] /\ x.inited[w] = k.inited[w] /\ k.inited[w] # 0
        BY <1>1, <4>1
      <4>3. InUse(k, d)
        BY <4>1, <4>2 DEF InUse
      <4>4. QED
        BY <4>2, <4>3
    <3>3. QED
      BY <3>1, <3>2
  <2>2. Known(e, k, d)
    BY <2>1 DEF KernInv, Told
  <2>3. Registered(x, d) = Registered(k, d)
    BY <2>1 DEF Registered
  <2>4. QED
    BY <1>1, <2>1, <2>2, <2>3 DEF Known
<1>7. QED
  BY <1>1, <1>3, <1>4, <1>5, <1>6 DEF KernInv, z

WithOpened(k, file, last, regular) ==
    [k EXCEPT !.file = file, !.last = last, !.regular = regular]

LEMMA WithOpenedIs ==
  ASSUME NEW k \in Kernels, NEW file \in [AllFds -> Nat], NEW last \in 0..MaxFile,
         NEW regular \in SUBSET Files
  PROVE  LET x == WithOpened(k, file, last, regular)
         IN  /\ x \in Kernels /\ x.file = file /\ x.last = last /\ x.regs = k.regs
             /\ x.regular = regular /\ x.inited = k.inited /\ x.zombies = k.zombies
             /\ x.raised = k.raised
BY DEF WithOpened, Kernels

Opened(k, d, regular) ==
    [k EXCEPT !.file[d] = k.last + 1, !.last = @ + 1,
              !.regular = IF regular THEN @ \cup {k.last + 1} ELSE @]

\* A descriptor that refers to nothing refers to a file that nothing knows of.
LEMMA OpenIs ==
  ASSUME NEW e \in Loops, NEW k \in Kernels, KernInv(e, k), NEW d \in Fds,
         k.file[d] = 0, k.last < MaxFile, NEW regular \in BOOLEAN
  PROVE  LET x == Opened(k, d, regular)
         IN  /\ x \in Kernels /\ KernInv(e, x) /\ x.zombies = k.zombies /\ x.raised = k.raised
<1> DEFINE i == k.last + 1
           file == [k.file EXCEPT ![d] = i]
           reg == IF regular THEN k.regular \cup {i} ELSE k.regular
           x == Opened(k, d, regular)
<1>1. x = WithOpened(k, file, i, reg)
  BY Zenon DEF WithOpened, Opened
<1>2. k.last \in Nat /\ MaxFile \in Nat /\ i \in 0..MaxFile /\ i \in Files /\ i # PipeFile /\ i > k.last
  BY KernFields, LoopAssumption DEF Files, PipeFile
<1>3. d \in AllFds /\ d # PipeFd /\ PipeFd \in AllFds
  BY LoopAssumption DEF AllFds
<1>4. file \in [AllFds -> Nat] /\ file[d] = i /\ \A c \in AllFds \ {d} : file[c] = k.file[c]
  BY <1>2, <1>3, KernFields
<1>5. reg \in SUBSET Files /\ \A j : j \in reg => j \in k.regular \/ j = i
  BY <1>2, KernFields
<1>6. k.regular \subseteq reg
  OBVIOUS
<1> HIDE DEF i, file, reg, x
<1>7. /\ x \in Kernels /\ x.file = file /\ x.last = i /\ x.regs = k.regs
      /\ x.regular = reg /\ x.inited = k.inited /\ x.zombies = k.zombies /\ x.raised = k.raised
  BY <1>1, <1>2, <1>4, <1>5, WithOpenedIs
<1>8. \A w \in Ios : WFd[w] = d => k.inited[w] = 0
  BY DEF KernInv, WatchersInited
<1>9. WatchersInited(e, x)
  <2> SUFFICES ASSUME NEW w \in Ios
               PROVE  /\ x.inited[w] # 0 => x.inited[w] = x.file[WFd[w]]
                      /\ w \in e.active => x.inited[w] # 0
    BY DEF WatchersInited
  <2>1. WFd[w] \in AllFds
    BY LoopAssumption DEF AllFds
  <2>2. CASE WFd[w] = d
    BY <1>7, <1>8, <2>2 DEF KernInv, WatchersInited
  <2>3. CASE WFd[w] # d
    BY <1>4, <1>7, <2>1, <2>3 DEF KernInv, WatchersInited
  <2>4. QED
    BY <2>2, <2>3
<1>10. FilesKnown(x)
  <2>1. FilesKnown(k)
    BY DEF KernInv
  <2>2. ASSUME NEW c \in Fds PROVE x.file[c] <= x.last
    <3>1. CASE c = d
      BY <1>2, <1>4, <1>7, <3>1
    <3>2. CASE c # d
      <4>1. x.file[c] = k.file[c] /\ k.file[c] <= k.last /\ k.file[c] \in Nat
        BY <1>4, <1>7, <2>1, <3>2, KernFields DEF FilesKnown, AllFds
      <4>2. QED
        BY <1>2, <1>7, <4>1
    <3>3. QED
      BY <3>1, <3>2
  <2>3. ASSUME NEW j \in reg PROVE j <= x.last
    <3>1. CASE j = i
      BY <1>2, <1>7, <3>1
    <3>2. CASE j # i
      <4>1. j \in k.regular /\ j <= k.last /\ j \in Nat
        BY <1>5, <2>1, <3>2 DEF FilesKnown, Files
      <4>2. QED
        BY <1>2, <1>7, <4>1
    <3>3. QED
      BY <3>1, <3>2
  <2>4. QED
    BY <1>3, <1>4, <1>7, <2>1, <2>2, <2>3 DEF FilesKnown
<1>11. RegsKnown(e, x)
  <2>1. RegsKnown(e, k)
    BY DEF KernInv
  <2>2. ASSUME NEW r \in x.regs
        PROVE  /\ r.file \notin x.regular
               /\ r.file <= x.last \/ r.file = PipeFile
               /\ r.file = x.file[r.fd] =>
                     r.gen = e.fd[r.fd].egen /\ e.fd[r.fd].emask \in {{}, r.events}
    <3>1. r \in k.regs /\ r \in Regs /\ r.fd \in AllFds /\ r.file \in Nat
      BY <1>2, <1>7, KernFields, RegFields DEF Files, PipeFile
    <3>2. r.file <= k.last \/ r.file = PipeFile
      BY <2>1, <3>1 DEF RegsKnown
    <3>3. r.file # i
      BY <1>2, <3>1, <3>2
    <3>4. r.file = x.file[r.fd] => r.file = k.file[r.fd]
      BY <1>4, <1>7, <3>1, <3>3
    <3>5. r.file <= x.last \/ r.file = PipeFile
      BY <1>2, <1>7, <3>1, <3>2
    <3>6. QED
      BY <1>5, <1>7, <2>1, <3>1, <3>3, <3>4, <3>5 DEF RegsKnown
  <2>3. QED
    BY <1>7, <2>1, <2>2 DEF RegsKnown
<1>12. Told(e, x)
  <2> SUFFICES ASSUME ~e.postfork, NEW c \in AllFds, "set" \notin e.fd[c].reify,
                      e.fd[c].events # {}, InUse(x, c)
               PROVE  Known(e, x, c)
    BY DEF Told
  <2>1. InUse(k, c)
    BY <1>7, Zenon DEF InUse
  <2>2. c # d
    BY <1>3, <1>8, <2>1 DEF InUse
  <2>3. x.file[c] = k.file[c]
    BY <1>4, <1>7, <2>2
  <2>4. Known(e, k, c)
    BY <2>1 DEF KernInv, Told
  <2>5. Registered(x, c) = Registered(k, c)
    BY <1>7, <2>3 DEF Registered
  <2>6. k.file[c] # i
    <3>1. CASE c = PipeFd
      BY <1>2, <3>1 DEF KernInv, FilesKnown
    <3>2. CASE c # PipeFd
      <4>1. k.file[c] <= k.last /\ k.file[c] \in Nat
        BY <3>2, KernFields DEF KernInv, FilesKnown, AllFds
      <4>2. QED
        BY <1>2, <4>1
    <3>3. QED
      BY <3>1, <3>2
  <2>7. x.file[c] \in x.regular <=> k.file[c] \in k.regular
    BY <1>5, <1>6, <1>7, <2>3, <2>6
  <2>8. QED
    BY <2>4, <2>5, <2>7 DEF Known
<1>13. QED
  BY <1>7, <1>9, <1>10, <1>11, <1>12 DEF KernInv, x

----------------------------------------------------------------------------
(* The actions *)

Inv == LoopTypes /\ LoopInv(ev) /\ KernInv(ev, kern) /\ PhaseInv /\ StoppedInv /\ WakeupInv

\* The senders and the loop's phase are left alone, and no pending event of the
\* loop's own watchers is lost.
LEMMA WakeupKept ==
  ASSUME WakeupInv, sh' = sh, snd' = snd, run' = run,
         kern'.zombies = kern.zombies, kern'.raised = kern.raised,
         ev'.idx[pipe_w] = ev.idx[pipe_w], ev'.idx[childev] = ev.idx[childev]
  PROVE  WakeupInv'
BY Zenon DEF WakeupInv, Awake

\* The program started watcher w: what is left to show is about the loop and
\* the kernel.
LEMMA StartKeeps ==
  ASSUME Inv, NEW w \in Watchers, Starts(w), sh' = sh, ev' \in Loops, LoopInv(ev)',
         kern' \in Kernels, KernInv(ev, kern)', ev'.pend = ev.pend, ev'.idx = ev.idx,
         ev'.active = ev.active \cup {w}, kern'.zombies = kern.zombies, kern'.raised = kern.raised
  PROVE  Inv'
<1>1. /\ run' = run /\ snd' = snd /\ live' = live /\ stopped' = stopped \ {w}
      /\ run.pc \in {"out", "invoke"}
  BY DEF Starts, Client
<1>2. LoopTypes'
  BY <1>1 DEF Inv, LoopTypes
<1>3. PhaseInv'
  BY <1>1 DEF Inv, PhaseInv, NoPending
<1>4. StoppedInv'
  BY <1>1 DEF Inv, StoppedInv
<1>5. WakeupInv'
  BY <1>1, WakeupKept DEF Inv
<1>6. QED
  BY <1>2, <1>3, <1>4, <1>5 DEF Inv

LEMMA StopKeeps ==
  ASSUME Inv, NEW w \in Watchers, Stops(w), sh' = sh, kern' = kern,
         Stopped(ev', ev, w), KernInv(ev', kern)
  PROVE  Inv'
<1>1. /\ run' = run /\ snd' = snd /\ live' = live /\ stopped' = stopped \cup {w}
      /\ run.pc \in {"out", "invoke"}
  BY DEF Stops, Client
<1>2. /\ ev' \in Loops /\ LoopInv(ev') /\ w \notin ev'.active /\ ev'.active = ev.active \ {w}
      /\ ev'.idx[w] = 0 /\ \A v \in All \ {w} : ev'.idx[v] = ev.idx[v]
      /\ NoPending(ev) => NoPending(ev')
  BY DEF Stopped
<1>3. w \in All /\ w # pipe_w /\ w # childev /\ pipe_w \in All /\ childev \in All /\ Watchers \subseteq All
  BY Names DEF Own
<1>4. LoopTypes'
  BY <1>1, <1>2 DEF Inv, LoopTypes
<1>5. PhaseInv'
  BY <1>1, <1>2 DEF Inv, PhaseInv
<1>6. StoppedInv'
  <2> SUFFICES ASSUME NEW v \in stopped' PROVE v \notin ev'.active /\ ev'.idx[v] = 0
    BY DEF StoppedInv
  <2>1. CASE v = w
    BY <1>2, <2>1
  <2>2. CASE v # w
    <3>1. v \in stopped /\ v \in All
      BY <1>1, <1>3, <2>2 DEF Inv, LoopTypes
    <3>2. QED
      BY <1>2, <2>2, <3>1 DEF Inv, StoppedInv
  <2>3. QED
    BY <2>1, <2>2
<1>7. WakeupInv'
  BY <1>1, <1>2, <1>3, WakeupKept DEF Inv
<1>8. LoopInv(ev)' /\ KernInv(ev, kern)'
  BY <1>2, Zenon
<1>9. QED
  BY <1>4, <1>5, <1>6, <1>7, <1>8 DEF Inv

LEMMA IoStartKeeps ==
  ASSUME Inv, NEW w \in Ios, IoStart(w)
  PROVE  Inv'
<1> DEFINE i == kern.file[WFd[w]]
<1>1. /\ Starts(w) /\ i # 0 /\ sh' = sh /\ kern' = [kern EXCEPT !.inited[w] = i]
      /\ w \notin ev.active
  BY Zenon DEF IoStart, Starts
<1>2. ev \in Loops /\ kern \in Kernels /\ LoopInv(ev) /\ KernInv(ev, kern) /\ w \in Watchers
  BY Kinds DEF Inv, LoopTypes
<1>3. PICK flags \in SUBSET {"set"} :
          ev' = ev_io_start(ev, w, flags) /\ ("set" \in flags \/ kern.inited[w] = i)
  BY DEF IoStart
<1>4. /\ ev' \in Loops /\ LoopInv(ev') /\ ev'.pend = ev.pend /\ ev'.idx = ev.idx
      /\ ev'.active = ev.active \cup {w} /\ FdKept(ev', ev) /\ flags \subseteq ev'.fd[WFd[w]].reify
  BY <1>1, <1>2, <1>3, IoStartIs
<1>5. "set" \in ev'.fd[WFd[w]].reify \/ kern.inited[w] = kern.file[WFd[w]]
  BY <1>3, <1>4
<1>6. /\ kern' \in Kernels /\ KernInv(ev', kern') /\ kern'.zombies = kern.zombies
      /\ kern'.raised = kern.raised
  BY <1>1, <1>2, <1>4, <1>5, KernStarted
<1>7. LoopInv(ev)' /\ KernInv(ev, kern)'
  BY <1>4, <1>6, Zenon
<1>8. QED
  BY <1>1, <1>2, <1>4, <1>6, <1>7, StartKeeps

LEMMA SameIsKept ==
  ASSUME NEW x, NEW e, SameKernelSide(x, e)
  PROVE  FdKept(x, e)
BY DEF SameKernelSide, FdKept

LEMMA StartedKern ==
  ASSUME NEW e \in Loops, NEW k \in Kernels, KernInv(e, k), NEW x \in Loops,
         NEW w \in Timers \cup Asyncs \cup Children, x.active = e.active \cup {w}, SameKernelSide(x, e)
  PROVE  KernInv(x, k)
<1>1. x.active \cap Ios \subseteq e.active
  BY Kinds
<1>2. QED
  BY <1>1, SameIsKept, KernTells

LEMMA TimerStartKeeps ==
  ASSUME Inv, NEW t \in Timers, TimerStart(t)
  PROVE  Inv'
<1>1. Starts(t) /\ ev' = ev_timer_start(ev, t) /\ sh' = sh /\ kern' = kern /\ t \notin ev.active
  BY DEF TimerStart, Starts
<1>2. ev \in Loops /\ kern \in Kernels /\ LoopInv(ev) /\ KernInv(ev, kern) /\ t \in Watchers
  BY Kinds DEF Inv, LoopTypes
<1>3. /\ ev' \in Loops /\ LoopInv(ev') /\ SameKernelSide(ev', ev) /\ ev'.pend = ev.pend
      /\ ev'.idx = ev.idx /\ ev'.active = ev.active \cup {t}
  BY <1>1, <1>2, TimerStartIs
<1>4. KernInv(ev', kern)
  BY <1>2, <1>3, StartedKern
<1>5. LoopInv(ev)' /\ KernInv(ev, kern)'
  BY <1>1, <1>3, <1>4, Zenon
<1>6. QED
  BY <1>1, <1>2, <1>3, <1>5, StartKeeps

LEMMA AsyncStartKeeps ==
  ASSUME Inv, NEW a \in Asyncs, AsyncStart(a)
  PROVE  Inv'
<1>1. /\ Starts(a) /\ ev' = ev_async_start(ev, a) /\ sh' = [sh EXCEPT !.sent = @ \ {a}]
      /\ kern' = kern /\ a \notin ev.active
  BY DEF AsyncStart, Starts
<1>2. ev \in Loops /\ kern \in Kernels /\ LoopInv(ev) /\ KernInv(ev, kern) /\ a \in Watchers /\ sh \in Shares
  BY Kinds DEF Inv, LoopTypes
<1>3. /\ ev' \in Loops /\ LoopInv(ev') /\ SameKernelSide(ev', ev) /\ ev'.pend = ev.pend
      /\ ev'.idx = ev.idx /\ ev'.active = ev.active \cup {a}
  BY <1>1, <1>2, AsyncStartIs
<1>4. KernInv(ev', kern)
  BY <1>2, <1>3, StartedKern
<1>5. LoopInv(ev)' /\ KernInv(ev, kern)'
  BY <1>1, <1>3, <1>4, Zenon
<1>6. sh' = sh
  <2>1. a # break_async
    BY <1>2, Names DEF Own
  <2>2. sh.sent \ {a} = sh.sent
    BY <1>2, <2>1 DEF Shares
  <2>3. QED
    BY <1>1, <1>2, <2>2 DEF Shares
<1>7. QED
  BY <1>1, <1>2, <1>3, <1>5, <1>6, StartKeeps

LEMMA ChildStartKeeps ==
  ASSUME Inv, NEW c \in Children, ChildStart(c)
  PROVE  Inv'
<1>1. Starts(c) /\ ev' = ev_child_start(ev, c) /\ sh' = sh /\ kern' = kern /\ c \notin ev.active
  BY DEF ChildStart, Starts
<1>2. ev \in Loops /\ kern \in Kernels /\ LoopInv(ev) /\ KernInv(ev, kern) /\ c \in Watchers
  BY Kinds DEF Inv, LoopTypes
<1>3. /\ ev' \in Loops /\ LoopInv(ev') /\ SameKernelSide(ev', ev) /\ ev'.pend = ev.pend
      /\ ev'.idx = ev.idx /\ ev'.active = ev.active \cup {c}
  BY <1>1, <1>2, ChildStartIs
<1>4. KernInv(ev', kern)
  BY <1>2, <1>3, StartedKern
<1>5. LoopInv(ev)' /\ KernInv(ev, kern)'
  BY <1>1, <1>3, <1>4, Zenon
<1>6. QED
  BY <1>1, <1>2, <1>3, <1>5, StartKeeps

\* Whatever kind of watcher is stopped.
LEMMA StopsKeep ==
  ASSUME Inv, NEW w \in Watchers, Stops(w), sh' = sh, kern' = kern, Stopped(ev', ev, w), FdKept(ev', ev)
  PROVE  Inv'
<1>1. ev \in Loops /\ kern \in Kernels /\ KernInv(ev, kern) /\ ev' \in Loops /\ ev'.active = ev.active \ {w}
  BY DEF Inv, LoopTypes, Stopped
<1>2. KernInv(ev', kern)
  BY <1>1, KernTells
<1>3. QED
  BY <1>2, StopKeeps

LEMMA AllStopsKeep ==
  ASSUME Inv, \/ \E w \in Ios : IoStop(w)
              \/ \E t \in Timers : TimerStop(t)
              \/ \E a \in Asyncs : AsyncStop(a)
              \/ \E c \in Children : ChildStop(c)
  PROVE  Inv'
<1>1. ev \in Loops /\ LoopInv(ev)
  BY DEF Inv, LoopTypes
<1>2. ASSUME NEW w \in Ios, IoStop(w) PROVE Inv'
  <2>1. Stops(w) /\ ev' = ev_io_stop(ev, w) /\ sh' = sh /\ kern' = kern /\ w \in Watchers
    BY <1>2, Kinds DEF IoStop
  <2>2. Stopped(ev', ev, w) /\ FdKept(ev', ev)
    BY <1>1, <2>1, IoStopIs
  <2>3. QED
    BY <2>1, <2>2, StopsKeep
<1>3. ASSUME NEW w \in Timers, TimerStop(w) PROVE Inv'
  <2>1. Stops(w) /\ ev' = ev_timer_stop(ev, w) /\ sh' = sh /\ kern' = kern /\ w \in Watchers
    BY <1>3, Kinds DEF TimerStop
  <2>2. Stopped(ev', ev, w) /\ FdKept(ev', ev)
    BY <1>1, <2>1, TimerStopIs, SameIsKept
  <2>3. QED
    BY <2>1, <2>2, StopsKeep
<1>4. ASSUME NEW w \in Asyncs, AsyncStop(w) PROVE Inv'
  <2>1. Stops(w) /\ ev' = ev_async_stop(ev, w) /\ sh' = sh /\ kern' = kern /\ w \in Watchers
    BY <1>4, Kinds DEF AsyncStop
  <2>2. Stopped(ev', ev, w) /\ FdKept(ev', ev)
    BY <1>1, <2>1, AsyncStopIs, SameIsKept
  <2>3. QED
    BY <2>1, <2>2, StopsKeep
<1>5. ASSUME NEW w \in Children, ChildStop(w) PROVE Inv'
  <2>1. Stops(w) /\ ev' = ev_child_stop(ev, w) /\ sh' = sh /\ kern' = kern /\ w \in Watchers
    BY <1>5, Kinds DEF ChildStop
  <2>2. Stopped(ev', ev, w) /\ FdKept(ev', ev)
    BY <1>1, <2>1, ChildStopIs, SameIsKept
  <2>3. QED
    BY <2>1, <2>2, StopsKeep
<1>6. QED
  BY <1>2, <1>3, <1>4, <1>5

\* A step of the kernel that the loop does not see.
LEMMA KernelKeeps ==
  ASSUME Inv, ev' = ev, sh' = sh, run' = run, snd' = snd, live' = live, stopped' = stopped,
         kern' \in Kernels, KernInv(ev, kern'),
         kern'.zombies = kern.zombies, kern'.raised = kern.raised
  PROVE  Inv'
<1>1. LoopTypes'
  BY DEF Inv, LoopTypes
<1>2. PhaseInv' /\ StoppedInv'
  BY Zenon DEF Inv, PhaseInv, NoPending, StoppedInv
<1>3. WakeupInv'
  BY WakeupKept DEF Inv
<1>4. LoopInv(ev)' /\ KernInv(ev, kern)'
  <2>1. LoopInv(ev)
    BY DEF Inv
  <2>2. QED
    BY <2>1, Zenon
<1>5. QED
  BY <1>1, <1>2, <1>3, <1>4 DEF Inv

LEMMA OpenKeeps ==
  ASSUME Inv, NEW fd \in Fds, NEW regular \in BOOLEAN, Open(fd, regular)
  PROVE  Inv'
<1>1. /\ run' = run /\ snd' = snd /\ live' = live /\ ev' = ev /\ sh' = sh /\ stopped' = stopped
      /\ kern.file[fd] = 0 /\ kern.last < MaxFile
      /\ kern' = Opened(kern, fd, regular)
  BY Zenon DEF Open, Client, Opened
<1>2. ev \in Loops /\ kern \in Kernels /\ KernInv(ev, kern)
  BY DEF Inv, LoopTypes
<1>3. /\ kern' \in Kernels /\ KernInv(ev, kern') /\ kern'.zombies = kern.zombies
      /\ kern'.raised = kern.raised
  BY <1>1, <1>2, OpenIs
<1>4. QED
  BY <1>1, <1>3, KernelKeeps

LEMMA CloseKeeps ==
  ASSUME Inv, NEW fd \in Fds, Close(fd)
  PROVE  Inv'
<1> DEFINE file == [kern.file EXCEPT ![fd] = 0]
           x == WithFile(kern, file)
<1>1. /\ run' = run /\ snd' = snd /\ live' = live /\ ev' = ev /\ sh' = sh /\ stopped' = stopped
      /\ ev.fd[fd].head = <<>> /\ kern' = Forget(x)
  BY Zenon DEF Close, Client, WithFile
<1>2. ev \in Loops /\ kern \in Kernels /\ KernInv(ev, kern) /\ IoListed(ev)
  BY DEF Inv, LoopTypes, LoopInv
<1>3. fd \in AllFds /\ PipeFd \in AllFds /\ fd # PipeFd
  BY LoopAssumption DEF AllFds
<1>4. /\ file \in [AllFds -> Nat] /\ file[fd] = 0
      /\ \A c \in AllFds \ {fd} : file[c] = kern.file[c]
  BY <1>2, <1>3, KernFields
<1> HIDE DEF file
<1>5. /\ x \in Kernels /\ x.file = file /\ x.last = kern.last /\ x.regs = kern.regs
      /\ x.regular = kern.regular /\ x.inited = kern.inited /\ x.zombies = kern.zombies
      /\ x.raised = kern.raised
  BY <1>2, <1>4, WithFileIs
<1> HIDE DEF x
<1>6. \A w \in Ios \cap ev.active : WFd[w] \in AllFds /\ WFd[w] # fd
  <2>1. ToSet(ev.fd[fd].head) = {}
    BY <1>1 DEF ToSet
  <2>2. {w \in ev.active \cap Ios : WFd[w] = fd} = {}
    BY <1>2, <2>1 DEF IoListed
  <2>3. QED
    BY <2>2, LoopAssumption DEF AllFds
<1>7. /\ x.file[PipeFd] = kern.file[PipeFd] /\ \A c \in AllFds : x.file[c] \in {kern.file[c], 0}
      /\ \A w \in Ios \cap ev.active : x.file[WFd[w]] = kern.file[WFd[w]]
  BY <1>3, <1>4, <1>5, <1>6
<1>8. /\ kern' \in Kernels /\ KernInv(ev, kern') /\ kern'.zombies = kern.zombies
      /\ kern'.raised = kern.raised
  BY <1>1, <1>2, <1>5, <1>7, Forgotten
<1>9. QED
  BY <1>1, <1>8, KernelKeeps

LEMMA ShareKeeps ==
  ASSUME Inv, NEW fd \in Fds, Share(fd)
  PROVE  Inv'
<1> DEFINE held == kern.held \cup {kern.file[fd]}
<1>1. /\ run' = run /\ snd' = snd /\ live' = live /\ ev' = ev /\ sh' = sh /\ stopped' = stopped
      /\ kern.file[fd] # 0 /\ kern' = WithHeld(kern, held)
  BY DEF Share, Client, WithHeld
<1>2. ev \in Loops /\ kern \in Kernels /\ KernInv(ev, kern) /\ FilesKnown(kern)
  BY DEF Inv, LoopTypes, KernInv
<1>3. held \in SUBSET Files
  <2>1. /\ kern.file[fd] \in Nat /\ kern.file[fd] <= kern.last /\ kern.last \in 0..MaxFile
        /\ MaxFile \in Nat
    BY <1>2, KernFields, LoopAssumption DEF AllFds, FilesKnown
  <2>2. kern.file[fd] \in Files
    BY <1>1, <2>1 DEF Files
  <2>3. QED
    BY <1>2, <2>2, KernFields
<1> HIDE DEF held
<1>4. /\ kern' \in Kernels /\ SameFiles(kern', kern) /\ kern'.zombies = kern.zombies
      /\ kern'.raised = kern.raised
  BY <1>1, <1>2, <1>3, WithHeldIs DEF SameFiles
<1>5. KernInv(ev, kern')
  BY <1>2, <1>4, KernSame
<1>6. QED
  BY <1>1, <1>4, <1>5, KernelKeeps

LEMMA UnshareKeeps ==
  ASSUME Inv, NEW i \in Files, Unshare(i)
  PROVE  Inv'
<1> DEFINE held == kern.held \ {i}
           x == WithHeld(kern, held)
<1>1. /\ run' = run /\ snd' = snd /\ live' = live /\ ev' = ev /\ sh' = sh /\ stopped' = stopped
      /\ kern' = Forget(x)
  BY Zenon DEF Unshare, World, WithHeld
<1>2. ev \in Loops /\ kern \in Kernels /\ KernInv(ev, kern)
  BY DEF Inv, LoopTypes
<1>3. held \in SUBSET Files
  BY <1>2, KernFields
<1> HIDE DEF held
<1>4. /\ x \in Kernels /\ x.file = kern.file /\ x.last = kern.last /\ x.regs = kern.regs
      /\ x.regular = kern.regular /\ x.inited = kern.inited /\ x.zombies = kern.zombies
      /\ x.raised = kern.raised
  BY <1>2, <1>3, WithHeldIs
<1> HIDE DEF x
<1>5. /\ kern' \in Kernels /\ KernInv(ev, kern') /\ kern'.zombies = kern.zombies
      /\ kern'.raised = kern.raised
  BY <1>1, <1>2, <1>4, Forgotten
<1>6. QED
  BY <1>1, <1>5, KernelKeeps

WithReady(k, ready) == [k EXCEPT !.ready = ready]
WithTime(k, time) == [k EXCEPT !.time = time]

LEMMA WithReadyIs ==
  ASSUME NEW k \in Kernels, NEW ready \in [Files -> SUBSET {"R", "W", "H"}]
  PROVE  LET x == WithReady(k, ready)
         IN  x \in Kernels /\ SameFiles(x, k) /\ x.zombies = k.zombies /\ x.raised = k.raised
BY DEF WithReady, Kernels, SameFiles

LEMMA WithTimeIs ==
  ASSUME NEW k \in Kernels, NEW time \in Nat
  PROVE  LET x == WithTime(k, time)
         IN  x \in Kernels /\ SameFiles(x, k) /\ x.zombies = k.zombies /\ x.raised = k.raised
BY DEF WithTime, Kernels, SameFiles

LEMMA ReadinessKeeps ==
  ASSUME Inv, NEW i \in Files, NEW ready \in {{}, {"R"}, {"W"}, {"H"}}, Readiness(i, ready)
  PROVE  Inv'
<1> DEFINE r == [kern.ready EXCEPT ![i] = ready]
<1>1. /\ run' = run /\ snd' = snd /\ live' = live /\ ev' = ev /\ sh' = sh /\ stopped' = stopped
      /\ kern' = WithReady(kern, r)
  BY Zenon DEF Readiness, World, WithReady
<1>2. ev \in Loops /\ kern \in Kernels /\ KernInv(ev, kern)
  BY DEF Inv, LoopTypes
<1>3. r \in [Files -> SUBSET {"R", "W", "H"}]
  <2>1. ready \in SUBSET {"R", "W", "H"}
    OBVIOUS
  <2>2. QED
    BY <1>2, <2>1, KernFields
<1> HIDE DEF r
<1>4. /\ kern' \in Kernels /\ SameFiles(kern', kern) /\ kern'.zombies = kern.zombies
      /\ kern'.raised = kern.raised
  BY <1>1, <1>2, <1>3, WithReadyIs
<1>5. KernInv(ev, kern')
  BY <1>2, <1>4, KernSame
<1>6. QED
  BY <1>1, <1>4, <1>5, KernelKeeps

LEMMA TickKeeps ==
  ASSUME Inv, Tick
  PROVE  Inv'
<1>1. /\ run' = run /\ snd' = snd /\ live' = live /\ ev' = ev /\ sh' = sh /\ stopped' = stopped
      /\ kern' = WithTime(kern, kern.time + 1)
  BY DEF Tick, World, WithTime
<1>2. ev \in Loops /\ kern \in Kernels /\ KernInv(ev, kern) /\ kern.time + 1 \in Nat
  BY KernFields DEF Inv, LoopTypes
<1>3. /\ kern' \in Kernels /\ SameFiles(kern', kern) /\ kern'.zombies = kern.zombies
      /\ kern'.raised = kern.raised
  BY <1>1, <1>2, WithTimeIs
<1>4. KernInv(ev, kern')
  BY <1>2, <1>3, KernSame
<1>5. QED
  BY <1>1, <1>3, <1>4, KernelKeeps

----------------------------------------------------------------------------
(* Signals, threads and the pipe *)

WithChildren(k, zombies, raised) == [k EXCEPT !.zombies = zombies, !.raised = raised]

LEMMA WithChildrenIs ==
  ASSUME NEW k \in Kernels, NEW zombies \in SUBSET Children, NEW raised \in BOOLEAN
  PROVE  LET x == WithChildren(k, zombies, raised)
         IN  x \in Kernels /\ SameFiles(x, k) /\ x.zombies = zombies /\ x.raised = raised
BY DEF WithChildren, Kernels, SameFiles

\* What is left to show when the loop and the kernel's files are left alone.
LEMMA OthersKeep ==
  ASSUME Inv, ev' = ev, live' = live, stopped' = stopped, kern' \in Kernels, SameFiles(kern', kern),
         sh' \in Shares, run' \in Runs, snd' \in Senders, PhaseInv', WakeupInv'
  PROVE  Inv'
<1>1. LoopTypes'
  BY DEF Inv, LoopTypes
<1>2. StoppedInv'
  BY Zenon DEF Inv, StoppedInv
<1>3. LoopInv(ev) /\ KernInv(ev, kern)
  BY DEF Inv
<1>4. KernInv(ev, kern')
  BY <1>3, KernSame
<1>5. LoopInv(ev)' /\ KernInv(ev, kern)'
  BY <1>3, <1>4, Zenon
<1>6. QED
  BY <1>1, <1>2, <1>5 DEF Inv

LEMMA ExitsKeeps ==
  ASSUME Inv, NEW c \in Children, Exits(c)
  PROVE  Inv'
<1>1. /\ run' = run /\ snd' = snd /\ live' = live /\ ev' = ev /\ sh' = sh /\ stopped' = stopped
      /\ kern' = WithChildren(kern, kern.zombies \cup {c}, TRUE)
  BY Zenon DEF Exits, World, WithChildren
<1>2. /\ ev \in Loops /\ kern \in Kernels /\ sh \in Shares /\ run \in Runs /\ snd \in Senders
      /\ kern.zombies \cup {c} \in SUBSET Children
  BY KernFields DEF Inv, LoopTypes
<1>3. kern' \in Kernels /\ SameFiles(kern', kern) /\ kern'.raised = TRUE
  BY <1>1, <1>2, WithChildrenIs
<1>4. PhaseInv'
  BY <1>1, Zenon DEF Inv, PhaseInv, NoPending
<1>5. WakeupInv'
  BY <1>1, <1>3, Zenon DEF Inv, WakeupInv, Awake
<1>6. QED
  BY <1>1, <1>2, <1>3, <1>4, <1>5, OthersKeep

\* What the loop, its senders and the phases have to do with a wakeup.
LEMMA WakeupParts ==
  ASSUME Inv
  PROVE  /\ sh \in Shares /\ run \in Runs /\ snd \in Senders /\ kern \in Kernels
         /\ break_async \in sh.sent => snd["thread"] = "flag" \/ sh.async_pending \/ run.pc = "asyncs"
         /\ sh.sig => snd["handler"] = "flag" \/ sh.sig_pending \/ run.pc = "signals"
         /\ kern.zombies # {} => kern.raised \/ sh.sig \/ ev.idx[childev] > 0
         /\ sh.async_pending =>
               snd["thread"] = "skip" \/ Awake \/ run.pc \in {"skipped", "sig", "signals", "async"}
         /\ sh.sig_pending => snd["handler"] = "skip" \/ Awake \/ run.pc \in {"skipped", "sig"}
         /\ run.pc = "poll" /\ run.blocks /\ sh.skipped =>
               snd["thread"] = "wanted" \/ snd["handler"] = "wanted"
         /\ run.pc = "poll" => sh.wanted
BY DEF Inv, LoopTypes, WakeupInv, PhaseInv

LEMMA SendKeeps ==
  ASSUME Inv, ev_async_send
  PROVE  Inv'
<1>1. /\ ev' = ev /\ kern' = kern /\ run' = run /\ live' = live /\ stopped' = stopped
      /\ snd["thread"] = "idle" /\ sh' = [sh EXCEPT !.sent = @ \cup {break_async}]
      /\ snd' = [snd EXCEPT !["thread"] = "flag"]
  BY DEF ev_async_send
<1>2. sh \in Shares /\ run \in Runs /\ snd \in Senders /\ kern \in Kernels
  BY WakeupParts
<1>3. sh' \in Shares /\ \A f \in DOMAIN sh \ {"sent"} : sh'[f] = sh[f]
  BY <1>1, <1>2 DEF Shares
<1>4. /\ sh'.sig = sh.sig /\ sh'.async_pending = sh.async_pending /\ sh'.sig_pending = sh.sig_pending
      /\ sh'.skipped = sh.skipped /\ sh'.wanted = sh.wanted /\ sh'.pipe = sh.pipe
  BY <1>1, <1>2 DEF Shares
<1>5. snd' \in Senders /\ snd'["thread"] = "flag" /\ snd'["handler"] = snd["handler"]
  BY <1>1, <1>2 DEF Senders
<1>6. PhaseInv'
  BY <1>1, <1>4, Zenon DEF Inv, PhaseInv, NoPending
<1>7. WakeupInv'
  BY <1>1, <1>4, <1>5, WakeupParts DEF WakeupInv, Awake
<1>8. SameFiles(kern', kern)
  BY <1>1 DEF SameFiles
<1>9. QED
  BY <1>1, <1>2, <1>3, <1>5, <1>6, <1>7, <1>8, OthersKeep

LEMMA SighandlerKeeps ==
  ASSUME Inv, ev_sighandler
  PROVE  Inv'
<1>1. /\ ev' = ev /\ run' = run /\ live' = live /\ stopped' = stopped
      /\ snd["handler"] = "idle" /\ sh' = [sh EXCEPT !.sig = TRUE]
      /\ snd' = [snd EXCEPT !["handler"] = "flag"] /\ kern' = [kern EXCEPT !.raised = FALSE]
  BY DEF ev_sighandler
<1>2. sh \in Shares /\ run \in Runs /\ snd \in Senders /\ kern \in Kernels
  BY WakeupParts
<1>3. /\ sh' \in Shares /\ sh'.sent = sh.sent /\ sh'.sig = TRUE
      /\ sh'.async_pending = sh.async_pending /\ sh'.sig_pending = sh.sig_pending
      /\ sh'.skipped = sh.skipped /\ sh'.wanted = sh.wanted /\ sh'.pipe = sh.pipe
  BY <1>1, <1>2 DEF Shares
<1>4. snd' \in Senders /\ snd'["handler"] = "flag" /\ snd'["thread"] = snd["thread"]
  BY <1>1, <1>2 DEF Senders
<1>5. kern' \in Kernels /\ SameFiles(kern', kern)
  BY <1>1, <1>2 DEF Kernels, SameFiles
<1>6. PhaseInv'
  BY <1>1, <1>3, Zenon DEF Inv, PhaseInv, NoPending
<1>7. WakeupInv'
  BY <1>1, <1>3, <1>4, WakeupParts DEF WakeupInv, Awake
<1>8. QED
  BY <1>1, <1>2, <1>3, <1>4, <1>5, <1>6, <1>7, OthersKeep

LEMMA SenderKeeps ==
  ASSUME Inv, ev' = ev, kern' = kern, run' = run, live' = live, stopped' = stopped,
         sh' \in Shares, sh'.wanted = sh.wanted, snd' \in Senders, WakeupInv'
  PROVE  Inv'
<1>1. PhaseInv'
  BY Zenon DEF Inv, PhaseInv, NoPending
<1>2. SameFiles(kern', kern) /\ kern' \in Kernels /\ run' \in Runs
  BY WakeupParts DEF SameFiles
<1>3. QED
  BY <1>1, <1>2, OthersKeep

\* evpipe_write: a sender that leaves without a write leaves a flag that the
\* loop looks at before it sleeps.
LEMMA WriteKeeps ==
  ASSUME Inv, NEW s \in DOMAIN snd, evpipe_write(s)
  PROVE  Inv'
<1>1. /\ ev' = ev /\ kern' = kern /\ run' = run /\ live' = live /\ stopped' = stopped
  BY Zenon DEF evpipe_write
<1>2. sh \in Shares /\ run \in Runs /\ snd \in Senders /\ kern \in Kernels
  BY WakeupParts
<1>3. s \in {"thread", "handler"} /\ "thread" # "handler"
  BY <1>2 DEF Senders
<1> DEFINE flag == IF s = "thread" THEN sh.async_pending ELSE sh.sig_pending
           To(pc) == snd' = [snd EXCEPT ![s] = pc]
<1>4. ASSUME NEW pc \in {"idle", "skip", "wanted", "write"}, To(pc)
      PROVE  /\ snd' \in Senders
             /\ s = "thread" => snd'["thread"] = pc /\ snd'["handler"] = snd["handler"]
             /\ s = "handler" => snd'["handler"] = pc /\ snd'["thread"] = snd["thread"]
  BY <1>2, <1>3, <1>4 DEF Senders
<1>5. CASE /\ flag /\ snd[s] = "flag" /\ To("idle") /\ sh' = sh
  <2>1. /\ snd' \in Senders
        /\ s = "thread" => snd'["thread"] = "idle" /\ snd'["handler"] = snd["handler"]
        /\ s = "handler" => snd'["handler"] = "idle" /\ snd'["thread"] = snd["thread"]
    BY <1>4, <1>5
  <2>2. CASE s = "thread"
    <3>1. /\ sh' \in Shares /\ sh'.sent = sh.sent /\ sh'.sig = sh.sig
          /\ sh'.async_pending = sh.async_pending /\ sh'.sig_pending = sh.sig_pending /\ sh'.skipped = sh.skipped
          /\ sh'.wanted = sh.wanted /\ sh'.pipe = sh.pipe
      BY <1>2, <1>3, <1>5, <2>2 DEF Shares
    <3>2. snd["thread"] = "flag" /\ sh.async_pending
      BY <1>5, <2>2
    <3>3. WakeupInv'
      BY <1>1, <2>1, <2>2, <3>1, <3>2, WakeupParts DEF WakeupInv, Awake
    <3>4. QED
      BY <1>1, <2>1, <3>1, <3>3, SenderKeeps
  <2>3. CASE s = "handler"
    <3>1. /\ sh' \in Shares /\ sh'.sent = sh.sent /\ sh'.sig = sh.sig
          /\ sh'.async_pending = sh.async_pending /\ sh'.sig_pending = sh.sig_pending /\ sh'.skipped = sh.skipped
          /\ sh'.wanted = sh.wanted /\ sh'.pipe = sh.pipe
      BY <1>2, <1>3, <1>5, <2>3 DEF Shares
    <3>2. snd["handler"] = "flag" /\ sh.sig_pending
      BY <1>5, <2>3
    <3>3. WakeupInv'
      BY <1>1, <2>1, <2>3, <3>1, <3>2, WakeupParts DEF WakeupInv, Awake
    <3>4. QED
      BY <1>1, <2>1, <3>1, <3>3, SenderKeeps
  <2>4. QED
    BY <1>3, <2>2, <2>3
<1>6. CASE /\ ~flag /\ snd[s] = "flag" /\ To("skip")
           /\ sh' = IF s = "thread" THEN [sh EXCEPT !.async_pending = TRUE]
                    ELSE [sh EXCEPT !.sig_pending = TRUE]
  <2>1. /\ snd' \in Senders
        /\ s = "thread" => snd'["thread"] = "skip" /\ snd'["handler"] = snd["handler"]
        /\ s = "handler" => snd'["handler"] = "skip" /\ snd'["thread"] = snd["thread"]
    BY <1>4, <1>6
  <2>2. CASE s = "thread"
    <3>1. /\ sh' \in Shares /\ sh'.sent = sh.sent /\ sh'.sig = sh.sig
          /\ sh'.async_pending = TRUE /\ sh'.sig_pending = sh.sig_pending /\ sh'.skipped = sh.skipped
          /\ sh'.wanted = sh.wanted /\ sh'.pipe = sh.pipe
      BY <1>2, <1>3, <1>6, <2>2 DEF Shares
    <3>2. snd["thread"] = "flag"
      BY <1>6, <2>2
    <3>3. WakeupInv'
      BY <1>1, <2>1, <2>2, <3>1, <3>2, WakeupParts DEF WakeupInv, Awake
    <3>4. QED
      BY <1>1, <2>1, <3>1, <3>3, SenderKeeps
  <2>3. CASE s = "handler"
    <3>1. /\ sh' \in Shares /\ sh'.sent = sh.sent /\ sh'.sig = sh.sig
          /\ sh'.async_pending = sh.async_pending /\ sh'.sig_pending = TRUE /\ sh'.skipped = sh.skipped
          /\ sh'.wanted = sh.wanted /\ sh'.pipe = sh.pipe
      BY <1>2, <1>3, <1>6, <2>3 DEF Shares
    <3>2. snd["handler"] = "flag"
      BY <1>6, <2>3
    <3>3. WakeupInv'
      BY <1>1, <2>1, <2>3, <3>1, <3>2, WakeupParts DEF WakeupInv, Awake
    <3>4. QED
      BY <1>1, <2>1, <3>1, <3>3, SenderKeeps
  <2>4. QED
    BY <1>3, <2>2, <2>3
<1>7. CASE /\ snd[s] = "skip" /\ To("wanted") /\ sh' = [sh EXCEPT !.skipped = TRUE]
  <2>1. /\ snd' \in Senders
        /\ s = "thread" => snd'["thread"] = "wanted" /\ snd'["handler"] = snd["handler"]
        /\ s = "handler" => snd'["handler"] = "wanted" /\ snd'["thread"] = snd["thread"]
    BY <1>4, <1>7
  <2>2. CASE s = "thread"
    <3>1. /\ sh' \in Shares /\ sh'.sent = sh.sent /\ sh'.sig = sh.sig
          /\ sh'.async_pending = sh.async_pending /\ sh'.sig_pending = sh.sig_pending /\ sh'.skipped = TRUE
          /\ sh'.wanted = sh.wanted /\ sh'.pipe = sh.pipe
      BY <1>2, <1>3, <1>7, <2>2 DEF Shares
    <3>2. snd["thread"] = "skip"
      BY <1>7, <2>2
    <3>3. WakeupInv'
      BY <1>1, <2>1, <2>2, <3>1, <3>2, WakeupParts DEF WakeupInv, Awake
    <3>4. QED
      BY <1>1, <2>1, <3>1, <3>3, SenderKeeps
  <2>3. CASE s = "handler"
    <3>1. /\ sh' \in Shares /\ sh'.sent = sh.sent /\ sh'.sig = sh.sig
          /\ sh'.async_pending = sh.async_pending /\ sh'.sig_pending = sh.sig_pending /\ sh'.skipped = TRUE
          /\ sh'.wanted = sh.wanted /\ sh'.pipe = sh.pipe
      BY <1>2, <1>3, <1>7, <2>3 DEF Shares
    <3>2. snd["handler"] = "skip"
      BY <1>7, <2>3
    <3>3. WakeupInv'
      BY <1>1, <2>1, <2>3, <3>1, <3>2, WakeupParts DEF WakeupInv, Awake
    <3>4. QED
      BY <1>1, <2>1, <3>1, <3>3, SenderKeeps
  <2>4. QED
    BY <1>3, <2>2, <2>3
<1>8. CASE /\ snd[s] = "wanted" /\ ~sh.wanted /\ To("idle") /\ sh' = sh
  <2>1. /\ snd' \in Senders
        /\ s = "thread" => snd'["thread"] = "idle" /\ snd'["handler"] = snd["handler"]
        /\ s = "handler" => snd'["handler"] = "idle" /\ snd'["thread"] = snd["thread"]
    BY <1>4, <1>8
  <2>2. CASE s = "thread"
    <3>1. /\ sh' \in Shares /\ sh'.sent = sh.sent /\ sh'.sig = sh.sig
          /\ sh'.async_pending = sh.async_pending /\ sh'.sig_pending = sh.sig_pending /\ sh'.skipped = sh.skipped
          /\ sh'.wanted = sh.wanted /\ sh'.pipe = sh.pipe
      BY <1>2, <1>3, <1>8, <2>2 DEF Shares
    <3>2. snd["thread"] = "wanted" /\ ~sh.wanted
      BY <1>8, <2>2
    <3>3. WakeupInv'
      BY <1>1, <2>1, <2>2, <3>1, <3>2, WakeupParts DEF WakeupInv, Awake
    <3>4. QED
      BY <1>1, <2>1, <3>1, <3>3, SenderKeeps
  <2>3. CASE s = "handler"
    <3>1. /\ sh' \in Shares /\ sh'.sent = sh.sent /\ sh'.sig = sh.sig
          /\ sh'.async_pending = sh.async_pending /\ sh'.sig_pending = sh.sig_pending /\ sh'.skipped = sh.skipped
          /\ sh'.wanted = sh.wanted /\ sh'.pipe = sh.pipe
      BY <1>2, <1>3, <1>8, <2>3 DEF Shares
    <3>2. snd["handler"] = "wanted" /\ ~sh.wanted
      BY <1>8, <2>3
    <3>3. WakeupInv'
      BY <1>1, <2>1, <2>3, <3>1, <3>2, WakeupParts DEF WakeupInv, Awake
    <3>4. QED
      BY <1>1, <2>1, <3>1, <3>3, SenderKeeps
  <2>4. QED
    BY <1>3, <2>2, <2>3
<1>9. CASE /\ snd[s] = "wanted" /\ sh.wanted /\ To("write") /\ sh' = [sh EXCEPT !.skipped = FALSE]
  <2>1. /\ snd' \in Senders
        /\ s = "thread" => snd'["thread"] = "write" /\ snd'["handler"] = snd["handler"]
        /\ s = "handler" => snd'["handler"] = "write" /\ snd'["thread"] = snd["thread"]
    BY <1>4, <1>9
  <2>2. CASE s = "thread"
    <3>1. /\ sh' \in Shares /\ sh'.sent = sh.sent /\ sh'.sig = sh.sig
          /\ sh'.async_pending = sh.async_pending /\ sh'.sig_pending = sh.sig_pending /\ sh'.skipped = FALSE
          /\ sh'.wanted = sh.wanted /\ sh'.pipe = sh.pipe
      BY <1>2, <1>3, <1>9, <2>2 DEF Shares
    <3>2. snd["thread"] = "wanted" /\ sh.wanted
      BY <1>9, <2>2
    <3>3. WakeupInv'
      BY <1>1, <2>1, <2>2, <3>1, <3>2, WakeupParts DEF WakeupInv, Awake
    <3>4. QED
      BY <1>1, <2>1, <3>1, <3>3, SenderKeeps
  <2>3. CASE s = "handler"
    <3>1. /\ sh' \in Shares /\ sh'.sent = sh.sent /\ sh'.sig = sh.sig
          /\ sh'.async_pending = sh.async_pending /\ sh'.sig_pending = sh.sig_pending /\ sh'.skipped = FALSE
          /\ sh'.wanted = sh.wanted /\ sh'.pipe = sh.pipe
      BY <1>2, <1>3, <1>9, <2>3 DEF Shares
    <3>2. snd["handler"] = "wanted" /\ sh.wanted
      BY <1>9, <2>3
    <3>3. WakeupInv'
      BY <1>1, <2>1, <2>3, <3>1, <3>2, WakeupParts DEF WakeupInv, Awake
    <3>4. QED
      BY <1>1, <2>1, <3>1, <3>3, SenderKeeps
  <2>4. QED
    BY <1>3, <2>2, <2>3
<1>10. CASE /\ snd[s] = "write" /\ To("idle") /\ sh' = [sh EXCEPT !.pipe = TRUE]
  <2>1. /\ snd' \in Senders
        /\ s = "thread" => snd'["thread"] = "idle" /\ snd'["handler"] = snd["handler"]
        /\ s = "handler" => snd'["handler"] = "idle" /\ snd'["thread"] = snd["thread"]
    BY <1>4, <1>10
  <2>2. CASE s = "thread"
    <3>1. /\ sh' \in Shares /\ sh'.sent = sh.sent /\ sh'.sig = sh.sig
          /\ sh'.async_pending = sh.async_pending /\ sh'.sig_pending = sh.sig_pending /\ sh'.skipped = sh.skipped
          /\ sh'.wanted = sh.wanted /\ sh'.pipe = TRUE
      BY <1>2, <1>3, <1>10, <2>2 DEF Shares
    <3>2. snd["thread"] = "write"
      BY <1>10, <2>2
    <3>3. WakeupInv'
      BY <1>1, <2>1, <2>2, <3>1, <3>2, WakeupParts DEF WakeupInv, Awake
    <3>4. QED
      BY <1>1, <2>1, <3>1, <3>3, SenderKeeps
  <2>3. CASE s = "handler"
    <3>1. /\ sh' \in Shares /\ sh'.sent = sh.sent /\ sh'.sig = sh.sig
          /\ sh'.async_pending = sh.async_pending /\ sh'.sig_pending = sh.sig_pending /\ sh'.skipped = sh.skipped
          /\ sh'.wanted = sh.wanted /\ sh'.pipe = TRUE
      BY <1>2, <1>3, <1>10, <2>3 DEF Shares
    <3>2. snd["handler"] = "write"
      BY <1>10, <2>3
    <3>3. WakeupInv'
      BY <1>1, <2>1, <2>3, <3>1, <3>2, WakeupParts DEF WakeupInv, Awake
    <3>4. QED
      BY <1>1, <2>1, <3>1, <3>3, SenderKeeps
  <2>4. QED
    BY <1>3, <2>2, <2>3
<1>11. QED
  BY <1>5, <1>6, <1>7, <1>8, <1>9, <1>10, Zenon DEF evpipe_write


----------------------------------------------------------------------------
(* ev_run *)

LEMMA RunFields ==
  ASSUME NEW r \in Runs
  PROVE  r.pc \in Phases /\ r.nowait \in BOOLEAN /\ r.blocks \in BOOLEAN /\ r.until \in Nat
BY DEF Runs

\* A step of the loop that leaves its watchers and the kernel alone.
LEMMA PhaseKeeps ==
  ASSUME Inv, ev' = ev, kern' = kern, snd' = snd, live' = live, stopped' = stopped,
         sh' \in Shares, run' \in Runs, PhaseInv', WakeupInv'
  PROVE  Inv'
<1>1. SameFiles(kern', kern) /\ kern' \in Kernels /\ snd' \in Senders
  BY WakeupParts DEF SameFiles
<1>2. QED
  BY <1>1, OthersKeep

LEMMA GotoIs ==
  ASSUME run \in Runs, NEW pc \in Phases, Goto(pc)
  PROVE  run' \in Runs /\ run'.pc = pc
BY DEF Goto, Runs

LEMMA BlockingTimeKeeps ==
  ASSUME Inv, BlockingTime
  PROVE  Inv'
<1> DEFINE blocks == ~(run.nowait \/ ev.cnt = 0 \/ sh.skipped)
           until == IF ev.heap = <<>> THEN 0 ELSE ev.at[Head(ev.heap)]
<1>1. /\ ev' = ev /\ sh' = sh /\ kern' = kern /\ snd' = snd /\ live' = live /\ stopped' = stopped
      /\ run.pc = "decide"
      /\ run' = [run EXCEPT !.pc = "poll", !.blocks = blocks, !.until = until]
  BY Zenon DEF BlockingTime, Outside, At
<1>2. sh \in Shares /\ run \in Runs /\ ev \in Loops
  BY WakeupParts DEF Inv, LoopTypes
<1>3. until \in Nat /\ (ev.heap # <<>> => until = ev.at[ev.heap[1]])
  BY <1>2, LoopFields
<1>4. blocks \in BOOLEAN /\ (blocks => ~sh.skipped)
  OBVIOUS
<1> HIDE DEF blocks, until
<1>5. /\ run' \in Runs /\ run'.pc = "poll" /\ run'.blocks = blocks /\ run'.until = until
  BY <1>1, <1>2, <1>3, <1>4 DEF Runs, Phases
<1>6. PhaseInv'
  <2>1. NoPending(ev) /\ ~ev.postfork /\ ev.changes = <<>> /\ sh.wanted
    BY <1>1 DEF Inv, PhaseInv
  <2>2. NoPending(ev')
    BY <1>1, <2>1
  <2>3. QED
    BY <1>1, <1>3, <1>5, <2>1, <2>2 DEF PhaseInv
<1>7. WakeupInv'
  BY <1>1, <1>4, <1>5, WakeupParts DEF WakeupInv, Awake
<1>8. QED
  BY <1>1, <1>2, <1>5, <1>6, <1>7, PhaseKeeps

LEMMA InterruptedKeeps ==
  ASSUME Inv, EpollInterrupted
  PROVE  Inv'
<1>1. /\ ev' = ev /\ sh' = sh /\ kern' = kern /\ snd' = snd /\ live' = live /\ stopped' = stopped
      /\ run.pc = "poll"
      /\ run' = [pc |-> "polled", nowait |-> FALSE, blocks |-> FALSE, until |-> 0]
  BY DEF EpollInterrupted, Outside, At, Polled
<1>2. run' \in Runs /\ run'.pc = "polled" /\ sh \in Shares
  BY <1>1, WakeupParts DEF Runs, Phases
<1>3. PhaseInv'
  BY <1>2 DEF PhaseInv
<1>4. WakeupInv'
  BY <1>1, <1>2, WakeupParts DEF WakeupInv, Awake
<1>5. QED
  BY <1>1, <1>2, <1>3, <1>4, PhaseKeeps

LEMMA NotWantedKeeps ==
  ASSUME Inv, NotWanted
  PROVE  Inv'
<1>1. /\ ev' = ev /\ kern' = kern /\ snd' = snd /\ live' = live /\ stopped' = stopped
      /\ run.pc = "polled" /\ sh' = [sh EXCEPT !.wanted = FALSE] /\ Goto("timers")
  BY DEF NotWanted, Outside, At
<1>2. run' \in Runs /\ run'.pc = "timers"
  BY <1>1, WakeupParts, GotoIs DEF Phases
<1>3. /\ sh' \in Shares /\ sh'.sent = sh.sent /\ sh'.sig = sh.sig
      /\ sh'.async_pending = sh.async_pending /\ sh'.sig_pending = sh.sig_pending
      /\ sh'.skipped = sh.skipped /\ sh'.pipe = sh.pipe
  BY <1>1, WakeupParts DEF Shares
<1>4. PhaseInv'
  BY <1>2 DEF PhaseInv
<1>5. WakeupInv'
  BY <1>1, <1>2, <1>3, WakeupParts DEF WakeupInv, Awake
<1>6. QED
  BY <1>1, <1>2, <1>3, <1>4, <1>5, PhaseKeeps

LEMMA SkippedKeeps ==
  ASSUME Inv, pipecbSkipped
  PROVE  Inv'
<1>1. /\ ev' = ev /\ kern' = kern /\ snd' = snd /\ live' = live /\ stopped' = stopped
      /\ run.pc = "skipped" /\ sh' = [sh EXCEPT !.skipped = FALSE] /\ Goto("sig")
  BY DEF pipecbSkipped, Outside, At
<1>2. run' \in Runs /\ run'.pc = "sig"
  BY <1>1, WakeupParts, GotoIs DEF Phases
<1>3. /\ sh' \in Shares /\ sh'.sent = sh.sent /\ sh'.sig = sh.sig
      /\ sh'.async_pending = sh.async_pending /\ sh'.sig_pending = sh.sig_pending
      /\ sh'.skipped = FALSE /\ sh'.pipe = sh.pipe
  BY <1>1, WakeupParts DEF Shares
<1>4. PhaseInv'
  BY <1>2 DEF PhaseInv
<1>5. WakeupInv'
  BY <1>1, <1>2, <1>3, WakeupParts DEF WakeupInv, Awake
<1>6. QED
  BY <1>1, <1>2, <1>3, <1>4, <1>5, PhaseKeeps

\* A flag is looked at after what it stands for was set, and reset before that
\* is looked at.
LEMMA PendingKeeps ==
  ASSUME Inv, pipecbPending
  PROVE  Inv'
<1>1. ev' = ev /\ kern' = kern /\ snd' = snd /\ live' = live /\ stopped' = stopped
  BY DEF pipecbPending, Outside
<1>2. CASE /\ run.pc = "sig" /\ sh' = [sh EXCEPT !.sig_pending = FALSE]
           /\ Goto(IF sh.sig_pending THEN "signals" ELSE "async")
  <2>1. /\ run' \in Runs
        /\ sh.sig_pending => run'.pc = "signals"
        /\ ~sh.sig_pending => run'.pc = "async"
    <3>1. run \in Runs
      BY WakeupParts
    <3>2. CASE sh.sig_pending
      BY <1>2, <3>1, <3>2, GotoIs DEF Phases
    <3>3. CASE ~sh.sig_pending
      BY <1>2, <3>1, <3>3, GotoIs DEF Phases
    <3>4. QED
      BY <3>2, <3>3
  <2>2. /\ sh' \in Shares /\ sh'.sent = sh.sent /\ sh'.sig = sh.sig
        /\ sh'.async_pending = sh.async_pending /\ sh'.sig_pending = FALSE
        /\ sh'.skipped = sh.skipped /\ sh'.pipe = sh.pipe
    BY <1>2, WakeupParts DEF Shares
  <2>3. run'.pc \in {"signals", "async"}
    BY <2>1
  <2>4. PhaseInv'
    BY <2>3 DEF PhaseInv
  <2>5. WakeupInv'
    BY <1>1, <1>2, <2>1, <2>2, <2>3, WakeupParts DEF WakeupInv, Awake
  <2>6. QED
    BY <1>1, <2>1, <2>2, <2>4, <2>5, PhaseKeeps
<1>3. CASE /\ run.pc = "async" /\ sh' = [sh EXCEPT !.async_pending = FALSE]
           /\ Goto(IF sh.async_pending THEN "asyncs" ELSE "invoke")
  <2>1. /\ run' \in Runs
        /\ sh.async_pending => run'.pc = "asyncs"
        /\ ~sh.async_pending => run'.pc = "invoke"
    <3>1. run \in Runs
      BY WakeupParts
    <3>2. CASE sh.async_pending
      BY <1>3, <3>1, <3>2, GotoIs DEF Phases
    <3>3. CASE ~sh.async_pending
      BY <1>3, <3>1, <3>3, GotoIs DEF Phases
    <3>4. QED
      BY <3>2, <3>3
  <2>2. /\ sh' \in Shares /\ sh'.sent = sh.sent /\ sh'.sig = sh.sig
        /\ sh'.async_pending = FALSE /\ sh'.sig_pending = sh.sig_pending
        /\ sh'.skipped = sh.skipped /\ sh'.pipe = sh.pipe
    BY <1>3, WakeupParts DEF Shares
  <2>3. run'.pc \in {"asyncs", "invoke"}
    BY <2>1
  <2>4. PhaseInv'
    BY <2>3 DEF PhaseInv
  <2>5. WakeupInv'
    BY <1>1, <1>3, <2>1, <2>2, <2>3, WakeupParts DEF WakeupInv, Awake
  <2>6. QED
    BY <1>1, <2>1, <2>2, <2>4, <2>5, PhaseKeeps
<1>4. QED
  BY <1>2, <1>3 DEF pipecbPending, At

LEMMA ReturnKeeps ==
  ASSUME Inv, Return
  PROVE  Inv'
<1>1. /\ ev' = ev /\ sh' = sh /\ kern' = kern /\ snd' = snd /\ live' = live /\ stopped' = stopped
      /\ run.pc = "invoke" /\ NoPending(ev) /\ Goto("out")
  BY DEF Return, Outside, At
<1>2. run' \in Runs /\ run'.pc = "out" /\ sh \in Shares
  BY <1>1, WakeupParts, GotoIs DEF Phases
<1>3. NoPending(ev')
  BY <1>1
<1>4. PhaseInv'
  BY <1>2, <1>3 DEF PhaseInv
<1>5. WakeupInv'
  BY <1>1, <1>2, WakeupParts DEF WakeupInv, Awake
<1>6. QED
  BY <1>1, <1>2, <1>4, <1>5, PhaseKeeps

\* What is left to show of a step of the loop itself.
LEMMA LoopKeeps ==
  ASSUME Inv, snd' = snd, live' = live, stopped' = stopped, ev' \in Loops, LoopInv(ev'),
         kern' \in Kernels, KernInv(ev', kern'), sh' \in Shares, run' \in Runs,
         ev'.active \subseteq ev.active,
         \A w \in All \ ev.active : ev.idx[w] = 0 => ev'.idx[w] = 0,
         PhaseInv', WakeupInv'
  PROVE  Inv'
<1>1. LoopTypes'
  BY DEF Inv, LoopTypes
<1>2. StoppedInv'
  <2>1. \A w \in stopped : w \in All
    BY Names DEF Inv, LoopTypes
  <2>2. QED
    BY <2>1 DEF Inv, StoppedInv
<1>3. LoopInv(ev)' /\ KernInv(ev, kern)'
  BY Zenon
<1>4. QED
  BY <1>1, <1>2, <1>3 DEF Inv

WithNow(e, now) == [e EXCEPT !.now = now]

LEMMA WithNowIs ==
  ASSUME NEW e \in Loops, NEW now \in Nat
  PROVE  LET x == WithNow(e, now)
         IN  /\ x \in Loops
             /\ x.postfork = e.postfork /\ x.active = e.active /\ x.cnt = e.cnt
             /\ x.pend = e.pend /\ x.idx = e.idx /\ x.fd = e.fd /\ x.changes = e.changes
             /\ x.heap = e.heap /\ x.at = e.at /\ x.eperms = e.eperms /\ x.asyncs = e.asyncs
BY DEF WithNow, Loops

\* Nothing depends on the time.
LEMMA NowKeeps ==
  ASSUME NEW e \in Loops, LoopInv(e), NEW now \in Nat
  PROVE  LoopInv(WithNow(e, now))
<1> DEFINE x == WithNow(e, now)
<1>1. /\ x \in Loops
      /\ x.postfork = e.postfork /\ x.active = e.active /\ x.cnt = e.cnt
      /\ x.pend = e.pend /\ x.idx = e.idx /\ x.fd = e.fd /\ x.changes = e.changes
      /\ x.heap = e.heap /\ x.at = e.at /\ x.eperms = e.eperms /\ x.asyncs = e.asyncs
  BY WithNowIs
<1> HIDE DEF x
<1>2. Counted(x)
  BY <1>1, Zenon DEF LoopInv, Counted
<1>3. LoopInv(x)
  BY <1>1, <1>2, KeepExact, KeepIos, KeepTimers, KeepAsyncs, KeepFds, Zenon DEF LoopInv
<1>4. QED
  BY <1>3 DEF x

LEMMA RunKeeps ==
  ASSUME Inv, NEW nowait \in BOOLEAN, ev_run(nowait)
  PROVE  Inv'
<1> DEFINE s == [e |-> ev, k |-> kern]
           y == loop_fork(s)
           r == fd_reify(y)
<1>1. /\ run.pc = "out" /\ ev' = WithNow(r.e, kern.time) /\ kern' = r.k
      /\ sh' = [sh EXCEPT !.wanted = TRUE]
      /\ run' = [run EXCEPT !.pc = "decide", !.nowait = nowait]
      /\ snd' = snd /\ live' = live /\ stopped' = stopped
  BY Zenon DEF ev_run, Outside, At, WithNow
<1>2. /\ ev \in Loops /\ kern \in Kernels /\ LoopInv(ev) /\ KernInv(ev, kern) /\ NoPending(ev)
      /\ sh \in Shares /\ run \in Runs /\ kern.time \in Nat
  BY <1>1, KernFields DEF Inv, LoopTypes, PhaseInv
<1>3. PICK x \in Loops, z \in Kernels :
            /\ y = [e |-> x, k |-> z]
            /\ LoopInv(x) /\ KernInv(x, z) /\ ~x.postfork
            /\ x.pend = ev.pend /\ x.idx = ev.idx /\ x.active = ev.active
            /\ x.heap = ev.heap /\ x.at = ev.at /\ SameButRegs(z, kern)
  BY <1>2, LoopForkIs
<1> HIDE DEF y, s
<1>4. /\ r \in LoopAndKernel /\ LoopInv(r.e) /\ KernInv(r.e, r.k) /\ r.e.postfork = x.postfork
      /\ r.e.changes = <<>> /\ r.e.pend = x.pend /\ r.e.idx = x.idx /\ r.e.active = x.active
      /\ SameButRegs(r.k, z)
  BY <1>3, FdReifyIs
<1> HIDE DEF r
<1>5. r.e \in Loops /\ r.k \in Kernels
  BY <1>4 DEF LoopAndKernel
<1>6. /\ ev' \in Loops /\ ev'.postfork = r.e.postfork /\ ev'.active = r.e.active
      /\ ev'.pend = r.e.pend /\ ev'.idx = r.e.idx /\ ev'.fd = r.e.fd /\ ev'.changes = r.e.changes
  BY <1>1, <1>2, <1>5, WithNowIs
<1>7. LoopInv(ev')
  BY <1>1, <1>2, <1>4, <1>5, NowKeeps
<1>8. KernInv(ev', kern') /\ kern' \in Kernels
  BY <1>1, <1>4, <1>5, <1>6, KernFed
<1>9. /\ sh' \in Shares /\ sh'.sent = sh.sent /\ sh'.sig = sh.sig
      /\ sh'.async_pending = sh.async_pending /\ sh'.sig_pending = sh.sig_pending
      /\ sh'.skipped = sh.skipped /\ sh'.pipe = sh.pipe /\ sh'.wanted = TRUE
  BY <1>1, <1>2 DEF Shares
<1>10. run' \in Runs /\ run'.pc = "decide"
  BY <1>1, <1>2 DEF Runs, Phases
<1>11. ev'.pend = ev.pend /\ ev'.idx = ev.idx /\ ev'.active = ev.active
  BY <1>3, <1>4, <1>6
<1>12. PhaseInv'
  <2>1. NoPending(ev')
    BY <1>2, <1>11 DEF NoPending
  <2>2. ~ev'.postfork /\ ev'.changes = <<>>
    BY <1>3, <1>4, <1>6
  <2>3. QED
    BY <1>9, <1>10, <2>1, <2>2 DEF PhaseInv
<1>13. kern'.zombies = kern.zombies /\ kern'.raised = kern.raised
  BY <1>1, <1>3, <1>4 DEF SameButRegs
<1>14. WakeupInv'
  BY <1>1, <1>9, <1>10, <1>11, <1>13, WakeupParts DEF WakeupInv, Awake
<1>15. QED
  BY <1>1, <1>6, <1>7, <1>8, <1>9, <1>10, <1>11, <1>12, <1>14, LoopKeeps

LEMMA PollKeeps ==
  ASSUME Inv, epoll_poll
  PROVE  Inv'
<1> DEFINE s == [e |-> ev, k |-> kern]
<1>1. PICK rs \in SetToSeqs(ReadyRegs), fds \in SetToSeqs(ev.eperms) :
          LET x == EpollEvents(s, rs) IN ev' = EpermEvents(x.e, fds) /\ kern' = x.k
  BY Zenon DEF epoll_poll
<1>2. /\ run.pc = "poll" /\ sh' = sh /\ snd' = snd /\ live' = live /\ stopped' = stopped
      /\ run' = [pc |-> "polled", nowait |-> FALSE, blocks |-> FALSE, until |-> 0]
  BY Zenon DEF epoll_poll, At, Polled, Outside
<1>3. ev \in Loops /\ kern \in Kernels /\ LoopInv(ev) /\ KernInv(ev, kern) /\ sh \in Shares
  BY DEF Inv, LoopTypes
<1>4. rs \in Seq(Regs)
  <2>1. ReadyRegs \subseteq Regs /\ IsFiniteSet(ReadyRegs)
    <3>1. ReadyRegs \subseteq kern.regs
      BY DEF ReadyRegs
    <3>2. kern.regs \subseteq Regs /\ IsFiniteSet(kern.regs)
      BY <1>3, KernFields DEF KernInv, RegsKnown
    <3>3. QED
      BY <3>1, <3>2, FS_Subset
  <2>2. Cardinality(ReadyRegs) \in Nat
    BY <2>1, FS_CardinalityType
  <2>3. rs \in [1..Cardinality(ReadyRegs) -> Regs]
    BY <2>1 DEF SetToSeqs
  <2>4. QED
    BY <2>2, <2>3
<1>5. fds \in Seq(AllFds)
  <2>1. ev.eperms \subseteq AllFds /\ IsFiniteSet(ev.eperms)
    <3>1. IsFiniteSet(AllFds)
      BY LoopAssumption, FS_AddElement DEF AllFds
    <3>2. QED
      BY <1>3, <3>1, LoopFields, FS_Subset
  <2>2. Cardinality(ev.eperms) \in Nat
    BY <2>1, FS_CardinalityType
  <2>3. fds \in [1..Cardinality(ev.eperms) -> AllFds]
    BY <2>1 DEF SetToSeqs
  <2>4. QED
    BY <2>2, <2>3
<1>6. s \in LoopAndKernel /\ Polling(s, ev, kern)
  <2>1. s.e = ev /\ s.k = kern
    OBVIOUS
  <2>2. s \in LoopAndKernel
    BY <1>3 DEF LoopAndKernel
  <2> HIDE DEF s
  <2>3. Polling(s, ev, kern)
    BY <1>3, <2>1 DEF Polling, SameButRegs
  <2>4. QED
    BY <2>2, <2>3
<1> HIDE DEF s
<1> DEFINE x == EpollEvents(s, rs)
<1>7. x \in LoopAndKernel /\ Polling(x, ev, kern) /\ ev' = EpermEvents(x.e, fds) /\ kern' = x.k
  BY <1>1, <1>4, <1>6, EpollEventsAre
<1> HIDE DEF x
<1>8. x = [e |-> x.e, k |-> x.k] /\ x.e \in Loops
  BY <1>7 DEF LoopAndKernel
<1> DEFINE a == x.e
           b == x.k
<1>9. a \in Loops /\ Polling([e |-> a, k |-> b], ev, kern) /\ ev' = EpermEvents(a, fds) /\ kern' = b
  BY <1>7, <1>8
<1> HIDE DEF a, b
<1>10. ev' \in Loops /\ Polling([e |-> ev', k |-> kern'], ev, kern)
  BY <1>5, <1>9, EpermEventsAre
<1>11. /\ ev' \in Loops /\ kern' \in Kernels /\ LoopInv(ev') /\ KernInv(ev', kern')
       /\ SameButRegs(kern', kern) /\ ev'.active = ev.active
       /\ \A w \in All : ev.idx[w] > 0 => ev'.idx[w] > 0
       /\ \A w \in All \ ev.active : ev'.idx[w] = ev.idx[w]
  BY <1>10 DEF Polling
<1>12. run' \in Runs /\ run'.pc = "polled"
  BY <1>2 DEF Runs, Phases
<1>13. PhaseInv'
  BY <1>12 DEF PhaseInv
<1>14. WakeupInv'
  <2>1. /\ ev.idx[pipe_w] > 0 => ev'.idx[pipe_w] > 0
        /\ ev.idx[childev] > 0 => ev'.idx[childev] > 0
    BY <1>11, Names
  <2>2. kern'.zombies = kern.zombies /\ kern'.raised = kern.raised
    BY <1>11 DEF SameButRegs
  <2>3. QED
    BY <1>2, <1>12, <2>1, <2>2, WakeupParts DEF WakeupInv, Awake
<1>15. QED
  BY <1>2, <1>3, <1>11, <1>12, <1>13, <1>14, LoopKeeps

\* The kernel's side after events were fed and timers stopped.
LEMMA KernReified ==
  ASSUME NEW e, NEW k, NEW x, KernInv(e, k), SameKernelSide(x, e), x.active \subseteq e.active
  PROVE  KernInv(x, k)
<1>1. RegsKnown(x, k) /\ FilesKnown(k)
  BY Zenon DEF KernInv, RegsKnown, SameKernelSide
<1>2. WatchersInited(x, k)
  BY DEF KernInv, WatchersInited
<1>3. Told(x, k)
  BY Zenon DEF KernInv, Told, Known, SameKernelSide
<1>4. QED
  BY <1>1, <1>2, <1>3 DEF KernInv

LEMMA TimersKeep ==
  ASSUME Inv, FeedSkippedAndTimers
  PROVE  Inv'
<1> DEFINE e == IF sh.skipped THEN ev_feed_event(ev, pipe_w, {"C"}) ELSE ev
           y == WithNow(e, kern.time)
           x == timers_reify(y)
<1>1. /\ run.pc = "timers" /\ Goto("invoke") /\ sh' = sh /\ kern' = kern /\ snd' = snd
      /\ live' = live /\ stopped' = stopped /\ ev' = x
  BY Zenon DEF FeedSkippedAndTimers, At, Outside, WithNow
<1>2. /\ ev \in Loops /\ kern \in Kernels /\ LoopInv(ev) /\ Exact(ev) /\ KernInv(ev, kern)
      /\ sh \in Shares /\ run \in Runs /\ kern.time \in Nat
  BY KernFields DEF Inv, LoopTypes, LoopInv
<1>3. Fed(e, ev, {pipe_w})
  <2>1. CASE sh.skipped
    <3>1. {"C"} \in SUBSET Flags /\ pipe_w \in All
      BY Names DEF Flags
    <3>2. Fed(ev_feed_event(ev, pipe_w, {"C"}), ev, {pipe_w})
      BY <1>2, <3>1, FeedEvent
    <3>3. QED
      BY <2>1, <3>2
  <2>2. CASE ~sh.skipped
    BY <1>2, <2>2, FedNone
  <2>3. QED
    BY <2>1, <2>2
<1> HIDE DEF e
<1>4. e \in Loops /\ Exact(e) /\ SameLists(e, ev) /\ LoopInv(e)
  BY <1>2, <1>3, FedInv DEF Fed
<1>5. /\ y \in Loops /\ y.postfork = e.postfork /\ y.active = e.active /\ y.cnt = e.cnt
      /\ y.pend = e.pend /\ y.idx = e.idx /\ y.fd = e.fd /\ y.changes = e.changes
      /\ y.heap = e.heap /\ y.at = e.at /\ y.eperms = e.eperms /\ y.asyncs = e.asyncs
      /\ LoopInv(y)
  BY <1>2, <1>4, WithNowIs, NowKeeps
<1> HIDE DEF y
<1>6. /\ x \in Loops /\ LoopInv(x) /\ SameKernelSide(x, y)
      /\ x.active \subseteq y.active
      /\ \A v \in All : v \notin Timers \/ v \notin y.active => x.idx[v] = y.idx[v]
  BY <1>5, TimersReified
<1> HIDE DEF x
<1>7. KernInv(y, kern)
  BY <1>2, <1>4, <1>5, KernFed DEF SameLists
<1>8. KernInv(x, kern)
  BY <1>6, <1>7, KernReified
<1>9. y.active = ev.active
  BY <1>4, <1>5 DEF SameLists
<1>10. run' \in Runs /\ run'.pc = "invoke"
  BY <1>1, <1>2, GotoIs DEF Phases
<1>11. pipe_w \in All \ Timers /\ childev \in All \ Timers /\ pipe_w # childev /\ pipe_w \in ev.active
  <2>1. \A t \in Timers : t \notin Own
    BY Kinds, Names
  <2>2. Counted(ev)
    BY <1>2 DEF LoopInv
  <2>3. QED
    BY <2>1, <2>2, Names DEF Own, Counted, pipe_w, childev
<1>12. /\ ev.idx[pipe_w] > 0 => x.idx[pipe_w] > 0
       /\ x.idx[childev] = ev.idx[childev]
  BY <1>3, <1>5, <1>6, <1>11 DEF Fed
<1>13. \A w \in All \ ev.active : x.idx[w] = ev.idx[w]
  BY <1>3, <1>5, <1>6, <1>9, <1>11 DEF Fed
<1>14. PhaseInv'
  BY <1>10 DEF PhaseInv
<1>15. WakeupInv'
  BY <1>1, <1>10, <1>12, WakeupParts DEF WakeupInv, Awake
<1>16. /\ ev' \in Loops /\ LoopInv(ev') /\ KernInv(ev', kern') /\ ev'.active \subseteq ev.active
       /\ \A w \in All \ ev.active : ev.idx[w] = 0 => ev'.idx[w] = 0
  BY <1>1, <1>6, <1>8, <1>9, <1>13
<1>17. QED
  BY <1>1, <1>2, <1>10, <1>14, <1>15, <1>16, LoopKeeps

\* Feeding events.
LEMMA FedKeeps ==
  ASSUME NEW e \in Loops, LoopInv(e), NEW k, KernInv(e, k), NEW x, Fed(x, e, e.active)
  PROVE  /\ x \in Loops /\ LoopInv(x) /\ KernInv(x, k) /\ x.active = e.active
         /\ \A w \in All \ e.active : e.idx[w] = 0 => x.idx[w] = 0
         /\ \A w \in All : e.idx[w] > 0 => x.idx[w] > 0
<1>1. x \in Loops /\ Exact(x) /\ SameLists(x, e)
  BY DEF Fed
<1>2. LoopInv(x)
  BY <1>1, FedInv
<1>3. x.fd = e.fd /\ x.active = e.active /\ x.postfork = e.postfork
  BY <1>1 DEF SameLists
<1>4. KernInv(x, k)
  BY <1>3, KernFed
<1>5. QED
  BY <1>1, <1>2, <1>3, <1>4 DEF Fed

LEMMA FedMore ==
  ASSUME NEW x, NEW e, NEW V, NEW W, V \subseteq W, Fed(x, e, V)
  PROVE  Fed(x, e, W)
BY DEF Fed

LEMMA FeedKeeps ==
  ASSUME Inv, pipecbFeed
  PROVE  Inv'
<1>1. kern' = kern /\ snd' = snd /\ live' = live /\ stopped' = stopped
  BY DEF pipecbFeed, Outside
<1>2. /\ ev \in Loops /\ kern \in Kernels /\ LoopInv(ev) /\ Exact(ev) /\ KernInv(ev, kern)
      /\ sh \in Shares /\ run \in Runs /\ Counted(ev) /\ AsyncsListed(ev)
  BY DEF Inv, LoopTypes, LoopInv
<1>3. CASE /\ run.pc = "signals" /\ Goto("async")
           /\ ev' = IF sh.sig THEN ev_feed_event(ev, childev, {"S"}) ELSE ev
           /\ sh' = [sh EXCEPT !.sig = FALSE]
  <2>1. Fed(ev', ev, {childev}) /\ (sh.sig => ev'.idx[childev] > 0)
    <3>1. CASE sh.sig
      <4>1. {"S"} \in SUBSET Flags /\ childev \in All
        BY Names DEF Flags
      <4>2. /\ Fed(ev_feed_event(ev, childev, {"S"}), ev, {childev})
            /\ ev_feed_event(ev, childev, {"S"}).idx[childev] > 0
        BY <1>2, <4>1, FeedEvent
      <4>3. QED
        BY <1>3, <3>1, <4>2
    <3>2. CASE ~sh.sig
      BY <1>2, <1>3, <3>2, FedNone
    <3>3. QED
      BY <3>1, <3>2
  <2>2. Fed(ev', ev, ev.active)
    BY <1>2, <2>1, FedMore DEF Counted, Own
  <2>3. /\ ev' \in Loops /\ LoopInv(ev') /\ KernInv(ev', kern) /\ ev'.active = ev.active
        /\ \A w \in All \ ev.active : ev.idx[w] = 0 => ev'.idx[w] = 0
        /\ \A w \in All : ev.idx[w] > 0 => ev'.idx[w] > 0
    BY <1>2, <2>2, FedKeeps
  <2>4. /\ sh' \in Shares /\ sh'.sent = sh.sent /\ sh'.sig = FALSE
        /\ sh'.async_pending = sh.async_pending /\ sh'.sig_pending = sh.sig_pending
        /\ sh'.skipped = sh.skipped /\ sh'.pipe = sh.pipe
    BY <1>2, <1>3 DEF Shares
  <2>5. run' \in Runs /\ run'.pc = "async"
    BY <1>2, <1>3, GotoIs DEF Phases
  <2>6. PhaseInv'
    BY <2>5 DEF PhaseInv
  <2>7. WakeupInv'
    <3>1. /\ ev.idx[pipe_w] > 0 => ev'.idx[pipe_w] > 0
          /\ ev.idx[childev] > 0 => ev'.idx[childev] > 0
      BY <2>3, Names
    <3>2. QED
      BY <1>1, <1>3, <2>1, <2>4, <2>5, <3>1, WakeupParts DEF WakeupInv, Awake
  <2>8. KernInv(ev', kern') /\ kern' \in Kernels
    BY <1>1, <1>2, <2>3
  <2>9. QED
    BY <1>1, <2>3, <2>4, <2>5, <2>6, <2>7, <2>8, LoopKeeps
<1>4. CASE /\ run.pc = "asyncs" /\ Goto("invoke")
           /\ ev' = FeedAll(ev, Reverse(ev.asyncs),
                            [a \in ToSet(ev.asyncs) |-> IF a \in sh.sent THEN {"A"} ELSE {}])
           /\ sh' = [sh EXCEPT !.sent = @ \ ToSet(ev.asyncs)]
  <2> DEFINE g == ev.asyncs
             ws == Reverse(g)
             sent == [a \in ToSet(g) |-> IF a \in sh.sent THEN {"A"} ELSE {}]
  <2>1. Fed(ev', ev, ev.active)
    <3>1. g \in Seq(Asyncs \cup {break_async}) /\ ToSet(g) = (ev.active \cap Asyncs) \cup {break_async}
      BY <1>2, LoopFields DEF AsyncsListed
    <3>2. Asyncs \cup {break_async} \subseteq All
      BY Names, Kinds
    <3>3. ToSet(g) \subseteq ev.active
      BY <1>2, <3>1 DEF Counted, Own
    <3>4. ev' = FeedAll(ev, ws, sent)
      BY <1>4
    <3>5. \A a \in ToSet(g) : sent[a] \in SUBSET Flags
      BY DEF Flags
    <3> HIDE DEF g, sent
    <3>6. ws \in Seq(All) /\ Len(ws) = Len(g) /\ \A i \in 1..Len(ws) : ws[i] = g[(Len(g) - i) + 1]
      <4>1. g \in Seq(All) /\ Len(g) \in Nat
        BY <3>1, <3>2
      <4>2. \A i \in 1..Len(g) : (Len(g) - i) + 1 \in 1..Len(g)
        BY <4>1
      <4>3. QED
        BY <4>1, <4>2 DEF Reverse
    <3>7. \A i \in 1..Len(ws) : ws[i] \in ToSet(g)
      <4>1. Len(g) \in Nat /\ DOMAIN g = 1..Len(g)
        BY <3>1
      <4>2. \A i \in 1..Len(g) : (Len(g) - i) + 1 \in DOMAIN g
        BY <4>1
      <4>3. QED
        BY <3>6, <4>2 DEF ToSet
    <3> HIDE DEF ws
    <3>8. QED
      BY <1>2, <3>3, <3>4, <3>5, <3>6, <3>7, FedAll
  <2>2. /\ ev' \in Loops /\ LoopInv(ev') /\ KernInv(ev', kern) /\ ev'.active = ev.active
        /\ \A w \in All \ ev.active : ev.idx[w] = 0 => ev'.idx[w] = 0
        /\ \A w \in All : ev.idx[w] > 0 => ev'.idx[w] > 0
    BY <1>2, <2>1, FedKeeps
  <2>3. break_async \in ToSet(g)
    BY <1>2 DEF AsyncsListed
  <2> HIDE DEF g
  <2>4. sh' = [sh EXCEPT !.sent = @ \ ToSet(g)]
    BY <1>4 DEF g
  <2>5. /\ sh' \in Shares /\ break_async \notin sh'.sent /\ sh'.sig = sh.sig
        /\ sh'.async_pending = sh.async_pending /\ sh'.sig_pending = sh.sig_pending
        /\ sh'.skipped = sh.skipped /\ sh'.pipe = sh.pipe
    BY <1>2, <2>3, <2>4 DEF Shares
  <2>6. run' \in Runs /\ run'.pc = "invoke"
    BY <1>2, <1>4, GotoIs DEF Phases
  <2>7. PhaseInv'
    BY <2>6 DEF PhaseInv
  <2>8. WakeupInv'
    <3>1. /\ ev.idx[pipe_w] > 0 => ev'.idx[pipe_w] > 0
          /\ ev.idx[childev] > 0 => ev'.idx[childev] > 0
      BY <2>2, Names
    <3>2. run.pc = "asyncs"
      BY <1>4
    <3>3. QED
      BY <1>1, <2>5, <2>6, <3>1, <3>2, WakeupParts DEF WakeupInv, Awake
  <2>9. KernInv(ev', kern') /\ kern' \in Kernels
    BY <1>1, <1>2, <2>2
  <2>10. QED
    BY <1>1, <2>2, <2>5, <2>6, <2>7, <2>8, <2>9, LoopKeeps
<1>5. QED
  BY <1>3, <1>4, Zenon DEF pipecbFeed, At

\* One event is taken, and the callbacks of the loop's own watchers are called.
LEMMA InvokeKeeps ==
  ASSUME Inv, ev_invoke_pending
  PROVE  Inv'
<1> DEFINE p == NextEvent(ev)
           w == p.w
           e == PopEvent(ev)
           zombie == CHOOSE c \in kern.zombies : TRUE
<1>1. /\ run.pc = "invoke" /\ ~NoPending(ev) /\ snd' = snd /\ live' = live /\ stopped' = stopped
  BY Zenon DEF ev_invoke_pending, At, Outside
<1>2. /\ ev \in Loops /\ kern \in Kernels /\ LoopInv(ev) /\ Exact(ev) /\ KernInv(ev, kern)
      /\ sh \in Shares /\ run \in Runs /\ Counted(ev)
  BY DEF Inv, LoopTypes, LoopInv
<1>3. /\ e \in Loops /\ Exact(e) /\ SameLists(e, ev)
      /\ w \in All \cup {pending_w} /\ (w \in All => e.idx[w] = 0)
      /\ \A v \in All \ {w} : e.idx[v] = ev.idx[v]
  BY <1>1, <1>2, PopIs
<1>4. \/ /\ w = pipe_w /\ ev' = e /\ Goto("skipped") /\ kern' = kern
         /\ sh' = IF "R" \in p.events THEN [sh EXCEPT !.pipe = FALSE] ELSE sh
      \/ /\ w = childev /\ kern.zombies # {}
         /\ ev' = child_reap(ev_feed_event(e, childev, {"S"}), zombie)
         /\ kern' = [kern EXCEPT !.zombies = @ \ {zombie}]
         /\ sh' = sh /\ run' = run
      \/ /\ w # pipe_w /\ ~(w = childev /\ kern.zombies # {})
         /\ ev' = e /\ sh' = sh /\ kern' = kern /\ run' = run
  BY Zenon DEF ev_invoke_pending
<1> HIDE DEF e, w, zombie
<1>5. LoopInv(e)
  BY <1>2, <1>3, FedInv
<1>6. e.active = ev.active /\ KernInv(e, kern)
  <2>1. e.fd = ev.fd /\ e.active = ev.active /\ e.postfork = ev.postfork
    BY <1>3 DEF SameLists
  <2>2. QED
    BY <1>2, <2>1, KernFed
<1>7. \A v \in All : ev.idx[v] = 0 => e.idx[v] = 0
  <2> TAKE v \in All
  <2>1. CASE v = w
    BY <1>3, <2>1
  <2>2. CASE v # w
    BY <1>3, <2>2
  <2>3. QED
    BY <2>1, <2>2
<1>8. pipe_w \in All /\ childev \in All /\ pipe_w # childev
  BY Names DEF pipe_w, childev
<1>9. CASE /\ w = pipe_w /\ ev' = e /\ Goto("skipped") /\ kern' = kern
           /\ sh' = IF "R" \in p.events THEN [sh EXCEPT !.pipe = FALSE] ELSE sh
  <2>1. run' \in Runs /\ run'.pc = "skipped"
    BY <1>2, <1>9, GotoIs DEF Phases
  <2>2. /\ sh' \in Shares /\ sh'.sent = sh.sent /\ sh'.sig = sh.sig
        /\ sh'.async_pending = sh.async_pending /\ sh'.sig_pending = sh.sig_pending
        /\ sh'.skipped = sh.skipped
    <3> HIDE DEF p
    <3>1. CASE "R" \in p.events
      BY <1>2, <1>9, <3>1 DEF Shares
    <3>2. CASE "R" \notin p.events
      BY <1>2, <1>9, <3>2
    <3>3. QED
      BY <3>1, <3>2
  <2>3. ev'.idx[childev] = ev.idx[childev]
    BY <1>3, <1>8, <1>9
  <2>4. PhaseInv'
    BY <2>1 DEF PhaseInv
  <2>5. WakeupInv'
    <3>1. kern' = kern /\ snd' = snd /\ run.pc = "invoke"
      BY <1>1, <1>9
    <3> HIDE DEF p
    <3>2. QED
      BY <2>1, <2>2, <2>3, <3>1, WakeupParts DEF WakeupInv, Awake
  <2>6. /\ ev' \in Loops /\ LoopInv(ev') /\ KernInv(ev', kern') /\ ev'.active \subseteq ev.active
        /\ kern' \in Kernels /\ \A v \in All \ ev.active : ev.idx[v] = 0 => ev'.idx[v] = 0
    BY <1>2, <1>3, <1>5, <1>6, <1>7, <1>9
  <2>7. QED
    BY <1>1, <2>1, <2>2, <2>4, <2>5, <2>6, LoopKeeps
<1>10. CASE /\ w = childev /\ kern.zombies # {}
            /\ ev' = child_reap(ev_feed_event(e, childev, {"S"}), zombie)
            /\ kern' = [kern EXCEPT !.zombies = @ \ {zombie}]
            /\ sh' = sh /\ run' = run
  <2> DEFINE y == ev_feed_event(e, childev, {"S"})
  <2>1. Fed(y, e, {childev}) /\ y.idx[childev] > 0
    <3>1. {"S"} \in SUBSET Flags
      BY DEF Flags
    <3>2. QED
      BY <1>3, <1>8, <3>1, FeedEvent
  <2> HIDE DEF y
  <2>2. zombie \in kern.zombies /\ zombie \in Children /\ zombie \in All
    <3>1. zombie \in kern.zombies
      BY <1>10 DEF zombie
    <3>2. QED
      BY <1>2, <3>1, KernFields, Kinds, Names
  <2>3. Fed(y, e, e.active)
    BY <1>2, <1>6, <2>1, FedMore DEF Counted, Own
  <2>4. y \in Loops /\ Exact(y) /\ y.active = e.active
    BY <2>3 DEF Fed, SameLists
  <2>5. Fed(ev', e, e.active)
    <3>1. CASE zombie \in y.active
      <4>1. {"C"} \in SUBSET Flags
        BY DEF Flags
      <4>2. Fed(ev_feed_event(y, zombie, {"C"}), y, {zombie})
        BY <2>2, <2>4, <4>1, FeedEvent
      <4>3. Fed(ev_feed_event(y, zombie, {"C"}), y, e.active)
        BY <2>4, <3>1, <4>2, FedMore
      <4>4. ev' = ev_feed_event(y, zombie, {"C"})
        BY <1>10, <3>1 DEF child_reap, y
      <4>5. QED
        BY <2>3, <4>3, <4>4 DEF Fed, SameLists
    <3>2. CASE zombie \notin y.active
      BY <1>10, <2>3, <3>2 DEF child_reap, y
    <3>3. QED
      BY <3>1, <3>2
  <2>6. /\ ev' \in Loops /\ LoopInv(ev') /\ KernInv(ev', kern) /\ ev'.active = e.active
        /\ \A v \in All \ e.active : e.idx[v] = 0 => ev'.idx[v] = 0
        /\ \A v \in All : e.idx[v] > 0 => ev'.idx[v] > 0
    BY <1>3, <1>5, <1>6, <2>5, FedKeeps
  <2>7. ev'.idx[childev] > 0
    <3>1. CASE zombie \in y.active
      <4>1. {"C"} \in SUBSET Flags
        BY DEF Flags
      <4>2. Fed(ev_feed_event(y, zombie, {"C"}), y, {zombie})
        BY <2>2, <2>4, <4>1, FeedEvent
      <4>3. ev' = ev_feed_event(y, zombie, {"C"})
        BY <1>10, <3>1 DEF child_reap, y
      <4>4. QED
        BY <1>8, <2>1, <4>2, <4>3 DEF Fed
    <3>2. CASE zombie \notin y.active
      BY <1>10, <2>1, <3>2 DEF child_reap, y
    <3>3. QED
      BY <3>1, <3>2
  <2>8. ev.idx[pipe_w] > 0 => ev'.idx[pipe_w] > 0
    <3>1. e.idx[pipe_w] = ev.idx[pipe_w]
      BY <1>3, <1>8, <1>10
    <3>2. QED
      BY <1>8, <2>6, <3>1
  <2>9. /\ kern' \in Kernels /\ SameFiles(kern', kern) /\ kern'.raised = kern.raised
    <3>1. kern' = WithChildren(kern, kern.zombies \ {zombie}, kern.raised)
      BY <1>2, <1>10 DEF WithChildren, Kernels
    <3>2. kern.zombies \ {zombie} \in SUBSET Children /\ kern.raised \in BOOLEAN
      BY <1>2, KernFields
    <3>3. QED
      BY <1>2, <3>1, <3>2, WithChildrenIs
  <2>10. KernInv(ev', kern')
    BY <2>6, <2>9, KernSame
  <2>11. run' \in Runs /\ run'.pc = "invoke" /\ sh' \in Shares
    BY <1>1, <1>2, <1>10
  <2>12. PhaseInv'
    BY <2>11 DEF PhaseInv
  <2>13. WakeupInv'
    <3>1. sh' = sh /\ snd' = snd /\ run' = run
      BY <1>1, <1>10
    <3>2. QED
      BY <2>7, <2>8, <2>11, <3>1, WakeupParts DEF WakeupInv, Awake
  <2>14. ev'.active \subseteq ev.active /\ \A v \in All \ ev.active : ev.idx[v] = 0 => ev'.idx[v] = 0
    BY <1>6, <1>7, <2>6
  <2>15. QED
    BY <1>1, <2>6, <2>9, <2>10, <2>11, <2>12, <2>13, <2>14, LoopKeeps
<1>11. CASE /\ w # pipe_w /\ ~(w = childev /\ kern.zombies # {})
            /\ ev' = e /\ sh' = sh /\ kern' = kern /\ run' = run
  <2>1. ev'.idx[pipe_w] = ev.idx[pipe_w]
    BY <1>3, <1>8, <1>11
  <2>2. kern.zombies # {} => ev'.idx[childev] = ev.idx[childev]
    BY <1>3, <1>8, <1>11
  <2>3. run' \in Runs /\ run'.pc = "invoke" /\ sh' \in Shares /\ snd' = snd
    BY <1>1, <1>2, <1>11
  <2>4. PhaseInv'
    BY <2>3 DEF PhaseInv
  <2>5. WakeupInv'
    <3>1. sh' = sh /\ run' = run /\ kern' = kern
      BY <1>11
    <3>2. QED
      BY <2>1, <2>2, <2>3, <3>1, WakeupParts DEF WakeupInv, Awake
  <2>6. /\ ev' \in Loops /\ LoopInv(ev') /\ KernInv(ev', kern') /\ ev'.active \subseteq ev.active
        /\ kern' \in Kernels /\ \A v \in All \ ev.active : ev.idx[v] = 0 => ev'.idx[v] = 0
    BY <1>2, <1>3, <1>5, <1>6, <1>7, <1>11
  <2>7. QED
    BY <1>1, <2>3, <2>4, <2>5, <2>6, LoopKeeps
<1>12. QED
  BY <1>4, <1>9, <1>10, <1>11

----------------------------------------------------------------------------
(* The invariant *)

LEMMA LoopInitIs ==
  /\ loop_init \in Loops
  /\ loop_init.active = Own /\ loop_init.cnt = 0
  /\ loop_init.pend = [q \in 0..1 |-> <<>>] /\ loop_init.idx = [w \in All |-> 0]
  /\ loop_init.fd[PipeFd].head = <<pipe_w>> /\ loop_init.fd[PipeFd].reify = {"set"}
  /\ loop_init.fd[PipeFd].events = {} /\ loop_init.fd[PipeFd].emask = {}
  /\ \A d \in Fds : loop_init.fd[d] = NoFd
  /\ loop_init.changes = <<PipeFd>> /\ loop_init.eperms = {} /\ loop_init.heap = <<>>
  /\ loop_init.asyncs = <<break_async>> /\ loop_init.postfork = FALSE
<1> DEFINE b == [NoFd EXCEPT !.head = <<pipe_w>>, !.reify = {"set"}]
           fd == [[d \in AllFds |-> NoFd] EXCEPT ![PipeFd] = b]
           at == [t \in Timers |-> 0]
           e == [active |-> Own, cnt |-> 0,
                 pend |-> [q \in 0..1 |-> <<>>], idx |-> [w \in All |-> 0],
                 fd |-> fd, changes |-> <<PipeFd>>, eperms |-> {},
                 heap |-> <<>>, at |-> at, now |-> 0,
                 asyncs |-> <<break_async>>, postfork |-> FALSE]
<1>1. NoFd \in Anfds
  BY DEF NoFd, Anfds
<1>2. b \in Anfds /\ b.head = <<pipe_w>> /\ b.reify = {"set"} /\ b.events = {} /\ b.emask = {}
  <2>1. <<pipe_w>> \in Seq(Ios \cup {pipe_w})
    OBVIOUS
  <2>2. QED
    BY <2>1 DEF NoFd, Anfds
<1> HIDE DEF b
<1>3. PipeFd \in AllFds /\ \A d \in Fds : d \in AllFds /\ d # PipeFd
  BY LoopAssumption DEF AllFds
<1>4. fd \in [AllFds -> Anfds] /\ fd[PipeFd] = b /\ \A d \in Fds : fd[d] = NoFd
  BY <1>1, <1>2, <1>3
<1>5. at \in [Timers -> Nat]
  OBVIOUS
<1>6. loop_init = e
  BY Zenon DEF loop_init, b
<1> HIDE DEF fd, at
<1>7. /\ Own \in SUBSET All /\ <<PipeFd>> \in Seq(AllFds) /\ [w \in All |-> 0] \in [All -> Nat]
      /\ <<break_async>> \in Seq(Asyncs \cup {break_async})
      /\ [q \in 0..1 |-> <<>>] \in [0..1 -> Seq(PendingEvents)]
      /\ <<>> \in Seq(Timers)
  BY <1>3, Names
<1>8. e \in Loops
  BY <1>4, <1>5, <1>7 DEF Loops
<1>9. /\ e.active = Own /\ e.cnt = 0 /\ e.pend = [q \in 0..1 |-> <<>>] /\ e.idx = [w \in All |-> 0]
      /\ e.fd = fd /\ e.changes = <<PipeFd>> /\ e.eperms = {} /\ e.heap = <<>>
      /\ e.asyncs = <<break_async>> /\ e.postfork = FALSE
  OBVIOUS
<1> HIDE DEF e
<1>10. QED
  BY <1>2, <1>4, <1>6, <1>8, <1>9

LEMMA InitKernel ==
  ASSUME Init
  PROVE  /\ kern \in Kernels /\ kern.regs = {} /\ kern.regular = {} /\ kern.last = 0
         /\ kern.file[PipeFd] = PipeFile /\ \A d \in Fds : kern.file[d] = 0
         /\ \A w \in Ios : kern.inited[w] = 0
         /\ kern.zombies = {}
<1> DEFINE file == [d \in AllFds |-> IF d = PipeFd THEN PipeFile ELSE 0]
           ready == [i \in Files |-> {}]
           inited == [w \in Ios |-> 0]
           k == [file |-> file, last |-> 0,
                 regs |-> {}, held |-> {}, ready |-> ready, time |-> 0, regular |-> {},
                 inited |-> inited, zombies |-> {}, raised |-> FALSE]
<1>1. kern = k
  BY Zenon DEF Init
<1>2. MaxFile \in Nat /\ PipeFile \in Nat
  BY LoopAssumption DEF PipeFile
<1>3. PipeFd \in AllFds /\ \A d \in Fds : d \in AllFds /\ d # PipeFd
  BY LoopAssumption DEF AllFds
<1>4. file \in [AllFds -> Nat] /\ file[PipeFd] = PipeFile /\ \A d \in Fds : file[d] = 0
  BY <1>2, <1>3
<1>5. ready \in [Files -> SUBSET {"R", "W", "H"}] /\ inited \in [Ios -> Nat] /\ \A w \in Ios : inited[w] = 0
  OBVIOUS
<1> HIDE DEF file, ready, inited
<1>6. k \in Kernels
  BY <1>2, <1>4, <1>5 DEF Kernels
<1>7. /\ k.regs = {} /\ k.regular = {} /\ k.last = 0 /\ k.file = file /\ k.inited = inited
      /\ k.zombies = {}
  OBVIOUS
<1> HIDE DEF k
<1>8. QED
  BY <1>1, <1>4, <1>5, <1>6, <1>7

LEMMA InitKeeps ==
  ASSUME Init
  PROVE  Inv
<1> DEFINE e == loop_init
<1>1. /\ e \in Loops
      /\ e.active = Own /\ e.cnt = 0
      /\ e.pend = [q \in 0..1 |-> <<>>] /\ e.idx = [w \in All |-> 0]
      /\ e.fd[PipeFd].head = <<pipe_w>> /\ e.fd[PipeFd].reify = {"set"}
      /\ e.fd[PipeFd].events = {} /\ e.fd[PipeFd].emask = {}
      /\ \A d \in Fds : e.fd[d] = NoFd
      /\ e.changes = <<PipeFd>> /\ e.eperms = {} /\ e.heap = <<>>
      /\ e.asyncs = <<break_async>> /\ e.postfork = FALSE
  BY LoopInitIs
<1> HIDE DEF e
<1>2. ev = e
  BY DEF Init, e
<1>3. /\ kern \in Kernels /\ kern.regs = {} /\ kern.regular = {} /\ kern.last = 0
      /\ kern.file[PipeFd] = PipeFile /\ \A d \in Fds : kern.file[d] = 0
      /\ \A w \in Ios : kern.inited[w] = 0 /\ kern.zombies = {}
  BY InitKernel
<1>4. /\ sh \in Shares /\ sh.sent = {} /\ ~sh.sig /\ ~sh.async_pending /\ ~sh.sig_pending
  BY DEF Init, Shares
<1>5. run \in Runs /\ run.pc = "out"
  BY DEF Init, Runs, Phases
<1>6. snd \in Senders
  BY DEF Init, Senders
<1>7. live \subseteq Watchers /\ stopped = {}
  BY LoopAssumption DEF Init
<1>8. LoopTypes
  BY <1>1, <1>2, <1>3, <1>4, <1>5, <1>6, <1>7 DEF LoopTypes
<1>9. NoFd.head = <<>> /\ NoFd.events = {} /\ NoFd.reify = {} /\ NoFd.emask = {}
  BY DEF NoFd
<1>10. AllFds = Fds \cup {PipeFd} /\ PipeFd \notin Fds
  BY LoopAssumption DEF AllFds
<1>11. \A d \in Fds : e.fd[d].head = <<>> /\ e.fd[d].events = {} /\ e.fd[d].reify = {} /\ e.fd[d].emask = {}
  BY <1>1, <1>9
<1>12. ToSet(<<>>) = {} /\ IsInjective(<<>>)
  BY DEF ToSet, IsInjective
<1>13. \A v : ToSet(<<v>>) = {v} /\ IsInjective(<<v>>)
  BY DEF ToSet, IsInjective
<1>14. Exact(e)
  <2>1. \A q \in 0..1 : e.pend[q] = <<>>
    BY <1>1
  <2>2. \A w \in All : e.idx[w] = 0
    BY <1>1
  <2>3. QED
    BY <2>1, <2>2 DEF Exact
<1>15. Own \cap Ios = {} /\ Own \cap Timers = {} /\ Own \cap Asyncs = {}
  BY Names, Kinds
<1>16. IoListed(e)
  <2>1. \A d \in Fds : {w \in e.active \cap Ios : WFd[w] = d} = {}
    BY <1>1, <1>15
  <2>2. QED
    BY <1>1, <1>11, <1>12, <2>1 DEF IoListed
<1>17. TimersListed(e)
  BY <1>1, <1>12, <1>15 DEF TimersListed
<1>18. AsyncsListed(e)
  BY <1>1, <1>13, <1>15 DEF AsyncsListed
<1>19. Counted(e)
  <2>1. e.active \ Own = {}
    BY <1>1
  <2>2. QED
    BY <1>1, <2>1, FS_EmptySet DEF Counted
<1>20. Changed(e)
  <2>1. {d \in AllFds : e.fd[d].reify # {}} = {PipeFd}
    BY <1>1, <1>10, <1>11
  <2>2. QED
    BY <1>1, <1>13, <2>1 DEF Changed
<1>21. Reified(e)
  <2> SUFFICES ASSUME NEW d \in AllFds, e.fd[d].reify = {} PROVE e.fd[d].events = WantedOf(e, d)
    BY DEF Reified
  <2>1. d \in Fds
    BY <1>1, <1>10
  <2>2. QED
    BY <1>11, <1>12, <2>1 DEF WantedOf
<1>22. EpermsListed(e)
  BY <1>1, <1>10, <1>11 DEF EpermsListed
<1>23. Heaped(e)
  BY <1>1 DEF Heaped
<1>24. LoopInv(e)
  BY <1>14, <1>16, <1>17, <1>18, <1>19, <1>20, <1>21, <1>22, <1>23 DEF LoopInv
<1>25. RegsKnown(e, kern)
  BY <1>3, FS_EmptySet DEF RegsKnown
<1>26. FilesKnown(kern)
  BY <1>3 DEF FilesKnown
<1>27. WatchersInited(e, kern)
  BY <1>1, <1>3, <1>15 DEF WatchersInited
<1>28. Told(e, kern)
  BY <1>1, <1>10, <1>11 DEF Told
<1>29. PhaseInv
  <2>1. NoPending(e)
    BY <1>1 DEF NoPending
  <2>2. QED
    BY <1>2, <1>5, <2>1 DEF PhaseInv
<1>30. StoppedInv
  BY <1>7 DEF StoppedInv
<1>31. WakeupInv
  <2>1. kern.zombies = {}
    BY InitKernel
  <2>2. QED
    BY <1>4, <1>5, <2>1 DEF WakeupInv
<1>32. QED
  BY <1>2, <1>8, <1>24, <1>25, <1>26, <1>27, <1>28, <1>29, <1>30, <1>31 DEF Inv, KernInv

\* Every action keeps the invariant.
LEMMA NextKeeps ==
  ASSUME Inv, [Next]_vars
  PROVE  Inv'
<1>1. CASE Program
  <2>1. \/ \E w \in Ios : IoStart(w)
        \/ \E t \in Timers : TimerStart(t)
        \/ \E a \in Asyncs : AsyncStart(a)
        \/ \E c \in Children : ChildStart(c)
        \/ \/ \E w \in Ios : IoStop(w)
           \/ \E t \in Timers : TimerStop(t)
           \/ \E a \in Asyncs : AsyncStop(a)
           \/ \E c \in Children : ChildStop(c)
        \/ \E fd \in Fds : Close(fd)
        \/ \E fd \in Fds : Share(fd)
        \/ \E fd \in Fds, regular \in BOOLEAN : Open(fd, regular)
    BY <1>1, Zenon DEF Program
  <2>2. QED
    BY <2>1, IoStartKeeps, TimerStartKeeps, AsyncStartKeeps, ChildStartKeeps, AllStopsKeep,
       CloseKeeps, ShareKeeps, OpenKeeps
<1>2. CASE Loop
  BY <1>2, RunKeeps, BlockingTimeKeeps, PollKeeps, InterruptedKeeps, NotWantedKeeps, TimersKeep,
     InvokeKeeps, SkippedKeeps, PendingKeeps, FeedKeeps, ReturnKeeps DEF Loop
<1>3. CASE Others
  BY <1>3, SendKeeps, SighandlerKeeps, WriteKeeps, UnshareKeeps, ReadinessKeeps, ExitsKeeps, TickKeeps
     DEF Others
<1>4. CASE UNCHANGED vars
  <2>1. /\ ev' = ev /\ sh' = sh /\ run' = run /\ snd' = snd /\ live' = live /\ stopped' = stopped
        /\ kern' = kern
    BY <1>4 DEF vars
  <2>2. kern' \in Kernels /\ KernInv(ev, kern')
    <3>1. kern \in Kernels /\ KernInv(ev, kern)
      BY DEF Inv, LoopTypes
    <3>2. QED
      BY <2>1, <3>1, Zenon
  <2>3. kern'.zombies = kern.zombies /\ kern'.raised = kern.raised
    BY <2>1
  <2>4. QED
    BY <2>1, <2>2, <2>3, KernelKeeps
<1>5. QED
  BY <1>1, <1>2, <1>3, <1>4 DEF Next

LEMMA LoopInvariant == Spec => []Inv
<1>1. Init => Inv
  BY InitKeeps
<1>2. Inv /\ [Next]_vars => Inv'
  BY NextKeeps
<1>3. QED
  BY <1>1, <1>2, PTL DEF Spec

----------------------------------------------------------------------------
(* What the loop promises *)

LEMMA InvGives ==
  ASSUME Inv
  PROVE  /\ ev \in Loops /\ sh \in Shares /\ kern \in Kernels /\ run \in Runs /\ snd \in Senders
         /\ stopped \subseteq Watchers
         /\ Exact(ev) /\ IoListed(ev) /\ TimersListed(ev) /\ AsyncsListed(ev) /\ Counted(ev)
         /\ Changed(ev) /\ Reified(ev) /\ EpermsListed(ev) /\ Heaped(ev)
         /\ RegsKnown(ev, kern) /\ FilesKnown(kern) /\ WatchersInited(ev, kern) /\ Told(ev, kern)
         /\ PhaseInv /\ StoppedInv /\ WakeupInv
BY DEF Inv, LoopTypes, LoopInv, KernInv

LEMMA InvWellFormed ==
  ASSUME Inv
  PROVE  WellFormed
<1>1. ev.active \subseteq All /\ ev.idx \in [All -> Nat] /\ ev.cnt \in Int
  BY InvGives, LoopFields
<1>2. ASSUME NEW p \in 0..1, NEW k \in DOMAIN ev.pend[p]
      PROVE  ev.pend[p][k].w \in All \cup {pending_w}
  <2> DEFINE s == ev.pend[p]
  <2>1. s \in Seq(PendingEvents)
    BY InvGives, LoopFields
  <2> HIDE DEF s
  <2>2. \A j \in DOMAIN s : s[j] \in PendingEvents
    BY <2>1
  <2>3. ev.pend[p][k] \in PendingEvents
    BY <2>2 DEF s
  <2>4. QED
    BY <2>3, PendingFields
<1>3. \A d \in AllFds : ev.fd[d].events \subseteq {"R", "W"} /\ ev.fd[d].emask \subseteq {"R", "W", "P"}
  <2> TAKE d \in AllFds
  <2>1. ev.fd[d] \in Anfds
    BY InvGives, LoopFields
  <2>2. QED
    BY <2>1 DEF Anfds
<1>4. /\ IsInjective(ev.changes) /\ IsInjective(ev.heap) /\ IsInjective(ev.asyncs)
      /\ ToSet(ev.changes) = {d \in AllFds : ev.fd[d].reify # {}}
  BY InvGives DEF Changed, TimersListed, AsyncsListed
<1>5. \A f \in DOMAIN sh \ {"sent"} : sh[f] \in BOOLEAN
  <2>1. sh \in Shares
    BY InvGives
  <2>2. DOMAIN sh = {"sent", "sig", "async_pending", "sig_pending", "skipped", "wanted", "pipe"}
    BY <2>1 DEF Shares
  <2>3. /\ sh.sig \in BOOLEAN /\ sh.async_pending \in BOOLEAN /\ sh.sig_pending \in BOOLEAN
        /\ sh.skipped \in BOOLEAN /\ sh.wanted \in BOOLEAN /\ sh.pipe \in BOOLEAN
    BY <2>1 DEF Shares
  <2>4. QED
    BY <2>2, <2>3, Zenon
<1>6. sh.sent \subseteq Asyncs \cup {break_async}
  BY InvGives DEF Shares
<1>7. run.pc \in {"out", "decide", "poll", "polled", "timers", "invoke",
                  "skipped", "sig", "signals", "async", "asyncs"}
  BY InvGives DEF Runs, Phases
<1>8. ActivecntExact
  BY InvGives DEF Counted, ActivecntExact
<1>9. TypeOK
  BY <1>1, <1>2, <1>3, <1>4, <1>5, <1>6, <1>7, Zenon DEF TypeOK
<1>10. QED
  BY <1>8, <1>9 DEF WellFormed

\* ev_ref and ev_unref in ev_start and ev_stop, and the loop's own watchers, leave
\* activecnt the number of the program's active watchers; the loop's lists hold
\* every descriptor, timer and async at most once, and its state is typed.
THEOREM LoopIsWellFormed == Spec => []WellFormed
<1>1. Inv => WellFormed
  BY InvWellFormed
<1>2. QED
  BY <1>1, LoopInvariant, PTL

LEMMA InvExact ==
  ASSUME Inv
  PROVE  PendingIsExact
<1>1. ASSUME NEW p \in 0..1, NEW k \in DOMAIN ev.pend[p], ev.pend[p][k].w # pending_w
      PROVE  /\ ev.idx[ev.pend[p][k].w] = k /\ Pri(ev.pend[p][k].w) = p
             /\ ev.pend[p][k].w \notin stopped
  <2>1. ev.idx[ev.pend[p][k].w] = k /\ Pri(ev.pend[p][k].w) = p
    BY <1>1, InvGives DEF Exact
  <2>2. k # 0
    <3> DEFINE s == ev.pend[p]
    <3>1. s \in Seq(PendingEvents)
      BY InvGives, LoopFields
    <3> HIDE DEF s
    <3>2. 0 \notin DOMAIN s
      BY <3>1
    <3>3. QED
      BY <3>2 DEF s
  <2>3. QED
    BY <2>1, <2>2, InvGives DEF StoppedInv
<1>2. \A w \in All : ev.idx[w] > 0 => ev.pend[Pri(w)][ev.idx[w]].w = w
  BY InvGives DEF Exact
<1>3. At("out") => NoPending(ev)
  BY InvGives DEF At, PhaseInv
<1>4. QED
  BY <1>1, <1>2, <1>3, Zenon DEF PendingIsExact

\* ev_feed_event, clear_pending and ev_invoke_pending keep every watcher's place in
\* the pending lists: a stopped watcher has no event left, and ev_run returns only
\* when all events were delivered.
THEOREM PendingEventsAreExact == Spec => []PendingIsExact
<1>1. Inv => PendingIsExact
  BY InvExact
<1>2. QED
  BY <1>1, LoopInvariant, PTL

LEMMA InvWakes ==
  ASSUME Inv
  PROVE  NoLostWakeup
<1>1. SUFFICES ASSUME At("poll"), run.blocks, \A s \in DOMAIN snd : snd[s] = "idle",
                      \/ sh.sent \cap ev.active # {}
                      \/ sh.sig
                      \/ kern.zombies # {} /\ ~kern.raised
               PROVE  sh.pipe
  BY Zenon DEF NoLostWakeup
<1>2. run.pc = "poll"
  BY <1>1 DEF At
<1>3. snd["thread"] = "idle" /\ snd["handler"] = "idle"
  BY <1>1, InvGives DEF Senders
<1>4. ev.idx[pipe_w] = 0 /\ ev.idx[childev] = 0
  <2>1. NoPending(ev)
    BY <1>2, InvGives DEF PhaseInv
  <2>2. DOMAIN ev.pend[1] = {}
    BY <2>1 DEF NoPending
  <2>3. Pri(pipe_w) = 1 /\ Pri(childev) = 1 /\ pipe_w \in All /\ childev \in All
    BY Names
  <2>4. ~(ev.idx[pipe_w] > 0) /\ ~(ev.idx[childev] > 0)
    BY <2>2, <2>3, InvGives DEF Exact
  <2>5. ev.idx[pipe_w] \in Nat /\ ev.idx[childev] \in Nat
    BY <2>3, InvGives, LoopFields
  <2>6. QED
    BY <2>4, <2>5
<1>5. ~(ev.idx[pipe_w] > 0) /\ ~(ev.idx[childev] > 0)
  BY <1>4
<1>6. ~sh.skipped
  BY <1>1, <1>2, <1>3, InvGives DEF WakeupInv
<1>7. sh.async_pending \/ sh.sig_pending
  <2>1. sh.sent \cap ev.active # {} => break_async \in sh.sent
    BY InvGives DEF Shares
  <2>2. break_async \in sh.sent \/ sh.sig
    BY <1>1, <1>5, <2>1, InvGives DEF WakeupInv
  <2>3. QED
    BY <1>2, <1>3, <2>2, InvGives DEF WakeupInv
<1>8. Awake
  BY <1>2, <1>3, <1>7, InvGives DEF WakeupInv
<1>9. QED
  BY <1>3, <1>5, <1>6, <1>8 DEF Awake

\* evpipe_write, the flags ev_run sets around its poll and pipecb never leave the
\* loop asleep on an async that was sent, a signal that was caught or a child that
\* exited, whatever the handler, the sending thread and the loop interleave.
THEOREM NoWakeupIsLost == Spec => []NoLostWakeup
<1>1. Inv => NoLostWakeup
  BY InvWakes
<1>2. QED
  BY <1>1, LoopInvariant, PTL

LEMMA InvKernel ==
  ASSUME Inv
  PROVE  KernelKnows
<1>1. SUFFICES ASSUME At("poll"), NEW fd \in AllFds, ev.fd[fd].head # <<>>
               PROVE  \/ fd \in ev.eperms /\ "P" \in ev.fd[fd].emask /\ kern.file[fd] \in kern.regular
                      \/ \E r \in Registered(kern, fd) :
                            /\ UNION {EventsOf(w) : w \in ToSet(ev.fd[fd].head)} \subseteq r.events
                            /\ r.gen = ev.fd[fd].egen
  BY Zenon DEF KernelKnows
<1>2. ~ev.postfork /\ ev.changes = <<>>
  BY <1>1, InvGives DEF PhaseInv, At
<1>3. ev.fd[fd].reify = {}
  <2>1. ToSet(ev.changes) = {}
    BY <1>2 DEF ToSet
  <2>2. QED
    BY <2>1, InvGives DEF Changed
<1>4. ev.fd[fd].events = WantedOf(ev, fd)
  BY <1>3, InvGives DEF Reified
<1>5. PICK w : w \in ToSet(ev.fd[fd].head) /\ w \in Ios \cup {pipe_w}
  <2> DEFINE h == ev.fd[fd].head
  <2>1. ev.fd[fd] \in Anfds
    BY InvGives, LoopFields
  <2>2. h \in Seq(Ios \cup {pipe_w}) /\ h # <<>>
    BY <1>1, <2>1, AnfdFields
  <2> HIDE DEF h
  <2>3. h[1] \in ToSet(h) /\ h[1] \in Ios \cup {pipe_w}
    BY <2>2 DEF ToSet
  <2>4. QED
    BY <2>3 DEF h
<1>6. ev.fd[fd].events # {}
  BY <1>4, <1>5, WatcherEvents DEF WantedOf
<1>7. InUse(kern, fd)
  <2>1. CASE fd = PipeFd
    BY <2>1 DEF InUse
  <2>2. CASE fd # PipeFd
    <3>1. fd \in Fds
      BY <2>2 DEF AllFds
    <3>2. w \in ev.active /\ w \in Ios /\ WFd[w] = fd
      BY <1>5, <3>1, InvGives DEF IoListed
    <3>3. kern.inited[w] # 0
      BY <3>2, InvGives DEF WatchersInited
    <3>4. QED
      BY <3>2, <3>3 DEF InUse
  <2>3. QED
    BY <2>1, <2>2
<1>8. Known(ev, kern, fd)
  <2>1. "set" \notin ev.fd[fd].reify
    BY <1>3
  <2>2. QED
    BY <1>2, <1>6, <1>7, <2>1, InvGives DEF Told
<1>9. CASE kern.file[fd] \in kern.regular
  <2>1. "P" \in ev.fd[fd].emask
    BY <1>8, <1>9 DEF Known
  <2>2. QED
    BY <1>9, <2>1, InvGives DEF EpermsListed
<1>10. CASE kern.file[fd] \notin kern.regular
  <2>1. PICK r \in Registered(kern, fd) : ev.fd[fd].events \subseteq r.events
    BY <1>8, <1>10 DEF Known
  <2>2. r \in kern.regs /\ r.fd = fd /\ r.file = kern.file[fd]
    BY <2>1 DEF Registered
  <2>3. r.gen = ev.fd[fd].egen
    BY <2>2, InvGives DEF RegsKnown
  <2>4. UNION {EventsOf(v) : v \in ToSet(ev.fd[fd].head)} \subseteq r.events
    BY <1>4, <2>1 DEF WantedOf
  <2>5. QED
    BY <2>1, <2>3, <2>4
<1>11. QED
  BY <1>9, <1>10

\* After loop_fork and fd_reify the kernel watches every descriptor with watchers, for
\* all their events and on the file it refers to now, although epoll_modify never tells
\* a removal and descriptors are closed, opened again and shared behind its back.
THEOREM KernelIsTold == Spec => []KernelKnows
<1>1. Inv => KernelKnows
  BY InvKernel
<1>2. QED
  BY <1>1, LoopInvariant, PTL

\* The root of the heap is due first: the first place that is due before it would
\* have a parent that is.
LEMMA RootIsFirst ==
  ASSUME NEW h \in Seq(Timers), NEW at \in [Timers -> Nat], Ordered(h, at)
  PROVE  \A c \in 1..Len(h) : at[h[1]] <= at[h[c]]
<1> DEFINE Bad == {c \in 1..Len(h) : ~(at[h[1]] <= at[h[c]])}
<1>1. SUFFICES ASSUME Bad # {} PROVE FALSE
  OBVIOUS
<1>2. PICK m \in Bad : \A y \in Bad : m <= y
  <2>1. Bad \in SUBSET Nat
    OBVIOUS
  <2>2. QED
    BY <1>1, <2>1, MinOfNats
<1>3. Len(h) \in Nat /\ \A i \in 1..Len(h) : at[h[i]] \in Nat
  BY TimesOf
<1>4. m \in 2..Len(h) /\ 1 \in 1..Len(h)
  BY <1>2, <1>3
<1>5. HPARENT(m) \in 1..Len(h) /\ HPARENT(m) < m
  BY <1>3, <1>4, ParentsOf
<1>6. HPARENT(m) \notin Bad
  BY <1>2, <1>4, <1>5
<1>7. at[h[1]] <= at[h[HPARENT(m)]]
  BY <1>5, <1>6
<1>8. at[h[HPARENT(m)]] <= at[h[m]]
  BY <1>4 DEF Ordered, Before
<1>9. at[h[1]] <= at[h[m]]
  BY <1>3, <1>4, <1>5, <1>7, <1>8
<1>10. QED
  BY <1>2, <1>9

LEMMA InvTimers ==
  ASSUME Inv
  PROVE  TimersInOrder
<1> DEFINE h == ev.heap
           at == ev.at
<1>1. ToSet(h) = ev.active \cap Timers
  BY InvGives DEF TimersListed
<1>2. h \in Seq(Timers) /\ at \in [Timers -> Nat]
  BY InvGives, LoopFields
<1>3. Ordered(h, at)
  BY InvGives, HeapedIs
<1>4. ASSUME At("poll"), run.blocks, NEW t \in ev.active \cap Timers
      PROVE  run.until <= at[t]
  <2>1. t \in ToSet(h)
    BY <1>1, <1>4
  <2>2. PICK c \in 1..Len(h) : h[c] = t
    <3> HIDE DEF h
    <3>1. QED
      BY <1>2, <2>1 DEF ToSet
  <2>3. h # <<>>
    <3> HIDE DEF h
    <3>1. QED
      BY <2>1 DEF ToSet
  <2>4. run.until = at[h[1]]
    BY <1>4, <2>3, InvGives DEF At, PhaseInv
  <2>5. at[h[1]] <= at[h[c]]
    <3> HIDE DEF h, at
    <3>1. QED
      BY <1>2, <1>3, <2>2, RootIsFirst
  <2>6. QED
    BY <2>2, <2>4, <2>5
<1>5. Heaped(ev)
  BY InvGives
<1>6. QED
  BY <1>1, <1>4, <1>5, Zenon DEF TimersInOrder, Heaped

\* upheap, downheap and adjustheap keep the active timers in a heap, for any branching
\* factor, so that the poll of ev_run, which waits for the root, wakes before any of
\* them is due.
THEOREM TimersStayInOrder == Spec => []TimersInOrder
<1>1. Inv => TimersInOrder
  BY InvTimers
<1>2. QED
  BY <1>1, LoopInvariant, PTL
=============================================================================
