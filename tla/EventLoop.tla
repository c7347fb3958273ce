----------------------------- MODULE EventLoop -----------------------------
(***************************************************************************)
(* The event loop under the libev backend: libev as Polyphony builds it,   *)
(* on epoll, with I/O, timer, async and child watchers.                    *)
(*                                                                         *)
(* ev is a struct ev_loop.  The functions that change it are operators     *)
(* from a loop to the next one.  ev_run is split where something else can  *)
(* happen in between: signal handlers anywhere, other threads while it     *)
(* polls without the lock, and the program in the callbacks, which may     *)
(* start and stop any watcher.  (Those of Polyphony only make fibers       *)
(* runnable; watchers are started and stopped between two calls of ev_run.)*)
(*                                                                         *)
(* The kernel is external: descriptors refer to files, epoll registers     *)
(* pairs of a descriptor and a file, and forgets a pair when the file has  *)
(* no descriptor left, here or in a child process.                         *)
(***************************************************************************)
EXTENDS Integers, Sequences, FiniteSets, FiniteSetsExt, SequencesExt

CONSTANTS
    Fds,           \* descriptors, PipeFd not included
    WFd, WEvents,  \* descriptor and event mask of every I/O watcher
    Timers, Asyncs, Children,
    Programs,      \* sets of watchers: a program uses one of them
    Delay,         \* of every timer
    DHEAP,         \* branching factor of the timer heap: 4 in the build
    MaxFile,       \* bound: files that are opened
    MaxGen,        \* bound: generation of a registration when a watcher starts
    MaxTime        \* bound: the clock

Ios == DOMAIN WFd
PipeFd == 0
AllFds == Fds \cup {PipeFd}
Files == 1..MaxFile
PipeFile == MaxFile + 1

\* The loop's own watchers, and the one that replaces a cleared event.
pipe_w == "pipe_w"
childev == "childev"
break_async == "break_async"
pending_w == "pending_w"
Watchers == Ios \cup Timers \cup Asyncs \cup Children
Own == {pipe_w, childev, break_async}
All == Watchers \cup Own

ASSUME LoopAssumption ==
    /\ PipeFd \notin Fds /\ IsFiniteSet(Fds) /\ \A w \in Ios : WFd[w] \in Fds
    /\ DOMAIN WEvents = Ios /\ \A w \in Ios : WEvents[w] \subseteq {"R", "W"} /\ WEvents[w] # {}
    /\ IsFiniteSet(Watchers) /\ Watchers \cap (Own \cup {pending_w}) = {}
    /\ Ios \cap (Timers \cup Asyncs \cup Children) = {}
    /\ Timers \cap (Asyncs \cup Children) = {} /\ Asyncs \cap Children = {}
    /\ \A P \in Programs : P \subseteq Watchers
    /\ Delay \in [Timers -> Nat] /\ DHEAP \in Nat \ {0} /\ {MaxFile, MaxGen, MaxTime} \subseteq Nat

VARIABLES
    ev,     \* the loop
    sh,     \* what signal handlers and other threads share with it
    kern,   \* the kernel's files, registrations and processes
    run,    \* where ev_run is, and how it polls
    snd,    \* where the handler and the sending thread are in evpipe_write
    live,   \* the watchers of the program
    stopped \* history: watchers that were stopped, and not started since

vars == <<ev, sh, kern, run, snd, live, stopped>>

\* anfds[fd].  emask: what the kernel was told, or "P" if it would not have it.
NoFd == [head |-> <<>>, events |-> {}, reify |-> {}, emask |-> {}, egen |-> 0]

\* Priorities: 1 is EV_MAXPRI, which the loop's own watchers have, and those
\* of children when they are reaped.
Pri(w) == IF w \in {pipe_w, childev} \cup Children THEN 1 ELSE 0

\* loop_init, the default loop's childev, and the backend's break_async, which
\* makes the evpipe and its watcher.  None of them counts in activecnt.
loop_init ==
    [active |-> Own, cnt |-> 0,
     pend |-> [p \in 0..1 |-> <<>>], idx |-> [w \in All |-> 0],
     fd |-> [[d \in AllFds |-> NoFd] EXCEPT
                ![PipeFd] = [NoFd EXCEPT !.head = <<pipe_w>>, !.reify = {"set"}]],
     changes |-> <<PipeFd>>, eperms |-> {},
     heap |-> <<>>, at |-> [t \in Timers |-> 0], now |-> 0,
     asyncs |-> <<break_async>>, postfork |-> FALSE]

Init ==
    /\ ev = loop_init
    /\ sh = [sent |-> {}, sig |-> FALSE, async_pending |-> FALSE, sig_pending |-> FALSE,
             skipped |-> FALSE, wanted |-> FALSE, pipe |-> FALSE]
    /\ kern = [file |-> [d \in AllFds |-> IF d = PipeFd THEN PipeFile ELSE 0], last |-> 0,
               regs |-> {}, held |-> {}, ready |-> [i \in Files |-> {}], time |-> 0,
               regular |-> {},
               inited |-> [w \in Ios |-> 0], zombies |-> {}, raised |-> FALSE]
    /\ run = [pc |-> "out", nowait |-> FALSE, blocks |-> FALSE, until |-> 0]
    /\ snd = [s \in {"thread", "handler"} |-> "idle"]
    /\ live \in Programs
    /\ stopped = {}

EventsOf(w) == IF w = pipe_w THEN {"R"} ELSE WEvents[w]

----------------------------------------------------------------------------
(* Pending events *)

ev_feed_event(e, w, revents) ==
    LET p == Pri(w)
        k == e.idx[w]
    IN  IF k > 0 THEN [e EXCEPT !.pend[p][k].events = @ \cup revents]
        ELSE [e EXCEPT !.pend[p] = Append(@, [w |-> w, events |-> revents]),
                       !.idx[w] = Len(e.pend[p]) + 1]

\* Feed the watchers of a list, in order, that have events in revents.
FeedAll(e, ws, revents) ==
    LET fed[n \in 0..Len(ws)] ==
            IF n = 0 THEN e
            ELSE IF revents[ws[n]] = {} THEN fed[n - 1]
            ELSE ev_feed_event(fed[n - 1], ws[n], revents[ws[n]])
    IN  fed[Len(ws)]

clear_pendingMutant(e, w) == [e EXCEPT !.idx[w] = 0]

clear_pending(e, w) ==
    IF e.idx[w] = 0 THEN e
    ELSE [e EXCEPT !.pend[Pri(w)][e.idx[w]].w = pending_w, !.idx[w] = 0]

\* The last event of the highest priority that has one.
NextPri(e) == IF e.pend[1] # <<>> THEN 1 ELSE 0
NextEvent(e) == Last(e.pend[NextPri(e)])
PopEvent(e) ==
    LET w == NextEvent(e).w
        x == [e EXCEPT !.pend[NextPri(e)] = Front(@)]
    IN  IF w = pending_w THEN x ELSE [x EXCEPT !.idx[w] = 0]

ev_start(e, w) == [e EXCEPT !.active = @ \cup {w}, !.cnt = @ + 1]

ev_stopMutant(e, w) == [e EXCEPT !.active = @ \ {w}]
ev_stop(e, w) == [e EXCEPT !.active = @ \ {w}, !.cnt = @ - 1]

----------------------------------------------------------------------------
(* Descriptors *)

fd_change(e, fd, flags) ==
    [e EXCEPT !.fd[fd].reify = @ \cup flags,
              !.changes = IF e.fd[fd].reify = {} THEN Append(@, fd) ELSE @]

\* "set" is EV__IOFDSET: the watcher was initialized since it was started.
ev_io_start(e, w, flags) ==
    fd_change([ev_start(e, w) EXCEPT !.fd[WFd[w]].head = <<w>> \o @],
              WFd[w], flags \cup {"reify"})

wlist_del(head, w) == RemoveAt(head, CHOOSE j \in DOMAIN head : head[j] = w)

ev_io_stop(e, w) ==
    LET c == clear_pending(e, w)
    IN  IF w \notin e.active THEN c
        ELSE fd_change([ev_stop(c, w) EXCEPT !.fd[WFd[w]].head = wlist_del(@, w)],
                       WFd[w], {"reify"})

fd_event_nocheck(e, fd, revents) ==
    FeedAll(e, e.fd[fd].head, [w \in ToSet(e.fd[fd].head) |-> EventsOf(w) \cap revents])

fd_event(e, fd, revents) ==
    IF e.fd[fd].reify = {} THEN fd_event_nocheck(e, fd, revents) ELSE e

\* epoll_ctl: the registration of fd for the file it refers to now.
Registered(k, fd) == {r \in k.regs : r.fd = fd /\ r.file = k.file[fd]}
Register(k, fd, events, gen) ==
    [k EXCEPT !.regs = (@ \ Registered(k, fd))
        \cup {[fd |-> fd, file |-> k.file[fd], events |-> events, gen |-> gen]}]

SetMask(e, fd, mask, gen) == [e EXCEPT !.fd[fd].emask = mask, !.fd[fd].egen = gen]

\* What is not wanted any more is left with the kernel.  x: loop and kernel,
\* same: whether a registration that is still there has the new mask already.
\* (epoll_eperms may list a descriptor twice: its events are then fed twice to
\* the same pending entries.  It is a set here.)
EpollCtl(x, fd, oev, nev, same) ==
    LET old == x.e.fd[fd].emask
        gen == x.e.fd[fd].egen
        mod == oev # {} /\ old # nev
    IN  IF nev = {} THEN x
        ELSE IF x.k.file[fd] \in x.k.regular
             THEN [e |-> [SetMask(x.e, fd, {"P"}, gen + 1) EXCEPT
                             !.eperms = IF "P" \in old THEN @ ELSE @ \cup {fd}],
                   k |-> x.k]
        \* EEXIST: a removal that was not told.
        ELSE IF ~mod /\ Registered(x.k, fd) # {} /\ same
             THEN [e |-> SetMask(x.e, fd, nev, gen), k |-> x.k]
        ELSE [e |-> SetMask(x.e, fd, nev, gen + 1), k |-> Register(x.k, fd, nev, gen + 1)]

epoll_modifyMutant(x, fd, oev, nev) == EpollCtl(x, fd, oev, nev, TRUE)

epoll_modify(x, fd, oev, nev) == EpollCtl(x, fd, oev, nev, x.e.fd[fd].emask = nev)

\* A descriptor is to be told again (fd_rearm_all).
Rearmed(a) == [a EXCEPT !.events = {}, !.emask = {}, !.reify = @ \cup {"set", "reify"}]

\* epoll_fork: a new epoll instance.
epoll_fork(x) ==
    LET rearmed == {d \in AllFds : x.e.fd[d].events # {}}
        fd == [d \in AllFds |-> IF d \in rearmed THEN Rearmed(x.e.fd[d]) ELSE x.e.fd[d]]
        changed == SetToSeq({d \in rearmed : x.e.fd[d].reify = {}})
    IN  [e |-> [x.e EXCEPT !.fd = fd, !.changes = @ \o changed],
         k |-> [x.k EXCEPT !.regs = {}]]

loop_fork(x) ==
    IF ~x.e.postfork THEN x
    ELSE LET y == epoll_fork(x) IN [e |-> [y.e EXCEPT !.postfork = FALSE], k |-> y.k]

SetEvents(e, fd, events) == [e EXCEPT !.fd[fd].reify = {}, !.fd[fd].events = events]

ReifyOne(x, fd) ==
    LET a == x.e.fd[fd]
        events == UNION {EventsOf(w) : w \in ToSet(a.head)}
        y == [e |-> SetEvents(x.e, fd, events), k |-> x.k]
    IN  IF a.events # events \/ "set" \in a.reify
        THEN epoll_modify(y, fd, a.events, events) ELSE y

fd_reify(x) ==
    LET done[n \in 0..Len(x.e.changes)] ==
            IF n = 0 THEN x ELSE ReifyOne(done[n - 1], x.e.changes[n])
        all == done[Len(x.e.changes)]
    IN  [e |-> [all.e EXCEPT !.changes = <<>>], k |-> all.k]

\* x: loop and kernel, r: an event the kernel reports.
\* Spurious ones are noticed by their generation or by a failing epoll_ctl.
Reported(ready, r) ==
    IF "H" \in ready THEN {"R", "W"} ELSE ready \cap r.events

EpollEvent(x, r, got) ==
    LET a == x.e.fd[r.fd]
        want == a.events
        unknown == Registered(x.k, r.fd) = {}
        told == SetMask(x.e, r.fd, want, a.egen)
        again(e) == [e EXCEPT !.postfork = TRUE]
    IN  CASE a.egen # r.gen -> [e |-> again(x.e), k |-> x.k]
          [] a.egen = r.gen /\ got \subseteq want -> [e |-> fd_event(x.e, r.fd, got), k |-> x.k]
          [] a.egen = r.gen /\ ~(got \subseteq want) /\ unknown -> [e |-> again(told), k |-> x.k]
          [] OTHER -> [e |-> fd_event(told, r.fd, got),
                       k |-> IF want = {} THEN [x.k EXCEPT !.regs = @ \ Registered(x.k, r.fd)]
                             ELSE Register(x.k, r.fd, want, r.gen)]

\* Descriptors epoll does not take are always ready.
EpermEvent(e, fd) ==
    IF "P" \in e.fd[fd].emask /\ e.fd[fd].events # {}
    THEN fd_event(e, fd, e.fd[fd].events)
    ELSE [SetMask(e, fd, {}, e.fd[fd].egen) EXCEPT !.eperms = @ \ {fd}]

----------------------------------------------------------------------------
(* Timers: a heap of branching DHEAP, the root at 1 *)

HPARENTMutant(k) == IF k = 1 THEN 1 ELSE ((k - 1) \div DHEAP) + 1
HPARENT(k) == IF k = 1 THEN 1 ELSE ((k - 2) \div DHEAP) + 1
Kids(n, k) == {c \in (DHEAP * (k - 1) + 2)..(DHEAP * k + 1) : c <= n}

Swap(h, i, j) == [h EXCEPT ![i] = h[j], ![j] = h[i]]

\* One round: the element at x.k changes places with its parent if that is later.
UpRound(x, at) ==
    LET p == HPARENT(x.k)
    IN  IF x.k = 1 \/ at[x.h[p]] <= at[x.h[x.k]] THEN x
        ELSE [h |-> Swap(x.h, x.k, p), k |-> p]

\* As many rounds as can be needed.
upheap(h, at, k) ==
    LET done[n \in 0..Len(h)] ==
            IF n = 0 THEN [h |-> h, k |-> k] ELSE UpRound(done[n - 1], at)
    IN  done[Len(h)].h

\* The first of the children of place k that are due first.
MinPos(h, at, k) ==
    CHOOSE c \in Kids(Len(h), k) : \A d \in Kids(Len(h), k) :
        at[h[c]] < at[h[d]] \/ (at[h[c]] = at[h[d]] /\ c <= d)

\* One round: the element at x.k changes places with that child if it is later.
DownRound(x, at) ==
    LET c == MinPos(x.h, at, x.k)
    IN  IF Kids(Len(x.h), x.k) = {} THEN x
        ELSE IF at[x.h[x.k]] <= at[x.h[c]] THEN x
        ELSE [h |-> Swap(x.h, x.k, c), k |-> c]

downheap(h, at, k) ==
    LET done[n \in 0..Len(h)] ==
            IF n = 0 THEN [h |-> h, k |-> k] ELSE DownRound(done[n - 1], at)
    IN  done[Len(h)].h

adjustheap(h, at, k) ==
    IF k > 1 /\ at[h[k]] <= at[h[HPARENT(k)]] THEN upheap(h, at, k) ELSE downheap(h, at, k)

ev_timer_start(e, t) ==
    LET at == [e.at EXCEPT ![t] = e.now + Delay[t]]
        h  == Append(e.heap, t)
    IN  [ev_start(e, t) EXCEPT !.at = at, !.heap = upheap(h, at, Len(h))]

ev_timer_stop(e, t) ==
    LET c == clear_pending(e, t)
        k == CHOOSE j \in DOMAIN e.heap : e.heap[j] = t
        h == IF k < Len(e.heap) THEN [Front(e.heap) EXCEPT ![k] = Last(e.heap)]
             ELSE Front(e.heap)
    IN  IF t \notin e.active THEN c
        ELSE [ev_stop(c, t) EXCEPT !.at[t] = 0, !.heap = IF k > Len(h) THEN h ELSE adjustheap(h, e.at, k)]

\* One round: the first timer, if it is due, is stopped and taken.
TimerRound(x) ==
    LET t == Head(x.e.heap)
    IN  IF x.e.heap = <<>> \/ x.e.at[t] >= x.e.now THEN x
        ELSE [e |-> ev_timer_stop(x.e, t), ts |-> <<t>> \o x.ts]

\* The timers taken are fed last first.
timers_reify(e) ==
    LET taken[n \in 0..Len(e.heap)] ==
            IF n = 0 THEN [e |-> e, ts |-> <<>>] ELSE TimerRound(taken[n - 1])
        all == taken[Len(e.heap)]
    IN  FeedAll(all.e, all.ts, [t \in Timers |-> {"T"}])

----------------------------------------------------------------------------
(* Asyncs and children *)

ev_async_start(e, a) == [ev_start(e, a) EXCEPT !.asyncs = Append(@, a)]

ev_async_stop(e, a) ==
    LET k == CHOOSE j \in DOMAIN e.asyncs : e.asyncs[j] = a
    IN  IF a \notin e.active THEN clear_pending(e, a)
        ELSE [ev_stop(clear_pending(e, a), a) EXCEPT
                 !.asyncs = Front([@ EXCEPT ![k] = Last(e.asyncs)])]

ev_child_start(e, c) == ev_start(e, c)

ev_child_stop(e, c) ==
    IF c \notin e.active THEN clear_pending(e, c) ELSE ev_stop(clear_pending(e, c), c)

\* The watcher c is for the child process c.
child_reap(e, pid) == IF pid \in e.active THEN ev_feed_event(e, pid, {"C"}) ELSE e

----------------------------------------------------------------------------
(* ev_async_send and the signal handler: evpipe_write, one access a step *)

\* Bound: the programs in which another thread wakes the loop.
Threaded == live \cap (Asyncs \cup Children) # {}

\* Backend_wakeup sends break_async; no other is ever sent.
ev_async_send ==
    /\ snd["thread"] = "idle" /\ Threaded
    /\ sh' = [sh EXCEPT !.sent = @ \cup {break_async}]
    /\ snd' = [snd EXCEPT !["thread"] = "flag"]
    /\ UNCHANGED <<ev, kern, run, live, stopped>>

ev_sighandler ==
    /\ snd["handler"] = "idle" /\ kern.raised
    /\ kern' = [kern EXCEPT !.raised = FALSE]
    /\ sh' = [sh EXCEPT !.sig = TRUE]
    /\ snd' = [snd EXCEPT !["handler"] = "flag"]
    /\ UNCHANGED <<ev, run, live, stopped>>

evpipe_write(s) ==
    LET flag == IF s = "thread" THEN sh.async_pending ELSE sh.sig_pending
        to(pc) == snd' = [snd EXCEPT ![s] = pc]
    IN  /\ UNCHANGED <<ev, kern, run, live, stopped>>
        /\ \/ /\ snd[s] = "flag" /\ flag
              /\ to("idle") /\ UNCHANGED sh
           \/ /\ snd[s] = "flag" /\ ~flag
              /\ sh' = IF s = "thread" THEN [sh EXCEPT !.async_pending = TRUE]
                       ELSE [sh EXCEPT !.sig_pending = TRUE]
              /\ to("skip")
           \/ /\ snd[s] = "skip"
              /\ sh' = [sh EXCEPT !.skipped = TRUE]
              /\ to("wanted")
           \/ /\ snd[s] = "wanted" /\ ~sh.wanted
              /\ to("idle") /\ UNCHANGED sh
           \/ /\ snd[s] = "wanted" /\ sh.wanted
              /\ sh' = [sh EXCEPT !.skipped = FALSE]
              /\ to("write")
           \/ /\ snd[s] = "write"
              /\ sh' = [sh EXCEPT !.pipe = TRUE]
              /\ to("idle")

----------------------------------------------------------------------------
(* ev_run *)

At(pc) == run.pc = pc
Goto(pc) == run' = [run EXCEPT !.pc = pc]
Outside == UNCHANGED <<snd, live, stopped>>

\* With EVRUN_NOWAIT or EVRUN_ONCE.  The pending events that it would invoke
\* first are none (PendingIsExact).
ev_run(nowait) ==
    LET x == fd_reify(loop_fork([e |-> ev, k |-> kern]))
    IN  /\ At("out")
        /\ ev' = [x.e EXCEPT !.now = kern.time]
        /\ kern' = x.k
        /\ sh' = [sh EXCEPT !.wanted = TRUE]
        /\ run' = [run EXCEPT !.pc = "decide", !.nowait = nowait]
        /\ Outside

\* until: 0 if no timer bounds the wait.
BlockingTimeMutant ==
    /\ At("decide")
    /\ run' = [run EXCEPT !.pc = "poll", !.blocks = ~(run.nowait \/ ev.cnt = 0),
                          !.until = IF ev.heap = <<>> THEN 0 ELSE ev.at[Head(ev.heap)]]
    /\ UNCHANGED <<ev, sh, kern>> /\ Outside

BlockingTime ==
    /\ At("decide")
    /\ run' = [run EXCEPT !.pc = "poll",
                          !.blocks = ~(run.nowait \/ ev.cnt = 0 \/ sh.skipped),
                          !.until = IF ev.heap = <<>> THEN 0 ELSE ev.at[Head(ev.heap)]]
    /\ UNCHANGED <<ev, sh, kern>> /\ Outside

ReadyOf(r) ==
    Reported(IF r.file = PipeFile THEN (IF sh.pipe THEN {"R"} ELSE {}) ELSE kern.ready[r.file], r)
ReadyRegs == {r \in kern.regs : ReadyOf(r) # {}}

EpollEvents(x, rs) ==
    LET done[n \in 0..Len(rs)] ==
            IF n = 0 THEN x ELSE EpollEvent(done[n - 1], rs[n], ReadyOf(rs[n]))
    IN  done[Len(rs)]

EpermEvents(e, fds) ==
    LET done[n \in 0..Len(fds)] == IF n = 0 THEN e ELSE EpermEvent(done[n - 1], fds[n])
    IN  done[Len(fds)]

Polled == run' = [pc |-> "polled", nowait |-> FALSE, blocks |-> FALSE, until |-> 0]

\* The events come in any order.  epoll_wait may also be interrupted, and
\* report nothing.
epoll_poll ==
    /\ At("poll")
    /\ \/ ~run.blocks \/ ev.eperms # {} \/ ReadyRegs # {}
       \/ ev.heap # <<>> /\ kern.time >= run.until
    /\ \E rs \in SetToSeqs(ReadyRegs), fds \in SetToSeqs(ev.eperms) :
          LET x == EpollEvents([e |-> ev, k |-> kern], rs)
          IN  ev' = EpermEvents(x.e, fds) /\ kern' = x.k
    /\ Polled /\ UNCHANGED sh /\ Outside

EpollInterrupted ==
    /\ At("poll") /\ run.blocks /\ Polled
    /\ UNCHANGED <<ev, sh, kern>> /\ Outside

NotWanted ==
    /\ At("polled") /\ Goto("timers")
    /\ sh' = [sh EXCEPT !.wanted = FALSE]
    /\ UNCHANGED <<ev, kern>> /\ Outside

FeedSkippedAndTimers ==
    LET e == IF sh.skipped THEN ev_feed_event(ev, pipe_w, {"C"}) ELSE ev
    IN  /\ At("timers") /\ Goto("invoke")
        /\ ev' = timers_reify([e EXCEPT !.now = kern.time])
        /\ UNCHANGED <<sh, kern>> /\ Outside

NoPending(e) == e.pend[0] = <<>> /\ e.pend[1] = <<>>

\* One round of ev_invoke_pending.  The callbacks of the program's watchers
\* are the program's own actions, which may come between any two rounds.
ev_invoke_pending ==
    LET p == NextEvent(ev)
        e == PopEvent(ev)
        zombie == CHOOSE c \in kern.zombies : TRUE
    IN  /\ At("invoke") /\ ~NoPending(ev) /\ Outside
        /\ CASE p.w = pipe_w ->
                    /\ ev' = e /\ Goto("skipped") /\ UNCHANGED kern
                    /\ sh' = IF "R" \in p.events THEN [sh EXCEPT !.pipe = FALSE] ELSE sh
             [] p.w = childev /\ kern.zombies # {} ->      \* childcb
                    /\ ev' = child_reap(ev_feed_event(e, childev, {"S"}), zombie)
                    /\ kern' = [kern EXCEPT !.zombies = @ \ {zombie}]
                    /\ UNCHANGED <<sh, run>>
             [] OTHER -> ev' = e /\ UNCHANGED <<sh, kern, run>>

\* The rest of pipecb, after the read.
pipecbSkipped ==
    /\ At("skipped") /\ Goto("sig")
    /\ sh' = [sh EXCEPT !.skipped = FALSE]
    /\ UNCHANGED <<ev, kern>> /\ Outside

pipecbPending ==
    /\ \/ /\ At("sig") /\ Goto(IF sh.sig_pending THEN "signals" ELSE "async")
          /\ sh' = [sh EXCEPT !.sig_pending = FALSE]
       \/ /\ At("async") /\ Goto(IF sh.async_pending THEN "asyncs" ELSE "invoke")
          /\ sh' = [sh EXCEPT !.async_pending = FALSE]
    /\ UNCHANGED <<ev, kern>> /\ Outside

pipecbFeed ==
    LET sent == [a \in ToSet(ev.asyncs) |-> IF a \in sh.sent THEN {"A"} ELSE {}]
    IN  /\ \/ /\ At("signals") /\ Goto("async")
              /\ ev' = IF sh.sig THEN ev_feed_event(ev, childev, {"S"}) ELSE ev
              /\ sh' = [sh EXCEPT !.sig = FALSE]
           \/ /\ At("asyncs") /\ Goto("invoke")
              /\ ev' = FeedAll(ev, Reverse(ev.asyncs), sent)
              /\ sh' = [sh EXCEPT !.sent = @ \ ToSet(ev.asyncs)]
        /\ UNCHANGED kern /\ Outside

Return == At("invoke") /\ NoPending(ev) /\ Goto("out") /\ UNCHANGED <<ev, sh, kern>> /\ Outside

----------------------------------------------------------------------------
(* The program: what fibers and callbacks do between two steps of the loop *)

Client == run.pc \in {"out", "invoke"} /\ UNCHANGED <<run, snd, live>>
Starts(w) == Client /\ w \in live \ ev.active /\ stopped' = stopped \ {w}
Stops(w) == Client /\ w \in live /\ stopped' = stopped \cup {w}

\* ev_io_init and ev_io_start, or ev_io_start of a watcher that was
\* initialized for the file its descriptor still refers to.
IoStart(w) ==
    LET i == kern.file[WFd[w]]
    IN  /\ Starts(w) /\ i # 0 /\ ev.fd[WFd[w]].egen < MaxGen
        /\ \/ ev' = ev_io_start(ev, w, {"set"})
           \/ kern.inited[w] = i /\ ev' = ev_io_start(ev, w, {})
        /\ kern' = [kern EXCEPT !.inited[w] = i]
        /\ UNCHANGED sh

IoStop(w) == Stops(w) /\ ev' = ev_io_stop(ev, w) /\ UNCHANGED <<sh, kern>>

TimerStart(t) ==
    Starts(t) /\ ev.idx[t] = 0 /\ ev' = ev_timer_start(ev, t) /\ UNCHANGED <<sh, kern>>

TimerStop(t) == Stops(t) /\ ev' = ev_timer_stop(ev, t) /\ UNCHANGED <<sh, kern>>

AsyncStart(a) ==
    /\ Starts(a) /\ ev' = ev_async_start(ev, a)
    /\ sh' = [sh EXCEPT !.sent = @ \ {a}] /\ UNCHANGED kern

AsyncStop(a) == Stops(a) /\ ev' = ev_async_stop(ev, a) /\ UNCHANGED <<sh, kern>>

ChildStart(c) == Starts(c) /\ ev' = ev_child_start(ev, c) /\ UNCHANGED <<sh, kern>>

ChildStop(c) == Stops(c) /\ ev' = ev_child_stop(ev, c) /\ UNCHANGED <<sh, kern>>

\* epoll forgets the registrations of a file that nothing refers to.
Forget(k) ==
    LET used == k.held \cup Range(k.file)
    IN  [k EXCEPT !.regs = {r \in @ : r.file \in used}, !.regular = @ \cap used,
                  !.ready = [i \in Files |-> IF i \in used THEN @[i] ELSE {}],
                  !.inited = [w \in Ios |-> IF k.file[WFd[w]] = @[w] THEN @[w] ELSE 0]]

\* A file that epoll does not take (a regular one), or another.
Open(fd, regular) ==
    /\ Client /\ kern.file[fd] = 0 /\ kern.last < MaxFile
    /\ \E w \in live \cap Ios : WFd[w] = fd
    /\ kern' = [kern EXCEPT !.file[fd] = kern.last + 1, !.last = @ + 1,
                            !.regular = IF regular THEN @ \cup {kern.last + 1} ELSE @]
    /\ UNCHANGED <<ev, sh, stopped>>

\* libev wants the watchers of a descriptor stopped before it is closed.
Close(fd) ==
    /\ Client /\ kern.file[fd] # 0 /\ ev.fd[fd].head = <<>>
    /\ kern' = Forget([kern EXCEPT !.file[fd] = 0])
    /\ UNCHANGED <<ev, sh, stopped>>

\* A process forks and keeps the file, for a while.
Share(fd) ==
    /\ Client /\ kern.file[fd] \notin {0} \cup kern.held
    /\ kern' = [kern EXCEPT !.held = @ \cup {kern.file[fd]}]
    /\ UNCHANGED <<ev, sh, stopped>>

----------------------------------------------------------------------------
(* The rest of the world *)

World == UNCHANGED <<ev, sh, run, snd, live, stopped>>

Unshare(i) ==
    i \in kern.held /\ kern' = Forget([kern EXCEPT !.held = @ \ {i}]) /\ World

Readiness(i, ready) ==
    /\ i \in (kern.held \cup Range(kern.file)) \ kern.regular
    /\ ready # kern.ready[i]
    /\ kern' = [kern EXCEPT !.ready[i] = ready] /\ World

Exits(c) ==
    /\ c \in live \ kern.zombies
    /\ kern' = [kern EXCEPT !.zombies = @ \cup {c}, !.raised = TRUE] /\ World

Tick ==
    /\ live \cap Timers # {} /\ kern.time < MaxTime
    /\ kern' = [kern EXCEPT !.time = @ + 1] /\ World

Program ==
    \/ \E w \in Ios : IoStart(w) \/ IoStop(w)
    \/ \E t \in Timers : TimerStart(t) \/ TimerStop(t)
    \/ \E a \in Asyncs : AsyncStart(a) \/ AsyncStop(a)
    \/ \E c \in Children : ChildStart(c) \/ ChildStop(c)
    \/ \E fd \in Fds : Close(fd) \/ Share(fd) \/ \E regular \in BOOLEAN : Open(fd, regular)

Loop ==
    \/ \E nowait \in BOOLEAN : ev_run(nowait)
    \/ BlockingTime \/ epoll_poll \/ EpollInterrupted \/ NotWanted \/ FeedSkippedAndTimers
    \/ ev_invoke_pending \/ pipecbSkipped \/ pipecbPending \/ pipecbFeed \/ Return

Others ==
    \/ ev_async_send \/ ev_sighandler \/ \E s \in DOMAIN snd : evpipe_write(s)
    \/ \E i \in Files : Unshare(i) \/ \E ready \in {{}, {"R"}, {"W"}, {"H"}} : Readiness(i, ready)
    \/ \E c \in Children : Exits(c)
    \/ Tick

Next == Program \/ Loop \/ Others

Spec == Init /\ [][Next]_vars

----------------------------------------------------------------------------
(* Properties *)

\* The loop, the pipe's flags, the kernel's view and the phases of ev_run have
\* their types; a descriptor is listed once among the changed ones and a timer
\* once in the heap.
TypeOK ==
    /\ ev.active \subseteq All /\ ev.idx \in [All -> Nat] /\ ev.cnt \in Int
    /\ \A p \in 0..1 : \A k \in DOMAIN ev.pend[p] :
          ev.pend[p][k].w \in All \cup {pending_w}
    /\ \A d \in AllFds : ev.fd[d].events \subseteq {"R", "W"}
                         /\ ev.fd[d].emask \subseteq {"R", "W", "P"}
    /\ IsInjective(ev.changes) /\ IsInjective(ev.heap) /\ IsInjective(ev.asyncs)
    /\ ToSet(ev.changes) = {d \in AllFds : ev.fd[d].reify # {}}
    /\ \A f \in DOMAIN sh \ {"sent"} : sh[f] \in BOOLEAN
    /\ sh.sent \subseteq Asyncs \cup {break_async}
    /\ run.pc \in {"out", "decide", "poll", "polled", "timers", "invoke",
                   "skipped", "sig", "signals", "async", "asyncs"}

\* A watcher knows the place of its pending event, no event is left for a
\* watcher that was stopped since (its memory, on the stack of a fiber that has
\* gone on, would be used by the callback), and when ev_run returns every event
\* has been delivered.
PendingIsExact ==
    /\ \A p \in 0..1 : \A k \in DOMAIN ev.pend[p] :
          LET w == ev.pend[p][k].w
          IN  w # pending_w => ev.idx[w] = k /\ Pri(w) = p /\ w \notin stopped
    /\ \A w \in All : ev.idx[w] > 0 => ev.pend[Pri(w)][ev.idx[w]].w = w
    /\ At("out") => NoPending(ev)

\* Whenever the loop polls, the kernel watches every descriptor that has
\* watchers, for all their events, on the file the descriptor refers to now, in
\* the generation the loop takes for current; or the loop knows that epoll will
\* not watch it.  Descriptors may have been closed and reopened, shared with
\* other processes, and their removals were never told to the kernel.
KernelKnows ==
    At("poll") => \A fd \in AllFds : ev.fd[fd].head # <<>> =>
        \/ fd \in ev.eperms /\ "P" \in ev.fd[fd].emask /\ kern.file[fd] \in kern.regular
        \/ \E r \in Registered(kern, fd) :
              /\ UNION {EventsOf(w) : w \in ToSet(ev.fd[fd].head)} \subseteq r.events
              /\ r.gen = ev.fd[fd].egen

\* The heap holds exactly the active timers, no timer is later than its
\* children, and a poll that blocks returns before the first of them is due.
TimersInOrder ==
    /\ ToSet(ev.heap) = ev.active \cap Timers
    /\ \A k \in DOMAIN ev.heap : \A c \in Kids(Len(ev.heap), k) :
          ev.at[ev.heap[k]] <= ev.at[ev.heap[c]]
    /\ At("poll") /\ run.blocks => \A t \in ev.active \cap Timers : run.until <= ev.at[t]

\* The loop never sleeps on an async that was sent, a signal that was caught or
\* a child that exited: once the senders are done, the pipe is readable.
NoLostWakeup ==
    /\ At("poll") /\ run.blocks /\ \A s \in DOMAIN snd : snd[s] = "idle"
    /\ \/ sh.sent \cap ev.active # {}
       \/ sh.sig
       \/ kern.zombies # {} /\ ~kern.raised
    => sh.pipe

\* activecnt counts the program's active watchers and none of the loop's own:
\* it decides whether the loop blocks at all.
ActivecntExact == ev.cnt = Cardinality(ev.active \ Own)

\* The state is typed and activecnt counts the program's active watchers.
WellFormed == TypeOK /\ ActivecntExact
=============================================================================
