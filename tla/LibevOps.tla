------------------------------ MODULE LibevOps ------------------------------
(***************************************************************************)
(* The operations of the libev backend, on one thread.                     *)
(*                                                                         *)
(* An operation makes its system call itself; when the call would block it *)
(* starts a watcher on the event loop, switches to another fiber, stops    *)
(* the watcher when it runs again, and calls again.  The watcher is a      *)
(* local variable of the C function.                                       *)
(*                                                                         *)
(* A step of a fiber is one round of its operation: from a system call to  *)
(* the next one or to the switch, or from the switch to a call, the return *)
(* or the raise.  EventLoop models the loop itself; here it calls back any *)
(* active watcher whose event is there, as level-triggered polling does.   *)
(*                                                                         *)
(* Every operation has descriptors of its own: io[f] is what the kernel    *)
(* knows of those of fiber f.  Which of the scheduled fibers runs next is  *)
(* left open (Scheduler models it).  The blocks of the loops and the procs *)
(* of splice_chunks neither switch nor raise.                              *)
(***************************************************************************)
EXTENDS Integers, Sequences, FiniteSets, TLC

CONSTANTS
    Fibers,
    NoFiber,
    OpsOf,       \* what each fiber may perform first, second, ...
    WokenEarly,  \* operations others may end with a plain resume value
    BufLen,      \* bytes of a buffer, and of a splice
    MaxIn,       \* bound: bytes, connections or signals a peer sends
    MaxOut       \* bound: bytes a peer takes

ReadOps   == {"read", "read_to_eof", "read_expand", "recvmsg", "read_loop", "feed_loop"}
WriteOps  == {"write", "writev", "send", "sendmsg"}
SpliceOps == {"splice", "splice_to_eof", "copy", "copy_to_eof", "splice_chunks"}
OpNames   == ReadOps \cup WriteOps \cup SpliceOps \cup
             {"tee", "accept", "accept_loop", "connect", "wait_io", "close", "sleep",
              "timer_loop", "timeout", "waitpid", "waitpid_child", "wait_event",
              "chain", "chain_invalid", "snooze", "fork"}

ASSUME LibevAssumption ==
    /\ IsFiniteSet(Fibers) /\ NoFiber \notin Fibers
    /\ \A f \in Fibers : OpsOf[f] \in Seq(SUBSET OpNames)
    /\ WokenEarly \subseteq OpNames
    /\ {BufLen, MaxIn, MaxOut} \subseteq Nat \ {0}

VARIABLES
    fs,       \* what every fiber is doing: the locals of its C function
    ws,       \* the watchers of every fiber
    io,       \* the descriptors of every fiber
    sched,    \* the value every fiber is scheduled with
    cur,      \* the fiber that runs, or NoFiber while the thread switches
    polling,  \* the thread is blocked in ev_run
    woken,    \* the evpipe has been written to
    pipe      \* the evpipe of the loop has been made

vars == <<fs, ws, io, sched, cur, polling, woken, pipe>>
loop == <<polling, woken, pipe>>

NoValue == "none"
Values == {"nil", "value", "status", "exception", "timeout"}
IS_EXCEPTION(v) == v \in {"exception", "timeout"}

\* pc: "app" in the program's code, "call" before a system call, "wait" and
\* "snooze" switched out, "raise" an exception on its way out of a timeout
\* block, "dead".  held: what the last call returned, while the fiber
\* snoozes.  rest: what is left of a chain.  open: descriptors the operation
\* has opened.
NoOp == [op |-> "none", pc |-> "app", step |-> 0, stage |-> "none", left |-> 0,
         total |-> 0, held |-> 0, rest |-> <<>>, block |-> FALSE, open |-> 0]

\* on: the active watchers.  aim: what the ev_io was initialized for, "none"
\* while watcher.fiber is nil.  ref: ctx.ref_count.  timer: the watcher of
\* the timeout block.
NoWatchers == [on |-> {}, aim |-> "none", ref |-> 0, timer |-> "off"]

\* src: bytes to read, eof: no more will come, in: bytes sent by the peer;
\* room: bytes that can be written, out: bytes written.  pipe: bytes in the
\* pipe of splice_chunks, text: its strings that were written.
NoIo == [src |-> 0, eof |-> FALSE, in |-> 0, room |-> 0, out |-> 0, pipe |-> 0, text |-> 0]

Init ==
    /\ fs = [f \in Fibers |-> NoOp]
    /\ ws = [f \in Fibers |-> NoWatchers]
    /\ io = [f \in Fibers |-> NoIo]
    /\ sched = [f \in Fibers |-> "nil"]
    /\ cur = NoFiber
    /\ polling = FALSE /\ woken = FALSE
    /\ pipe = TRUE

----------------------------------------------------------------------------
(* System calls *)

EAGAIN == -1
SetMin(S) == CHOOSE n \in S : \A m \in S : n <= m

ReadResult(f, len) ==
    IF io[f].src > 0 THEN SetMin({io[f].src, len})
    ELSE IF io[f].eof THEN 0 ELSE EAGAIN

WriteResult(f, len) == IF io[f].room > 0 THEN SetMin({io[f].room, len}) ELSE EAGAIN

\* A splice needs something to move and somewhere to put it.
SpliceResult(f, len) ==
    IF ReadResult(f, len) <= 0 THEN ReadResult(f, len)
    ELSE IF io[f].room = 0 THEN EAGAIN ELSE SetMin({io[f].src, io[f].room, len})

Taken(f, n) == [io[f] EXCEPT !.src = @ - n]
Given(f, n) == [io[f] EXCEPT !.room = @ - n, !.out = @ + n]

----------------------------------------------------------------------------
(* Control *)

\* runqueue_push: only another exception displaces one that is on its way.
Fiber_make_runnable(f, v) ==
    sched' = IF IS_EXCEPTION(sched[f]) /\ ~IS_EXCEPTION(v) THEN sched ELSE [sched EXCEPT ![f] = v]

Unscheduled(f) == sched' = [sched EXCEPT ![f] = NoValue]

\* The fiber runs and is in operation o, before a system call.
Calls(f, o) == cur = f /\ fs[f].pc = "call" /\ fs[f].op = o

\* The fiber comes back from the switch it made at pc p in operation o.
Resumes(f, o, p) ==
    /\ cur = NoFiber /\ ~polling /\ sched[f] # NoValue
    /\ fs[f].pc = p /\ fs[f].op = o

\* It goes on with a system call.
GoOn(f, s, i) ==
    /\ fs' = [fs EXCEPT ![f] = [s EXCEPT !.pc = "call"]]
    /\ io' = [io EXCEPT ![f] = i]
    /\ cur' = f

\* It leaves the operation: for the next one of a chain, or the program.
\* Descriptors it has opened stay open.
Left(s) == [NoOp EXCEPT !.step = s.step, !.block = s.block, !.open = s.open]
Closed(s) == [s EXCEPT !.open = 0]

Entered(s, o) ==
    [s EXCEPT !.op = o, !.pc = "call", !.left = IF o \in WriteOps THEN BufLen ELSE 0]

Ended(s) ==
    IF s.rest = <<>> THEN Left(s)
    ELSE [Entered(Left(s), Head(s.rest)) EXCEPT !.rest = Tail(s.rest)]

Out(f, s, w) ==
    /\ fs' = [fs EXCEPT ![f] = s]
    /\ io' = [io EXCEPT ![f] = NoIo]
    /\ ws' = [ws EXCEPT ![f] = [w EXCEPT !.aim = "none", !.ref = 0]]
    /\ cur' = f

Return(f, s, w) == Out(f, Ended(s), w)
Raise(f, s, w) == Out(f, [Left(s) EXCEPT !.pc = IF s.block THEN "raise" ELSE "app"], w)

\* A system call fails with something else than EAGAIN.
Fails(f) == Raise(f, fs[f], ws[f]) /\ UNCHANGED <<sched, loop>>

\* backend_await, with the watchers started.
backend_await(f, s, w) ==
    /\ fs' = [fs EXCEPT ![f] = [s EXCEPT !.pc = "wait"]]
    /\ ws' = [ws EXCEPT ![f] = w]
    /\ cur' = NoFiber
    /\ UNCHANGED <<io, sched>>

backend_snooze(f, s, i) ==
    /\ fs' = [fs EXCEPT ![f] = [s EXCEPT !.pc = "snooze"]]
    /\ io' = [io EXCEPT ![f] = i]
    /\ Fiber_make_runnable(f, "nil")
    /\ cur' = NoFiber
    /\ UNCHANGED <<ws, loop>>

----------------------------------------------------------------------------
(* Waiting for descriptors *)

\* The watcher is initialized once; what is asked for later is not looked at.
libev_wait_fd_with_watcher(f, s, want) ==
    /\ backend_await(f, s, [ws[f] EXCEPT !.on = {"io"},
                                         !.aim = IF @ = "none" THEN want ELSE @])
    /\ UNCHANGED loop

\* Both watchers count in one context, which is reset here.
libev_wait_rw_fd_with_watcherMutant(f, s, sides) ==
    /\ backend_await(f, s, [ws[f] EXCEPT !.on = sides, !.aim = "both"])
    /\ UNCHANGED loop

libev_wait_rw_fd_with_watcher(f, s, sides) ==
    /\ backend_await(f, s, [ws[f] EXCEPT !.on = sides, !.aim = "both",
                                         !.ref = Cardinality(sides)])
    /\ UNCHANGED loop

StoppedMutant(f) == [ws[f] EXCEPT !.on = @ \ {"io", "r", "timer", "child", "async"}]
Stopped(f) == [ws[f] EXCEPT !.on = {}]

\* The fiber of an operation runs again: it raises, or does as Next says.
Comes(f, o, p, s, Next(_)) ==
    /\ Resumes(f, o, p)
    /\ Unscheduled(f) /\ UNCHANGED loop
    /\ \/ IS_EXCEPTION(sched[f]) /\ Raise(f, s, Stopped(f))
       \/ ~IS_EXCEPTION(sched[f]) /\ Next(Stopped(f))

\* The loops call again after a wait.
Again(f, o) ==
    Comes(f, o, "wait", fs[f],
          LAMBDA w : GoOn(f, fs[f], io[f]) /\ ws' = [ws EXCEPT ![f] = w])

\* The operations that have not waited when they are done yield once,
NeverWaited(f) == ws[f].aim = "none"

Finishes(f, s, i) ==
    IF NeverWaited(f) THEN backend_snooze(f, s, i)
    ELSE Return(f, Closed(s), ws[f]) /\ UNCHANGED <<sched, loop>>

\* and return then.
FinalSnooze(f, o) ==
    Comes(f, o, "snooze", Closed(fs[f]), LAMBDA w : Return(f, Closed(fs[f]), w))

\* libev_wait_fd, for Backend_wait_io.
libev_wait_fd(f) ==
    \/ Calls(f, "wait_io") /\ libev_wait_fd_with_watcher(f, fs[f], "src")
    \/ Comes(f, "wait_io", "wait", fs[f], LAMBDA w : Return(f, fs[f], w))

\* With a pidfd, which is closed before the exception is raised.
Backend_waitpid(f) ==
    \/ Calls(f, "waitpid") /\ libev_wait_fd_with_watcher(f, [fs[f] EXCEPT !.open = 1], "src")
    \/ Calls(f, "waitpid") /\ Fails(f)
    \/ Comes(f, "waitpid", "wait", Closed(fs[f]), LAMBDA w : Return(f, Closed(fs[f]), w))

----------------------------------------------------------------------------
(* Reading.  A call that succeeds is followed by a snooze, and what it     *)
(* returned is looked at only then.                                        *)

ReadOp(f, o, len, Next(_)) ==
    \/ /\ Calls(f, o) /\ ReadResult(f, len) = EAGAIN
       /\ libev_wait_fd_with_watcher(f, fs[f], "src")
    \/ Calls(f, o) /\ Fails(f)
    \/ /\ Calls(f, o) /\ ReadResult(f, len) >= 0
       /\ backend_snooze(f, [fs[f] EXCEPT !.held = ReadResult(f, len)],
                         Taken(f, ReadResult(f, len)))
    \/ Again(f, o)
    \/ Comes(f, o, "snooze", fs[f], LAMBDA w :
           IF fs[f].held = 0 THEN Return(f, fs[f], w)
           ELSE Next([fs[f] EXCEPT !.total = @ + fs[f].held, !.held = 0]))

\* The next round, or the return.
Round(f, s) == GoOn(f, s, io[f]) /\ UNCHANGED ws
Once(f, s) == Return(f, s, ws[f])

Room(s) == IF s.op = "read_expand" THEN BufLen - (s.total % BufLen) ELSE BufLen - s.total

Backend_read(f) ==
    \/ ReadOp(f, "read", BufLen, LAMBDA s : Once(f, s))
    \/ ReadOp(f, "read_expand", Room(fs[f]), LAMBDA s : Round(f, s))
    \/ ReadOp(f, "read_to_eof", Room(fs[f]),
              LAMBDA s : IF s.total = BufLen THEN Once(f, s) ELSE Round(f, s))

Backend_recvmsg(f) == ReadOp(f, "recvmsg", BufLen, LAMBDA s : Once(f, s))
Backend_read_loop(f) == ReadOp(f, "read_loop", BufLen, LAMBDA s : Round(f, s))
Backend_feed_loop(f) == ReadOp(f, "feed_loop", BufLen, LAMBDA s : Round(f, s))

(* Writing *)

WriteOpMutant(f, o) ==
    \/ /\ Calls(f, o) /\ fs[f].left > 0 /\ WriteResult(f, fs[f].left) = EAGAIN
       /\ libev_wait_fd_with_watcher(f, fs[f], "dest")
    \/ /\ Calls(f, o) /\ fs[f].left > 0 /\ WriteResult(f, fs[f].left) > 0
       /\ GoOn(f, [fs[f] EXCEPT !.left = 0], Given(f, WriteResult(f, fs[f].left)))
       /\ UNCHANGED <<ws, sched, loop>>
    \/ Calls(f, o) /\ fs[f].left = 0 /\ Finishes(f, fs[f], io[f])
    \/ Again(f, o)
    \/ FinalSnooze(f, o)

WriteOp(f, o) ==
    \/ /\ Calls(f, o) /\ fs[f].left > 0 /\ WriteResult(f, fs[f].left) = EAGAIN
       /\ libev_wait_fd_with_watcher(f, fs[f], "dest")
    \/ Calls(f, o) /\ fs[f].left > 0 /\ Fails(f)
    \/ /\ Calls(f, o) /\ fs[f].left > 0 /\ WriteResult(f, fs[f].left) > 0
       /\ LET n == WriteResult(f, fs[f].left)
          IN  GoOn(f, [fs[f] EXCEPT !.left = @ - n], Given(f, n))
       /\ UNCHANGED <<ws, sched, loop>>
    \/ Calls(f, o) /\ fs[f].left = 0 /\ Finishes(f, fs[f], io[f])
    \/ Again(f, o)
    \/ FinalSnooze(f, o)

Backend_write(f) == WriteOp(f, "write")
Backend_writev(f) == WriteOp(f, "writev")
Backend_send(f) == WriteOp(f, "send")
Backend_sendmsg(f) == WriteOp(f, "sendmsg")

----------------------------------------------------------------------------
(* Sockets *)

\* A connection that was accepted is closed if the fiber is to raise.
GivenUpMutant(s) == s
GivenUp(s) == Closed(s)

accept(f, o, Next(_)) ==
    \/ /\ Calls(f, o) /\ io[f].src = 0
       /\ libev_wait_fd_with_watcher(f, fs[f], "src")
    \/ Calls(f, o) /\ Fails(f)
    \/ /\ Calls(f, o) /\ io[f].src > 0
       /\ backend_snooze(f, [fs[f] EXCEPT !.held = 1, !.open = 1], Taken(f, 1))
    \/ Again(f, o)
    \/ Comes(f, o, "snooze", GivenUp(fs[f]),
             LAMBDA w : Next([Closed(fs[f]) EXCEPT !.total = @ + 1, !.held = 0]))

Backend_accept(f) == accept(f, "accept", LAMBDA s : Once(f, s))
Backend_accept_loop(f) == accept(f, "accept_loop", LAMBDA s : Round(f, s))

\* Writable is taken for connected: the result is not asked for.
Backend_connect(f) ==
    \/ Calls(f, "connect") /\ Fails(f)
    \/ Calls(f, "connect") /\ libev_wait_fd_with_watcher(f, fs[f], "dest")
    \/ Calls(f, "connect") /\ backend_snooze(f, fs[f], io[f])
    \/ \E p \in {"wait", "snooze"} :
           Comes(f, "connect", p, fs[f], LAMBDA w : Return(f, fs[f], w))

Backend_close(f) ==
    \/ Calls(f, "close") /\ Fails(f)
    \/ Calls(f, "close") /\ backend_snooze(f, fs[f], io[f])
    \/ Comes(f, "close", "snooze", fs[f], LAMBDA w : Return(f, fs[f], w))

(* Splicing *)

Moved(f, n) == [Given(f, n) EXCEPT !.src = @ - n]

Backend_splice(f) ==
    \E o \in {"splice", "splice_to_eof"} :
        \/ /\ Calls(f, o) /\ SpliceResult(f, BufLen) = EAGAIN
           /\ libev_wait_rw_fd_with_watcher(f, fs[f], {"r", "w"})
        \/ Calls(f, o) /\ Fails(f)
        \/ /\ Calls(f, o) /\ SpliceResult(f, BufLen) >= 0
           /\ LET n == SpliceResult(f, BufLen)
                  s == [fs[f] EXCEPT !.total = @ + n]
              IN  IF n = 0 \/ o = "splice" THEN Finishes(f, s, Moved(f, n))
                  ELSE GoOn(f, s, Moved(f, n)) /\ UNCHANGED <<ws, sched, loop>>
        \/ Again(f, o)
        \/ FinalSnooze(f, o)

Backend_tee(f) ==
    \/ /\ Calls(f, "tee") /\ SpliceResult(f, BufLen) = EAGAIN
       /\ libev_wait_rw_fd_with_watcher(f, fs[f], {"r", "w"})
    \/ Calls(f, "tee") /\ Fails(f)
    \/ /\ Calls(f, "tee") /\ SpliceResult(f, BufLen) >= 0
       /\ Finishes(f, fs[f], Given(f, SpliceResult(f, BufLen)))
    \/ Again(f, "tee")
    \/ FinalSnooze(f, "tee")

\* Backend_splice where there is no splice call: a read, and writes until all
\* of it is written.
copy(f) ==
    \E o \in {"copy", "copy_to_eof"} :
        LET s == fs[f]
            n == IF s.left = 0 THEN ReadResult(f, BufLen) ELSE WriteResult(f, s.left)
        IN  \/ /\ Calls(f, o) /\ n = EAGAIN
               /\ libev_wait_fd_with_watcher(f, s, IF s.left = 0 THEN "src" ELSE "dest")
            \/ Calls(f, o) /\ Fails(f)
            \/ /\ Calls(f, o) /\ s.left = 0 /\ n = 0
               /\ Finishes(f, s, io[f])
            \/ /\ Calls(f, o) /\ s.left = 0 /\ n > 0
               /\ GoOn(f, [s EXCEPT !.total = @ + n, !.left = n], Taken(f, n))
               /\ UNCHANGED <<ws, sched, loop>>
            \/ /\ Calls(f, o) /\ s.left > 0 /\ n > 0
               /\ LET t == [s EXCEPT !.left = @ - n]
                  IN  IF t.left = 0 /\ o = "copy" THEN Finishes(f, t, Given(f, n))
                      ELSE GoOn(f, t, Given(f, n)) /\ UNCHANGED <<ws, sched, loop>>
            \/ Again(f, o)
            \/ FinalSnooze(f, o)

\* splice_chunks: its stages in order, "in" to "cpostfix" for every chunk.
Following ==
    [stage \in {"prefix", "cprefix", "cpostfix"} |-> IF stage = "cprefix" THEN "out" ELSE "in"]

splice_chunks_write(f) ==
    /\ fs[f].stage \in {"prefix", "cprefix", "cpostfix", "postfix"}
    /\ \/ io[f].room = 0 /\ libev_wait_rw_fd_with_watcher(f, fs[f], {"w"})
       \/ /\ io[f].room > 0
          /\ LET i == [Given(f, 1) EXCEPT !.text = @ + 1]
             IN  IF fs[f].stage = "postfix" THEN Finishes(f, [fs[f] EXCEPT !.stage = "end"], i)
                 ELSE /\ GoOn(f, [fs[f] EXCEPT !.stage = Following[@]], i)
                      /\ UNCHANGED <<ws, sched, loop>>

splice_chunks_splice(f) ==
    LET s == fs[f]
        n == IF s.stage = "in" THEN ReadResult(f, BufLen) ELSE WriteResult(f, s.left)
    IN  /\ s.stage \in {"in", "out"}
        /\ \/ n = EAGAIN /\ libev_wait_rw_fd_with_watcher(f, s, {"r", "w"})
           \/ /\ s.stage = "in" /\ n = 0
              /\ GoOn(f, [s EXCEPT !.stage = "postfix"], io[f])
              /\ UNCHANGED <<ws, sched, loop>>
           \/ /\ s.stage = "in" /\ n > 0
              /\ GoOn(f, [s EXCEPT !.stage = "cprefix", !.total = @ + n, !.left = n],
                      [Taken(f, n) EXCEPT !.pipe = n])
              /\ UNCHANGED <<ws, sched, loop>>
           \/ /\ s.stage = "out" /\ n > 0
              /\ GoOn(f, [s EXCEPT !.left = @ - n, !.stage = IF s.left = n THEN "cpostfix" ELSE @],
                      [Given(f, n) EXCEPT !.pipe = @ - n])
              /\ UNCHANGED <<ws, sched, loop>>

Backend_splice_chunks(f) ==
    \/ /\ Calls(f, "splice_chunks") /\ fs[f].stage = "none"
       /\ GoOn(f, [fs[f] EXCEPT !.stage = "prefix", !.open = 2], io[f])
       /\ UNCHANGED <<ws, sched, loop>>
    \/ /\ Calls(f, "splice_chunks")
       /\ Raise(f, Closed(fs[f]), ws[f]) /\ UNCHANGED <<sched, loop>>
    \/ Calls(f, "splice_chunks") /\ splice_chunks_write(f)
    \/ Calls(f, "splice_chunks") /\ splice_chunks_splice(f)
    \/ Comes(f, "splice_chunks", "wait", Closed(fs[f]),
             LAMBDA w : GoOn(f, fs[f], io[f]) /\ ws' = [ws EXCEPT ![f] = w])
    \/ FinalSnooze(f, "splice_chunks")

----------------------------------------------------------------------------
(* Waiting for something else than a descriptor *)

WaitsOn(f, watcher) ==
    backend_await(f, fs[f], [ws[f] EXCEPT !.on = {watcher}]) /\ UNCHANGED <<polling, woken>>

WaitsOnce(f, o, watcher) ==
    \/ Calls(f, o) /\ WaitsOn(f, watcher) /\ UNCHANGED pipe
    \/ Comes(f, o, "wait", fs[f], LAMBDA w : Return(f, fs[f], w))

Backend_sleep(f) == WaitsOnce(f, "sleep", "timer")

\* Backend_waitpid where there are no pidfds.
waitpid_child(f) == WaitsOnce(f, "waitpid_child", "child")

\* Nobody signals the watcher: it keeps the loop from being without any.
Backend_wait_event(f) ==
    \/ Calls(f, "wait_event") /\ WaitsOn(f, "async") /\ pipe' = TRUE
    \/ Comes(f, "wait_event", "wait", fs[f], LAMBDA w : Return(f, fs[f], w))

\* A round sleeps if the next time is still to come, and snoozes if it has
\* passed; the first one sleeps.
Backend_timer_loop(f) ==
    \/ Calls(f, "timer_loop") /\ WaitsOn(f, "timer") /\ UNCHANGED pipe
    \/ Calls(f, "timer_loop") /\ fs[f].total > 0 /\ backend_snooze(f, fs[f], io[f])
    \/ \E p \in {"wait", "snooze"} :
           Comes(f, "timer_loop", p, fs[f], LAMBDA w :
               /\ GoOn(f, [fs[f] EXCEPT !.total = 1], io[f])
               /\ ws' = [ws EXCEPT ![f] = w])

Backend_snooze(f) ==
    \/ Calls(f, "snooze") /\ backend_snooze(f, fs[f], io[f])
    \/ Comes(f, "snooze", "snooze", fs[f], LAMBDA w : Return(f, fs[f], w))

----------------------------------------------------------------------------
(* Entering operations *)

\* The fiber runs, and may begin operation o.
Running(f, o) ==
    /\ cur = f /\ fs[f].pc = "app"
    /\ fs[f].step < Len(OpsOf[f]) /\ o \in OpsOf[f][fs[f].step + 1]

Stepped(f) == [fs[f] EXCEPT !.step = @ + 1]

Start(f) ==
    \E o \in OpNames \ {"timeout", "chain", "chain_invalid", "fork"} :
        /\ Running(f, o)
        /\ fs' = [fs EXCEPT ![f] = Entered(Stepped(f), o)]
        /\ UNCHANGED <<ws, io, sched, cur, loop>>

\* The operations of a chain are performed one after the other; one that is
\* not valid is found out when it is its turn.
Backend_chain(f) ==
    \/ \E second \in {<<"chain", "splice">>, <<"chain_invalid", "invalid">>} :
        /\ Running(f, second[1])
        /\ fs' = [fs EXCEPT ![f] = [Entered(Stepped(f), "write") EXCEPT
                                        !.rest = <<second[2]>>]]
        /\ UNCHANGED <<ws, io, sched, cur, loop>>
    \/ Calls(f, "invalid") /\ Fails(f)

\* The timer of a timeout block resumes the fiber with its exception.
Backend_timeout(f) ==
    /\ Running(f, "timeout") /\ ~fs[f].block
    /\ fs' = [fs EXCEPT ![f] = [Stepped(f) EXCEPT !.block = TRUE]]
    /\ ws' = [ws EXCEPT ![f].timer = "on"]
    /\ UNCHANGED <<io, sched, cur, loop>>

Backend_timeout_ensureMutant(f) ==
    /\ cur = f /\ fs[f].block /\ fs[f].pc \in {"app", "raise"}
    /\ fs' = [fs EXCEPT ![f].block = FALSE, ![f].pc = "app"]
    /\ ws' = [ws EXCEPT ![f].timer = IF fs[f].pc = "raise" THEN "off" ELSE @]
    /\ UNCHANGED <<io, sched, cur, loop>>

Backend_timeout_ensure(f) ==
    /\ cur = f /\ fs[f].block /\ fs[f].pc \in {"app", "raise"}
    /\ fs' = [fs EXCEPT ![f].block = FALSE, ![f].pc = "app"]
    /\ ws' = [ws EXCEPT ![f].timer = "off"]
    /\ UNCHANGED <<io, sched, cur, loop>>

\* The child of a fork, outside of a timeout block: a loop without watchers,
\* the one for wakeups included.  The other fibers are never run again.
Backend_post_fork(f) ==
    /\ Running(f, "fork") /\ ~fs[f].block
    /\ fs' = [g \in Fibers |-> IF g = f THEN Stepped(f) ELSE [NoOp EXCEPT !.pc = "dead"]]
    /\ ws' = [g \in Fibers |-> NoWatchers]
    /\ io' = [g \in Fibers |-> NoIo]
    /\ sched' = [g \in Fibers |-> NoValue]
    /\ woken' = FALSE /\ pipe' = FALSE
    /\ UNCHANGED <<cur, polling>>

Finish(f) ==
    /\ cur = f /\ fs[f].pc = "app" /\ ~fs[f].block
    /\ fs[f].step = Len(OpsOf[f])
    /\ cur' = NoFiber /\ fs' = [fs EXCEPT ![f].pc = "dead"]
    /\ UNCHANGED <<ws, io, sched, loop>>

----------------------------------------------------------------------------
(* The thread between two fibers, and the event loop *)

\* A fiber that was just spun starts to run.
Run(f) ==
    /\ cur = NoFiber /\ ~polling /\ fs[f].pc = "app" /\ sched[f] # NoValue
    /\ cur' = f /\ Unscheduled(f)
    /\ UNCHANGED <<fs, ws, io, loop>>

\* The events that are there.
SrcReady(f) == io[f].src > 0 \/ io[f].eof
DestReady(f) == io[f].room > 0

Ready(f, watcher) ==
    CASE watcher = "io" -> IF ws[f].aim = "src" THEN SrcReady(f) ELSE DestReady(f)
      [] watcher = "r" -> IF fs[f].stage = "out" THEN io[f].pipe > 0 ELSE SrcReady(f)
      [] watcher = "w" -> fs[f].stage = "in" \/ DestReady(f)
      [] watcher = "child" -> io[f].eof
      [] watcher = "timer" -> TRUE
      [] watcher = "async" -> FALSE

\* ev_run calls a watcher back: at a nonblocking poll, or in the blocking one,
\* which returns then.
Polls == cur = NoFiber /\ polling' = FALSE /\ UNCHANGED <<fs, io, cur, woken, pipe>>

Backend_io_callback(f) ==
    /\ "io" \in ws[f].on /\ Ready(f, "io") /\ Polls
    /\ Fiber_make_runnable(f, "nil")
    /\ UNCHANGED ws

\* Two watchers take three callbacks.  Below zero the count does not matter.
Backend_rw_io_callback(f) ==
    \E w \in ws[f].on \cap {"r", "w"} :
        /\ Ready(f, w) /\ Polls
        /\ ws' = [ws EXCEPT ![f].ref = IF @ < 0 THEN @ ELSE @ - 1]
        /\ IF ws[f].ref = 0 THEN Fiber_make_runnable(f, "nil") ELSE UNCHANGED sched

Backend_timer_callback(f) ==
    /\ "timer" \in ws[f].on /\ Polls
    /\ ws' = [ws EXCEPT ![f].on = {}]
    /\ Fiber_make_runnable(f, "nil")

Backend_child_callback(f) ==
    /\ "child" \in ws[f].on /\ Ready(f, "child") /\ Polls
    /\ Fiber_make_runnable(f, "status")
    /\ UNCHANGED ws

Backend_timeout_callback(f) ==
    /\ ws[f].timer = "on" /\ Polls
    /\ ws' = [ws EXCEPT ![f].timer = "fired"]
    /\ Fiber_make_runnable(f, "timeout")

\* A blocking poll: nothing to run, and fibers that wait.
Backend_poll ==
    /\ cur = NoFiber /\ ~polling
    /\ \A f \in Fibers : sched[f] = NoValue
    /\ \E f \in Fibers : fs[f].pc = "wait"
    /\ polling' = TRUE
    /\ UNCHANGED <<fs, ws, io, sched, cur, woken, pipe>>

break_async_callback ==
    /\ polling /\ woken
    /\ polling' = FALSE /\ woken' = FALSE
    /\ UNCHANGED <<fs, ws, io, sched, cur, pipe>>

\* Another fiber or another thread schedules a fiber that waits.  The loop
\* is woken through its evpipe, which the first async watcher makes.
Backend_wakeupMutant(f) == woken' = woken

Backend_wakeup(f) ==
    woken' = (woken \/ (polling /\ pipe /\ sched[f] = NoValue))

Schedule(f) ==
    /\ cur # f /\ fs[f].pc \in {"wait", "snooze"}
    /\ \/ Fiber_make_runnable(f, "exception")
       \/ fs[f].op \in WokenEarly /\ Fiber_make_runnable(f, "value")
    /\ Backend_wakeup(f)
    /\ UNCHANGED <<fs, ws, io, cur, polling, pipe>>

\* The peers of a fiber's descriptors send, close or exit, and take.
Blocks(f) == fs[f].pc \in {"call", "wait"}

PeerSends(f) ==
    /\ Blocks(f) /\ fs[f].op \in ReadOps \cup SpliceOps \cup {"tee", "accept", "accept_loop"}
    /\ ~io[f].eof /\ io[f].in < MaxIn
    /\ io' = [io EXCEPT ![f].src = @ + 1, ![f].in = @ + 1]
    /\ UNCHANGED <<fs, ws, sched, cur, loop>>

PeerEnds(f) ==
    /\ Blocks(f) /\ ~io[f].eof
    /\ fs[f].op \in ReadOps \cup SpliceOps \cup {"tee", "wait_io", "waitpid", "waitpid_child"}
    /\ io' = [io EXCEPT ![f].eof = TRUE]
    /\ UNCHANGED <<fs, ws, sched, cur, loop>>

PeerTakes(f) ==
    /\ Blocks(f) /\ fs[f].op \in WriteOps \cup SpliceOps \cup {"tee", "connect"}
    /\ io[f].room + io[f].out < MaxOut
    /\ io' = [io EXCEPT ![f].room = @ + 1]
    /\ UNCHANGED <<fs, ws, sched, cur, loop>>

Callback(f) ==
    \/ Backend_io_callback(f) \/ Backend_rw_io_callback(f) \/ Backend_timer_callback(f)
    \/ Backend_child_callback(f) \/ Backend_timeout_callback(f)

Operation(f) ==
    \/ Backend_read(f) \/ Backend_recvmsg(f) \/ Backend_read_loop(f) \/ Backend_feed_loop(f)
    \/ Backend_write(f) \/ Backend_writev(f) \/ Backend_send(f) \/ Backend_sendmsg(f)
    \/ Backend_accept(f) \/ Backend_accept_loop(f) \/ Backend_connect(f) \/ Backend_close(f)
    \/ Backend_splice(f) \/ Backend_tee(f) \/ copy(f) \/ Backend_splice_chunks(f)
    \/ libev_wait_fd(f) \/ Backend_waitpid(f) \/ waitpid_child(f) \/ Backend_wait_event(f)
    \/ Backend_sleep(f) \/ Backend_timer_loop(f) \/ Backend_snooze(f) \/ Backend_chain(f)
    \/ Backend_timeout_ensure(f) \/ Run(f)

Next ==
    \/ Backend_poll \/ break_async_callback
    \/ \E f \in Fibers :
        \/ Operation(f) \/ Callback(f) \/ Start(f) \/ Backend_timeout(f)
        \/ Backend_post_fork(f) \/ Finish(f) \/ Schedule(f)
        \/ PeerSends(f) \/ PeerEnds(f) \/ PeerTakes(f)

Spec == Init /\ [][Next]_vars

----------------------------------------------------------------------------
(* What the backend promises *)

\* Types; and a buffer that cannot grow holds no more than its length.
TypeOK ==
    /\ sched \in [Fibers -> Values \cup {NoValue}]
    /\ cur \in Fibers \cup {NoFiber}
    /\ {polling, woken, pipe} \subseteq BOOLEAN
    /\ \A f \in Fibers :
        /\ fs[f].pc \in {"app", "call", "wait", "snooze", "raise", "dead"}
        /\ fs[f].left \in 0..BufLen /\ fs[f].held \in 0..BufLen /\ fs[f].total \in 0..MaxIn
        /\ fs[f].op \in {"read", "read_to_eof", "recvmsg"} => fs[f].total + fs[f].held <= BufLen
        /\ ws[f].on \in SUBSET {"io", "r", "w", "timer", "child", "async"}
        /\ ws[f].ref \in -1..2 /\ ws[f].timer \in {"off", "on", "fired"}
        /\ io[f].src \in 0..MaxIn /\ io[f].room \in 0..MaxOut /\ io[f].pipe \in 0..BufLen

\* The loop never has a watcher whose C function has returned: it is on the
\* stack of a fiber that is switched out in the function that started it,
\* or in a timeout block that has not ended.
WatchersDoNotOutlive ==
    \A f \in Fibers :
        /\ ws[f].on # {} => fs[f].pc = "wait"
        /\ ws[f].timer = "on" => fs[f].block

\* Every byte is counted once, also when calls fall short and fibers are
\* woken for nothing: what the operation has counted and what is under way
\* in it is what the kernel has moved.
TransferAccounted ==
    \A f \in Fibers :
        LET s == fs[f]
            i == io[f]
        IN  /\ s.op \in ReadOps \cup {"accept", "accept_loop"} =>
                   i.in = i.src + s.total + s.held
            /\ s.op \in WriteOps => i.out = BufLen - s.left
            /\ s.op \in SpliceOps => i.in = i.src + s.total /\ i.out = s.total - s.left + i.text
            /\ s.op = "splice_chunks" /\ s.stage \notin {"none", "end"} => i.pipe = s.left

\* An operation that is over has closed the descriptors it opened, or has
\* given them away, however it ended.
DescriptorsClosed ==
    \A f \in Fibers : fs[f].pc \in {"app", "raise", "dead"} => fs[f].open = 0

\* The exception of a timeout block reaches the fiber only while it is in the
\* block, and once the timer has fired, it or an exception that displaced it is
\* on its way or is being raised.
TimeoutIsExact ==
    \A f \in Fibers :
        /\ sched[f] = "timeout" => fs[f].block
        /\ ws[f].timer = "fired" => fs[f].pc = "raise" \/ IS_EXCEPTION(sched[f])

\* The thread does not stay in a blocking poll when another thread gives it
\* a fiber to run.  After a fork that is not so until a fiber waits for an
\* event: the loop has no evpipe.
NoStuckPoll ==
    polling /\ pipe /\ (\E f \in Fibers : sched[f] # NoValue) => woken

\* A fiber that waits and is not scheduled has a watcher, and if what it
\* waits for is there, the watcher will make it runnable: it is called back
\* for that, and the count of a pair of watchers has not passed zero.  The
\* copy is the exception: once it has waited for its source or for its
\* destination, it never waits for the other one.
Misaimed(f) ==
    /\ fs[f].op \in {"copy", "copy_to_eof"}
    /\ ws[f].aim # IF fs[f].left = 0 THEN "src" ELSE "dest"

NeedIsMet(f) ==
    CASE fs[f].op \in ReadOps \cup {"accept", "accept_loop"} -> SrcReady(f)
      [] fs[f].op \in WriteOps \cup {"connect"} -> DestReady(f)
      [] fs[f].op \in {"waitpid", "waitpid_child"} -> io[f].eof
      [] fs[f].op \in {"splice", "splice_to_eof", "tee"} -> SpliceResult(f, BufLen) # EAGAIN
      [] fs[f].op \in {"copy", "copy_to_eof"} ->
            IF fs[f].left = 0 THEN SrcReady(f) ELSE DestReady(f)
      [] fs[f].op = "splice_chunks" ->
            IF fs[f].stage = "in" THEN SrcReady(f) ELSE DestReady(f)
      [] OTHER -> FALSE

NobodyForgotten ==
    \A f \in Fibers :
        fs[f].pc = "wait" /\ sched[f] = NoValue =>
            /\ ws[f].on # {}
            /\ ws[f].aim = "both" => ws[f].ref >= 0
            /\ NeedIsMet(f) => Misaimed(f) \/ \E w \in ws[f].on : Ready(f, w)

\* The state is typed, no buffer overflows and no watcher outlives its function.
WellFormed == TypeOK /\ WatchersDoNotOutlive
=============================================================================
