------------------------- MODULE UringBackendProofs -------------------------
(***************************************************************************)
(* What the functions of the io_uring backend do to a backend, for every   *)
(* number of fibers and contexts: the lemmas about the calls that the      *)
(* operations of UringOps compose.                                         *)
(*                                                                         *)
(* A context is seen through four things: its record, the chain of its     *)
(* requests that the kernel has or will get (ReqsOf), whether a            *)
(* cancellation was made for it (Doomed), and its completions.  Submitting *)
(* moves chains from the submission queue to the kernel and changes none   *)
(* of them.                                                                *)
(*                                                                         *)
(* The last part is about what is left alone: a call about one context or  *)
(* one fiber keeps what there is to say of the others (Untouched, Quiet,   *)
(* SameUring, Alike), and the step of a completion changes only its own    *)
(* context (HandleCounted, ResultStep, Spared).                            *)
(***************************************************************************)
EXTENDS UringBackend, DequeProofs, FiniteSetTheorems, SequenceTheorems, TLAPS

\* The types of a backend at rest: no entry of the submission queue is open.
Kinds == {"READ", "RECV", "RECVMSG", "SPLICE", "DRAIN", "WRITE", "WRITEV", "SEND",
          "SENDMSG", "CONNECT", "CLOSE", "ACCEPT", "MULTISHOT_ACCEPT", "POLL", "CHUNK",
          "TIMEOUT", "EVENT"}
Lengths == {n \in Int : n <= BufLen}
Outcomes == ECANCELED .. BufLen
Counts == 0 .. MaxContexts
Requests == [kind : Kinds, len : Lengths]
Types == Kinds \cup {"NONE", "CHAIN"}
Attachments == {"none", "attached", "rejected"}
ContextRecords == [type : Types, fiber : Fibers \cup {NoFiber}, ref : Nat,
                   result : Outcomes, resume : Values, buffers : Attachments]
Entries == [ctx : Contexts, reqs : Seq(Requests), open : {FALSE}]
Chains == [ctx : Contexts, reqs : Seq(Requests) \ {<<>>}, cancelled : BOOLEAN]
Completions == [ctx : Contexts, res : Outcomes, more : BOOLEAN]
AcceptQueues == [fds : Seq(Int), waiters : Seq(Fibers)]

Backends ==
    [ctx : [Contexts -> ContextRecords], avail : Seq(Contexts), made : Counts,
     sq : Seq(Entries), pending : Nat, kern : SUBSET Chains, cq : Seq(Completions),
     sched : [Fibers -> Values \cup {NoValue}], event : Contexts \cup {NoCtx},
     acceptq : Fibers \cup {NoFiber}, queues : [Fibers -> AcceptQueues]]

\* The chain of context c: in the submission queue, or in the kernel.
Queued(b, c) == {i \in DOMAIN b.sq : b.sq[i].ctx = c /\ b.sq[i].reqs # <<>>}
Working(b, c) == {r \in b.kern : r.ctx = c}

OneChain(b) ==
    \A c \in Contexts :
        /\ \A i, j \in Queued(b, c) : i = j
        /\ \A r, s \in Working(b, c) : r = s
        /\ Queued(b, c) = {} \/ Working(b, c) = {}

\* The requests of that chain, none if there is no chain.
IsReqs(b, c, q) ==
    \/ \E i \in Queued(b, c) : q = b.sq[i].reqs
    \/ \E r \in Working(b, c) : q = r.reqs
    \/ q = <<>> /\ Queued(b, c) = {} /\ Working(b, c) = {}
ReqsOf(b, c) == CHOOSE q \in Seq(Requests) : IsReqs(b, c, q)

\* A cancellation was prepared for c, or has reached its chain.
Asked(b, c) == \E i \in DOMAIN b.sq : b.sq[i].ctx = c /\ b.sq[i].reqs = <<>>
Stopped(b, c) == \E r \in Working(b, c) : r.cancelled
Doomed(b, c) == Asked(b, c) \/ Stopped(b, c)

LEMMA BackendFields ==
  ASSUME NEW b \in Backends
  PROVE  /\ b.ctx \in [Contexts -> ContextRecords] /\ b.avail \in Seq(Contexts)
         /\ b.made \in Counts /\ b.sq \in Seq(Entries) /\ b.pending \in Nat
         /\ b.kern \in SUBSET Chains /\ b.cq \in Seq(Completions)
         /\ b.sched \in [Fibers -> Values \cup {NoValue}]
         /\ b.event \in Contexts \cup {NoCtx} /\ b.acceptq \in Fibers \cup {NoFiber}
         /\ b.queues \in [Fibers -> AcceptQueues]
  BY DEF Backends

LEMMA EntryFields ==
  ASSUME NEW b \in Backends, NEW i \in DOMAIN b.sq
  PROVE  /\ b.sq[i] \in Entries /\ b.sq[i].ctx \in Contexts
         /\ b.sq[i].reqs \in Seq(Requests) /\ b.sq[i].open = FALSE
<1>1. b.sq \in Seq(Entries)
  BY BackendFields, Zenon
<1>2. b.sq[i] \in Entries
  BY <1>1
<1>3. QED
  BY <1>2 DEF Entries

LEMMA ChainFields ==
  ASSUME NEW b \in Backends, NEW r \in b.kern
  PROVE  /\ r \in Chains /\ r.ctx \in Contexts /\ r.reqs \in Seq(Requests)
         /\ r.reqs # <<>> /\ r.cancelled \in BOOLEAN
<1>1. r \in Chains
  BY BackendFields, Zenon
<1>2. QED
  BY <1>1 DEF Chains

LEMMA ContextFields ==
  ASSUME NEW b \in Backends, NEW c \in Contexts
  PROVE  /\ b.ctx[c] \in ContextRecords /\ b.ctx[c].ref \in Nat
         /\ b.ctx[c].fiber \in Fibers \cup {NoFiber} /\ b.ctx[c].result \in Outcomes
         /\ b.ctx[c].resume \in Values /\ b.ctx[c].buffers \in Attachments
<1>1. b.ctx \in [Contexts -> ContextRecords]
  BY BackendFields, Zenon
<1>2. b.ctx[c] \in ContextRecords
  BY <1>1, Zenon
<1>3. QED
  BY <1>2 DEF ContextRecords

LEMMA CompletionFields ==
  ASSUME NEW b \in Backends, NEW i \in DOMAIN b.cq
  PROVE  /\ b.cq[i] \in Completions /\ b.cq[i].ctx \in Contexts
         /\ b.cq[i].res \in Outcomes /\ b.cq[i].more \in BOOLEAN
<1>1. b.cq \in Seq(Completions)
  BY BackendFields, Zenon
<1>2. b.cq[i] \in Completions
  BY <1>1
<1>3. QED
  BY <1>2 DEF Completions

\* With one chain at most, the requests are determined.
LEMMA ReqsDetermined ==
  ASSUME NEW b \in Backends, OneChain(b), NEW c \in Contexts
  PROVE  /\ ReqsOf(b, c) \in Seq(Requests) /\ IsReqs(b, c, ReqsOf(b, c))
         /\ \A q : IsReqs(b, c, q) => q = ReqsOf(b, c)
<1>1. \A i \in Queued(b, c) : b.sq[i].reqs \in Seq(Requests)
  BY EntryFields, Zenon DEF Queued
<1>2. \A r \in Working(b, c) : r.reqs \in Seq(Requests)
  BY ChainFields, Zenon DEF Working
<1>3. <<>> \in Seq(Requests)
  OBVIOUS
<1>4. \E q \in Seq(Requests) : IsReqs(b, c, q)
  BY <1>1, <1>2, <1>3, Zenon DEF IsReqs
<1>5. \A p, q : IsReqs(b, c, p) /\ IsReqs(b, c, q) => p = q
  BY Zenon DEF IsReqs, OneChain
<1>6. QED
  BY <1>4, <1>5, Zenon DEF ReqsOf

\* What the functions that work on contexts and requests leave alone.
SameRest(b, b2) ==
    /\ b2.cq = b.cq /\ b2.sched = b.sched /\ b2.acceptq = b.acceptq /\ b2.queues = b.queues

\* Nothing that is known of context c is different.
SameAsked(b, b2, c) ==
    /\ Asked(b2, c) => Asked(b, c)
    /\ Asked(b2, c) /\ Stopped(b2, c) => Stopped(b, c)
SameChain(b, b2, c) ==
    /\ ReqsOf(b2, c) = ReqsOf(b, c)
    /\ Doomed(b2, c) => Doomed(b, c)
    /\ SameAsked(b, b2, c)

\* io_uring_submit moves every chain to the kernel.
LEMMA Submitted ==
  ASSUME NEW b \in Backends, OneChain(b), NEW b2, b2 = io_uring_submit(b)
  PROVE  /\ b2 \in Backends /\ OneChain(b2) /\ SameRest(b, b2)
         /\ b2.sq = <<>> /\ b2.ctx = b.ctx /\ b2.avail = b.avail /\ b2.made = b.made
         /\ b2.pending = b.pending /\ b2.event = b.event
         /\ \A c \in Contexts : SameChain(b, b2, c)
<1> DEFINE Cut(c, i) == \E j \in (i + 1) .. Len(b.sq) : b.sq[j] = Cancellation(c)
           Old(r) == [r EXCEPT !.cancelled = @ \/ Cut(r.ctx, 0)]
           Sent(i) == [ctx |-> b.sq[i].ctx, reqs |-> b.sq[i].reqs,
                       cancelled |-> Cut(b.sq[i].ctx, i)]
           Ix == {j \in DOMAIN b.sq : b.sq[j].reqs # <<>>}
           kern2 == {Old(r) : r \in b.kern} \cup {Sent(i) : i \in Ix}
<1>1. b2 = [b EXCEPT !.sq = <<>>, !.kern = kern2]
  BY DEF io_uring_submit
<1>2. ASSUME NEW r \in b.kern
      PROVE  /\ Old(r) \in Chains /\ Old(r).ctx = r.ctx /\ Old(r).reqs = r.reqs
             /\ Old(r).cancelled = (r.cancelled \/ Cut(r.ctx, 0))
  <2>1. r \in Chains
    BY ChainFields, Zenon
  <2>2. Cut(r.ctx, 0) \in BOOLEAN
    OBVIOUS
  <2> HIDE DEF Cut
  <2>3. QED
    BY <2>1, <2>2 DEF Chains
<1>3. ASSUME NEW i \in Ix
      PROVE  /\ Sent(i) \in Chains /\ Sent(i).ctx = b.sq[i].ctx /\ Sent(i).reqs = b.sq[i].reqs
             /\ Sent(i).cancelled = Cut(b.sq[i].ctx, i)
  <2>1. b.sq[i].ctx \in Contexts /\ b.sq[i].reqs \in Seq(Requests) /\ b.sq[i].reqs # <<>>
    BY EntryFields, Zenon
  <2>2. Cut(b.sq[i].ctx, i) \in BOOLEAN
    OBVIOUS
  <2> HIDE DEF Cut
  <2>3. QED
    BY <2>1, <2>2 DEF Chains
<1>4. kern2 \in SUBSET Chains
  <2> HIDE DEF Old, Sent, Ix
  <2>1. QED
    BY <1>2, <1>3, Zenon
<1>5. /\ b2 \in Backends /\ b2.kern = kern2 /\ SameRest(b, b2)
      /\ b2.sq = <<>> /\ b2.ctx = b.ctx /\ b2.avail = b.avail /\ b2.made = b.made
      /\ b2.pending = b.pending /\ b2.event = b.event
  <2> HIDE DEF kern2
  <2>1. /\ b2.kern = kern2 /\ b2.sq = <<>> /\ b2.ctx = b.ctx /\ b2.avail = b.avail
        /\ b2.made = b.made /\ b2.pending = b.pending /\ b2.event = b.event
        /\ b2.cq = b.cq /\ b2.sched = b.sched /\ b2.acceptq = b.acceptq /\ b2.queues = b.queues
    BY <1>1 DEF Backends
  <2>2. b2 = [ctx |-> b.ctx, avail |-> b.avail, made |-> b.made, sq |-> <<>>,
              pending |-> b.pending, kern |-> kern2, cq |-> b.cq, sched |-> b.sched,
              event |-> b.event, acceptq |-> b.acceptq, queues |-> b.queues]
    BY <1>1 DEF Backends
  <2>3. <<>> \in Seq(Entries)
    OBVIOUS
  <2>4. b2 \in Backends
    <3>1. /\ b.ctx \in [Contexts -> ContextRecords] /\ b.avail \in Seq(Contexts)
          /\ b.made \in Counts /\ b.pending \in Nat /\ b.cq \in Seq(Completions)
          /\ b.sched \in [Fibers -> Values \cup {NoValue}]
          /\ b.event \in Contexts \cup {NoCtx} /\ b.acceptq \in Fibers \cup {NoFiber}
          /\ b.queues \in [Fibers -> AcceptQueues]
      BY BackendFields, Zenon
    <3>2. QED
      BY <2>2, <2>3, <1>4, <3>1, SMT DEF Backends
  <2>5. QED
    BY <2>1, <2>4 DEF SameRest
<1>6. \A c \in Contexts : Queued(b2, c) = {}
  BY <1>5 DEF Queued
<1>7. ASSUME NEW c \in Contexts
      PROVE  \A x : x \in Working(b2, c) <=> \/ \E r \in Working(b, c) : x = Old(r)
                                             \/ \E i \in Queued(b, c) : x = Sent(i)
  <2>1. \A i : i \in Queued(b, c) <=> i \in Ix /\ b.sq[i].ctx = c
    BY Zenon DEF Queued
  <2>2. \A x : x \in b2.kern <=> \/ \E r \in b.kern : x = Old(r)
                                 \/ \E i \in Ix : x = Sent(i)
    <3> HIDE DEF Old, Sent, Ix
    <3>1. QED
      BY <1>5, Zenon
  <2> HIDE DEF Old, Sent, Ix
  <2>3. QED
    BY <2>2, <1>2, <1>3, <2>1, Zenon DEF Working
<1>8. OneChain(b2)
  <2> SUFFICES ASSUME NEW c \in Contexts
               PROVE  \A r, s \in Working(b2, c) : r = s
    BY <1>6, Zenon DEF OneChain
  <2>1. /\ \A i, j \in Queued(b, c) : i = j
        /\ \A r, s \in Working(b, c) : r = s
        /\ Queued(b, c) = {} \/ Working(b, c) = {}
    BY Zenon DEF OneChain
  <2> HIDE DEF Old, Sent, Ix
  <2>2. CASE Queued(b, c) = {}
    <3>1. \A x \in Working(b2, c) : \E r \in Working(b, c) : x = Old(r)
      BY <1>7, <2>2, Zenon
    <3>2. QED
      BY <3>1, <2>1, Zenon
  <2>3. CASE Working(b, c) = {}
    <3>1. \A x \in Working(b2, c) : \E i \in Queued(b, c) : x = Sent(i)
      BY <1>7, <2>3, Zenon
    <3>2. QED
      BY <3>1, <2>1, Zenon
  <2>4. QED
    BY <2>1, <2>2, <2>3
<1>9. ASSUME NEW c \in Contexts
      PROVE  SameChain(b, b2, c)
  <2>1. \A i \in Queued(b, c) : i \in Ix
    BY Zenon DEF Queued
  <2>2. \A r \in Working(b, c) : r \in b.kern
    BY Zenon DEF Working
  <2>3. IsReqs(b2, c, ReqsOf(b, c))
    <3>1. IsReqs(b, c, ReqsOf(b, c))
      BY ReqsDetermined, Zenon
    <3> DEFINE q == ReqsOf(b, c)
    <3> HIDE DEF q
    <3>2. IsReqs(b, c, q) => IsReqs(b2, c, q)
      <4>1. CASE \E i \in Queued(b, c) : q = b.sq[i].reqs
        <5>1. PICK i \in Queued(b, c) : q = b.sq[i].reqs
          BY <4>1
        <5>2. Sent(i) \in Working(b2, c) /\ q = Sent(i).reqs
          <6> HIDE DEF Old, Sent, Ix
          <6>1. QED
            BY <5>1, <1>7, <1>3, <2>1, Zenon
        <5>3. QED
          BY <5>2, Zenon DEF IsReqs
      <4>2. CASE \E r \in Working(b, c) : q = r.reqs
        <5>1. PICK r \in Working(b, c) : q = r.reqs
          BY <4>2
        <5>2. Old(r) \in Working(b2, c) /\ q = Old(r).reqs
          <6> HIDE DEF Old, Sent, Ix
          <6>1. QED
            BY <5>1, <1>7, <1>2, <2>2, Zenon
        <5>3. QED
          BY <5>2, Zenon DEF IsReqs
      <4>3. CASE q = <<>> /\ Queued(b, c) = {} /\ Working(b, c) = {}
        <5>1. Working(b2, c) = {}
          <6> HIDE DEF Old, Sent, Ix
          <6>1. QED
            BY <4>3, <1>7, Zenon
        <5>2. QED
          BY <5>1, <4>3, <1>6, Zenon DEF IsReqs
      <4>4. QED
        BY <4>1, <4>2, <4>3, Zenon DEF IsReqs
    <3>3. QED
      BY <3>1, <3>2, Zenon DEF q
  <2>4. ReqsOf(b2, c) = ReqsOf(b, c)
    BY <2>3, <1>5, <1>8, ReqsDetermined, Zenon
  <2>5. ASSUME Doomed(b2, c)
        PROVE  Doomed(b, c)
    <3>1. \E r \in Working(b2, c) : r.cancelled
      BY <2>5, <1>5 DEF Doomed, Asked, Stopped
    <3>2. ASSUME NEW i \in Int, Cut(c, i), i >= 0
          PROVE  Doomed(b, c)
      <4>1. PICK j \in (i + 1) .. Len(b.sq) : b.sq[j] = Cancellation(c)
        BY <3>2
      <4>2. b.sq \in Seq(Entries)
        BY BackendFields, Zenon
      <4>3. j \in DOMAIN b.sq /\ b.sq[j].ctx = c /\ b.sq[j].reqs = <<>>
        BY <4>1, <4>2, <3>2 DEF Cancellation, Chain
      <4>4. QED
        BY <4>3, Zenon DEF Doomed, Asked, Stopped
    <3>3. CASE \E r \in Working(b, c) : Old(r).cancelled
      <4>1. PICK r \in Working(b, c) : Old(r).cancelled
        BY <3>3
      <4>2. r.cancelled \/ Cut(c, 0)
        <5>1. r.ctx = c
          BY Zenon DEF Working
        <5>2. Old(r).cancelled = (r.cancelled \/ Cut(r.ctx, 0))
          BY <2>2, <1>2
        <5> HIDE DEF Old, Cut
        <5>3. QED
          BY <5>1, <5>2, <4>1
      <4> HIDE DEF Cut
      <4>3. QED
        BY <4>2, <3>2 DEF Doomed, Asked, Stopped
    <3>4. CASE \E i \in Queued(b, c) : Sent(i).cancelled
      <4>1. PICK i \in Queued(b, c) : Sent(i).cancelled
        BY <3>4
      <4>2. b.sq[i].ctx = c /\ Sent(i).cancelled = Cut(b.sq[i].ctx, i)
        BY <2>1, <1>3 DEF Queued
      <4>3. Cut(c, i)
        <5> HIDE DEF Sent, Cut
        <5>1. QED
          BY <4>1, <4>2
      <4>4. i \in Int /\ i >= 0
        <5>1. b.sq \in Seq(Entries)
          BY BackendFields, Zenon
        <5>2. QED
          BY <5>1 DEF Queued
      <4>5. QED
        BY <4>3, <4>4, <3>2
    <3>5. QED
      <4> HIDE DEF Old, Sent
      <4>1. QED
        BY <3>1, <1>7, <3>3, <3>4, Zenon
  <2>6. ~Asked(b2, c)
    BY <1>5 DEF Asked
  <2>7. QED
    BY <2>4, <2>5, <2>6 DEF SameChain, SameAsked
<1>10. QED
  BY <1>5, <1>8, <1>9

\* The chains depend on the submission queue and on the kernel only.
LEMMA ChainsKept ==
  ASSUME NEW b \in Backends, OneChain(b), NEW b2 \in Backends,
         b2.sq = b.sq, b2.kern = b.kern
  PROVE  OneChain(b2) /\ \A c \in Contexts : SameChain(b, b2, c)
<1>1. \A c : Queued(b2, c) = Queued(b, c) /\ Working(b2, c) = Working(b, c)
  BY DEF Queued, Working
<1>2. OneChain(b2)
  BY <1>1 DEF OneChain
<1>3. ASSUME NEW c \in Contexts
      PROVE  SameChain(b, b2, c)
  <2>1. IsReqs(b, c, ReqsOf(b, c))
    BY ReqsDetermined, Zenon
  <2> DEFINE q == ReqsOf(b, c)
  <2> HIDE DEF q
  <2>2. IsReqs(b, c, q) => IsReqs(b2, c, q)
    BY <1>1 DEF IsReqs
  <2>3. IsReqs(b2, c, ReqsOf(b, c))
    BY <2>1, <2>2, Zenon DEF q
  <2>4. ReqsOf(b2, c) = ReqsOf(b, c)
    BY <2>3, <1>2, ReqsDetermined, Zenon
  <2>5. Doomed(b2, c) => Doomed(b, c)
    BY <1>1 DEF Doomed, Asked, Stopped
  <2>6. SameAsked(b, b2, c)
    BY <1>1 DEF SameAsked, Asked, Stopped
  <2>7. QED
    BY <2>4, <2>5, <2>6 DEF SameChain
<1>4. QED
  BY <1>2, <1>3

\* A record with the fields of a backend.
Shaped(b) ==
    b = [ctx |-> b.ctx, avail |-> b.avail, made |-> b.made, sq |-> b.sq,
         pending |-> b.pending, kern |-> b.kern, cq |-> b.cq, sched |-> b.sched,
         event |-> b.event, acceptq |-> b.acceptq, queues |-> b.queues]

LEMMA Rebuilt ==
  ASSUME NEW b, Shaped(b),
         b.ctx \in [Contexts -> ContextRecords], b.avail \in Seq(Contexts),
         b.made \in Counts, b.sq \in Seq(Entries), b.pending \in Nat,
         b.kern \in SUBSET Chains, b.cq \in Seq(Completions),
         b.sched \in [Fibers -> Values \cup {NoValue}],
         b.event \in Contexts \cup {NoCtx}, b.acceptq \in Fibers \cup {NoFiber},
         b.queues \in [Fibers -> AcceptQueues]
  PROVE  b \in Backends
  BY SMT DEF Backends, Shaped

LEMMA ShapedBackend ==
  ASSUME NEW b \in Backends
  PROVE  Shaped(b)
  BY DEF Backends, Shaped

\* A backend with other contexts, and another store that holds them.
LEMMA WithContexts ==
  ASSUME NEW b \in Backends, OneChain(b), NEW b2, Shaped(b2), SameRest(b, b2),
         b2.sq = b.sq, b2.kern = b.kern, b2.pending \in Nat,
         b2.ctx \in [Contexts -> ContextRecords],
         b2.avail \in Seq(Contexts), b2.made \in Counts, b2.event \in Contexts \cup {NoCtx}
  PROVE  b2 \in Backends /\ OneChain(b2) /\ \A c \in Contexts : SameChain(b, b2, c)
<1>1. /\ b.sq \in Seq(Entries) /\ b.kern \in SUBSET Chains /\ b.pending \in Nat
      /\ b.cq \in Seq(Completions) /\ b.sched \in [Fibers -> Values \cup {NoValue}]
      /\ b.acceptq \in Fibers \cup {NoFiber} /\ b.queues \in [Fibers -> AcceptQueues]
  BY BackendFields, Zenon
<1>2. b2 \in Backends
  BY <1>1, SMT DEF Backends, Shaped, SameRest
<1>3. QED
  BY <1>2, ChainsKept, Zenon

\* The store: a context is free when it has no reference, and is in the store
\* once.
Free(b, c) == c > b.made \/ \E i \in DOMAIN b.avail : b.avail[i] = c
StoreOK(b) ==
    /\ \A i, j \in DOMAIN b.avail : b.avail[i] = b.avail[j] => i = j
    /\ \A i \in DOMAIN b.avail : b.avail[i] <= b.made
    /\ \A c \in Contexts : b.ctx[c].ref = 0 <=> Free(b, c)
Wf(b) == b \in Backends /\ OneChain(b) /\ StoreOK(b)

Freed == [NewContext("NONE", NoFiber) EXCEPT !.ref = 0]

LEMMA NewContextType ==
  /\ Freed \in ContextRecords /\ Freed.ref = 0
  /\ \A t \in Types, f \in Fibers : NewContext(t, f) \in ContextRecords
<1>1. 0 \in Outcomes /\ "nil" \in Values
  BY BackendAssumption DEF Outcomes, ECANCELED, Values
<1>2. "NONE" \in Types
  BY DEF Types
<1>3. ASSUME NEW t \in Types, NEW f \in Fibers \cup {NoFiber}
      PROVE  NewContext(t, f) \in ContextRecords
  BY <1>1 DEF NewContext, ContextRecords, Attachments
<1>4. Freed \in ContextRecords /\ Freed.ref = 0
  <2> DEFINE y == NewContext("NONE", NoFiber)
  <2>1. y \in ContextRecords
    BY <1>2, <1>3
  <2> HIDE DEF y
  <2>2. [y EXCEPT !.ref = 0] \in ContextRecords /\ [y EXCEPT !.ref = 0].ref = 0
    BY <2>1 DEF ContextRecords
  <2>3. QED
    BY <2>2 DEF Freed, y
<1>5. QED
  BY <1>3, <1>4

\* What releasing a reference to c, and acquiring c, leave alone.
OthersKept(b, b2, c) ==
    /\ SameRest(b, b2) /\ \A d \in Contexts : d # c => b2.ctx[d] = b.ctx[d]

\* The record of a context with another reference count.
LEMMA Recounted ==
  ASSUME NEW x \in ContextRecords, NEW n \in Nat, NEW y, y = [x EXCEPT !.ref = n]
  PROVE  /\ y \in ContextRecords /\ y.ref = n /\ y.fiber = x.fiber /\ y.type = x.type
         /\ y.result = x.result /\ y.resume = x.resume /\ y.buffers = x.buffers
  BY DEF ContextRecords

\* context_store_release gives the context back with the last reference.
LEMMA Released ==
  ASSUME NEW b, Wf(b), NEW c \in Contexts, b.ctx[c].ref # 0,
         NEW b2, b2 = context_store_release(b, c)
  PROVE  /\ Wf(b2) /\ OthersKept(b, b2, c) /\ b2.event = b.event /\ b2.made = b.made
         /\ b2.sq = b.sq /\ b2.pending = b.pending
         /\ \A d \in Contexts : SameChain(b, b2, d)
         /\ LastReference(b.ctx[c]) => b2.ctx[c] = Freed
         /\ ~LastReference(b.ctx[c]) =>
               /\ b2.ctx[c].ref = b.ctx[c].ref - 1 /\ b2.ctx[c].ref # 0
               /\ b2.ctx[c].fiber = b.ctx[c].fiber /\ b2.ctx[c].type = b.ctx[c].type
               /\ b2.ctx[c].result = b.ctx[c].result /\ b2.ctx[c].resume = b.ctx[c].resume
               /\ b2.ctx[c].buffers = b.ctx[c].buffers
<1>1. b \in Backends /\ OneChain(b) /\ StoreOK(b)
  BY DEF Wf
<1>2. /\ b.ctx \in [Contexts -> ContextRecords] /\ b.avail \in Seq(Contexts)
      /\ b.made \in Counts /\ b.event \in Contexts \cup {NoCtx}
  BY <1>1, BackendFields, Zenon
<1>3. ~Free(b, c)
  BY <1>1 DEF StoreOK
<1>4. CASE LastReference(b.ctx[c])
  <2> DEFINE x == [b.ctx EXCEPT ![c] = Freed]
             av == <<c>> \o b.avail
  <2>1. x \in [Contexts -> ContextRecords]
    <3>1. Freed \in ContextRecords
      BY NewContextType, Zenon
    <3> HIDE DEF Freed
    <3>2. QED
      BY <3>1, <1>2
  <2>2. av \in Seq(Contexts)
    BY <1>2
  <2>3. b2 = [b EXCEPT !.ctx[c] = Freed, !.avail = av]
    BY <1>4, Zenon DEF context_store_release, Freed
  <2>4. /\ b2 \in Backends /\ OneChain(b2) /\ SameRest(b, b2)
        /\ b2.ctx = x /\ b2.avail = av /\ b2.made = b.made /\ b2.event = b.event
        /\ b2.sq = b.sq /\ b2.pending = b.pending
        /\ \A d \in Contexts : SameChain(b, b2, d)
    <3> HIDE DEF av, Freed
    <3>1. /\ b2.ctx = x /\ b2.avail = av /\ b2.made = b.made /\ b2.event = b.event
          /\ b2.sq = b.sq /\ b2.pending = b.pending /\ b2.kern = b.kern /\ SameRest(b, b2)
          /\ Shaped(b2)
      <4>1. Shaped(b)
        BY <1>1, ShapedBackend, Zenon
      <4> DEFINE z == Freed
      <4> HIDE DEF z
      <4>2. b2 = [b EXCEPT !.ctx[c] = z, !.avail = av]
        BY <2>3 DEF z
      <4>3. b2.avail = av /\ b2.ctx = [b.ctx EXCEPT ![c] = z]
        BY <4>1, <4>2 DEF Shaped
      <4>4. /\ b2.made = b.made /\ b2.event = b.event
            /\ b2.sq = b.sq /\ b2.pending = b.pending /\ b2.kern = b.kern /\ SameRest(b, b2)
        BY <4>1, <4>2 DEF Shaped, SameRest
      <4>5. Shaped(b2)
        BY <4>1, <4>2 DEF Shaped
      <4>6. QED
        BY <4>3, <4>4, <4>5 DEF z
    <3> HIDE DEF x
    <3>2. b.pending \in Nat
      BY <1>1, BackendFields, Zenon
    <3>3. b2 \in Backends /\ OneChain(b2) /\ \A d \in Contexts : SameChain(b, b2, d)
      BY <3>1, <3>2, <2>1, <2>2, <1>1, <1>2, WithContexts, Zenon
    <3>4. QED
      BY <3>1, <3>3
  <2> HIDE DEF x, av
  <2>5. b2.ctx[c] = Freed /\ \A d \in Contexts : d # c => b2.ctx[d] = b.ctx[d]
    BY <2>4, <1>2 DEF x
  <2>6. Freed.ref = 0
    BY NewContextType, Zenon
  <2>7. \A d \in Contexts : Free(b2, d) <=> d = c \/ Free(b, d)
    <3>1. \A d : (\E i \in DOMAIN av : av[i] = d) <=> d = c \/ \E i \in DOMAIN b.avail : b.avail[i] = d
      <4>1. Len(av) = Len(b.avail) + 1 /\ av[1] = c /\ \A i \in 1 .. Len(b.avail) : av[i + 1] = b.avail[i]
        BY <1>2 DEF av
      <4>2. av \in Seq(Contexts)
        BY <2>2
      <4>3. ASSUME NEW d, NEW i \in DOMAIN av, av[i] = d, d # c
            PROVE  \E j \in DOMAIN b.avail : b.avail[j] = d
        <5>1. i - 1 \in 1 .. Len(b.avail) /\ b.avail[i - 1] = d
          BY <4>1, <4>2, <4>3, <1>2
        <5>2. QED
          BY <5>1, <1>2
      <4>4. ASSUME NEW d, NEW j \in DOMAIN b.avail, b.avail[j] = d
            PROVE  \E i \in DOMAIN av : av[i] = d
        <5>1. j + 1 \in DOMAIN av /\ av[j + 1] = d
          BY <4>1, <4>2, <4>4, <1>2
        <5>2. QED
          BY <5>1
      <4>5. \E i \in DOMAIN av : av[i] = c
        BY <4>1, <4>2, <1>2
      <4>6. QED
        BY <4>3, <4>4, <4>5
    <3>2. QED
      BY <3>1, <2>4 DEF Free
  <2>8. StoreOK(b2)
    <3>1. \A i \in DOMAIN b.avail : b.avail[i] # c
      BY <1>3 DEF Free
    <3>2. c <= b.made
      BY <1>3, <1>2 DEF Free, Contexts, Counts
    <3>3. \A i, j \in DOMAIN av : av[i] = av[j] => i = j
      BY <1>1, <1>2, <3>1 DEF av, StoreOK
    <3>4. \A i \in DOMAIN av : av[i] <= b.made
      BY <1>1, <1>2, <3>2 DEF av, StoreOK
    <3>5. \A d \in Contexts : b2.ctx[d].ref = 0 <=> Free(b2, d)
      BY <2>5, <2>6, <2>7, <1>1 DEF StoreOK
    <3>6. QED
      BY <3>3, <3>4, <3>5, <2>4 DEF StoreOK
  <2>9. QED
    BY <1>4, <2>4, <2>5, <2>8 DEF Wf, OthersKept
<1>5. CASE ~LastReference(b.ctx[c])
  <2> DEFINE n == b.ctx[c].ref - 1
             y == [b.ctx[c] EXCEPT !.ref = n]
             x == [b.ctx EXCEPT ![c] = y]
  <2>1. n \in Nat /\ n # 0
    <3>1. b.ctx[c].ref \in Nat
      BY <1>1, ContextFields, Zenon
    <3>2. QED
      BY <3>1, <1>5 DEF LastReference
  <2>2. b.ctx[c] \in ContextRecords
    BY <1>2
  <2>3. b2 = [b EXCEPT !.ctx[c].ref = n]
    BY <1>5, Zenon DEF context_store_release
  <2> HIDE DEF n
  <2>5. /\ y \in ContextRecords /\ y.ref = n /\ y.fiber = b.ctx[c].fiber
        /\ y.type = b.ctx[c].type
        /\ y.result = b.ctx[c].result /\ y.resume = b.ctx[c].resume
        /\ y.buffers = b.ctx[c].buffers
    BY <2>1, <2>2 DEF ContextRecords
  <2> HIDE DEF y
  <2>6. x \in [Contexts -> ContextRecords]
    BY <2>5, <1>2
  <2> HIDE DEF x
  <2>7. /\ b2 \in Backends /\ OneChain(b2) /\ SameRest(b, b2)
        /\ b2.ctx = x /\ b2.avail = b.avail /\ b2.made = b.made /\ b2.event = b.event
        /\ b2.sq = b.sq /\ b2.pending = b.pending
        /\ \A d \in Contexts : SameChain(b, b2, d)
    <3>1. /\ b2.ctx = x /\ b2.avail = b.avail /\ b2.made = b.made /\ b2.event = b.event
          /\ b2.sq = b.sq /\ b2.pending = b.pending /\ b2.kern = b.kern /\ SameRest(b, b2)
          /\ Shaped(b2)
      BY <2>3, <1>1, ShapedBackend, SMT DEF Shaped, SameRest, x, y
    <3>2. b.pending \in Nat
      BY <1>1, BackendFields, Zenon
    <3>3. b2 \in Backends /\ OneChain(b2) /\ \A d \in Contexts : SameChain(b, b2, d)
      BY <3>1, <3>2, <2>6, <1>1, <1>2, WithContexts, Zenon
    <3>4. QED
      BY <3>1, <3>3
  <2>8. b2.ctx[c] = y /\ \A d \in Contexts : d # c => b2.ctx[d] = b.ctx[d]
    BY <2>7, <1>2 DEF x
  <2>9. StoreOK(b2)
    <3>1. \A d : Free(b2, d) <=> Free(b, d)
      BY <2>7 DEF Free
    <3>2. \A d \in Contexts : b2.ctx[d].ref = 0 <=> Free(b2, d)
      BY <3>1, <2>8, <2>5, <2>1, <1>1, <1>3 DEF StoreOK
    <3>3. QED
      BY <3>2, <2>7, <1>1 DEF StoreOK
  <2>10. QED
    BY <1>5, <2>1, <2>5, <2>7, <2>8, <2>9 DEF Wf, OthersKept, n
<1>6. QED
  BY <1>4, <1>5

\* context_store_acquire takes a context that nothing refers to.
LEMMA AcquiredContext ==
  ASSUME NEW b, Wf(b), CanAcquire(b, 1), NEW t \in Types, NEW f \in Fibers,
         NEW c, c = Acquired(b), NEW b2, b2 = context_store_acquire(b, t, f)
  PROVE  /\ c \in Contexts /\ b.ctx[c].ref = 0
         /\ Wf(b2) /\ OthersKept(b, b2, c) /\ b2.event = b.event
         /\ b2.sq = b.sq /\ b2.pending = b.pending
         /\ \A d \in Contexts : SameChain(b, b2, d)
         /\ b2.ctx[c] = NewContext(t, f)
         /\ CanAcquire(b, 2) => CanAcquire(b2, 1)
<1>1. b \in Backends /\ OneChain(b) /\ StoreOK(b)
  BY DEF Wf
<1>2. /\ b.ctx \in [Contexts -> ContextRecords] /\ b.avail \in Seq(Contexts)
      /\ b.made \in Counts /\ b.event \in Contexts \cup {NoCtx} /\ b.pending \in Nat
  BY <1>1, BackendFields, Zenon
<1>3. MaxContexts \in Nat
  BY BackendAssumption
<1> DEFINE z == NewContext(t, f)
           av == IF b.avail = <<>> THEN b.avail ELSE Tail(b.avail)
           md == IF b.avail = <<>> THEN b.made + 1 ELSE b.made
           x == [b.ctx EXCEPT ![c] = z]
<1>4. c \in Contexts /\ Free(b, c)
  <2>1. CASE b.avail = <<>>
    BY <2>1, <1>2, <1>3 DEF CanAcquire, Acquired, Contexts, Counts, Free
  <2>2. CASE b.avail # <<>>
    <3>1. 1 \in DOMAIN b.avail /\ c = b.avail[1]
      BY <2>2, <1>2 DEF Acquired
    <3>2. QED
      BY <3>1, <1>2 DEF Free
  <2>3. QED
    BY <2>1, <2>2
<1>5. b.ctx[c].ref = 0
  BY <1>1, <1>4 DEF StoreOK
<1>6. av \in Seq(Contexts) /\ md \in Counts
  BY <1>2, <1>3 DEF CanAcquire, Counts
<1>7. z \in ContextRecords /\ z.ref # 0
  BY NewContextType DEF NewContext
<1>8. b2 = [b EXCEPT !.ctx[c] = z, !.avail = av, !.made = md]
  BY DEF context_store_acquire
<1> HIDE DEF z
<1>9. x \in [Contexts -> ContextRecords]
  BY <1>2, <1>7
<1>10. /\ b2.ctx = x /\ b2.avail = av /\ b2.made = md /\ b2.event = b.event
       /\ b2.sq = b.sq /\ b2.pending = b.pending /\ b2.kern = b.kern /\ SameRest(b, b2)
       /\ Shaped(b2)
  <2>1. Shaped(b)
    BY <1>1, ShapedBackend, Zenon
  <2> HIDE DEF av, md
  <2>2. b2.avail = av /\ b2.made = md /\ b2.ctx = [b.ctx EXCEPT ![c] = z]
    BY <2>1, <1>8 DEF Shaped
  <2>3. /\ b2.event = b.event /\ b2.sq = b.sq /\ b2.pending = b.pending
        /\ b2.kern = b.kern /\ SameRest(b, b2)
    BY <2>1, <1>8 DEF Shaped, SameRest
  <2>4. Shaped(b2)
    BY <2>1, <1>8 DEF Shaped
  <2>5. QED
    BY <2>2, <2>3, <2>4
<1>11. b2 \in Backends /\ OneChain(b2) /\ \A d \in Contexts : SameChain(b, b2, d)
  <2> HIDE DEF x, av, md
  <2>1. QED
    BY <1>10, <1>9, <1>6, <1>1, <1>2, WithContexts, Zenon
<1>12. b2.ctx[c] = z /\ \A d \in Contexts : d # c => b2.ctx[d] = b.ctx[d]
  BY <1>10, <1>2, <1>4
<1>13. \A d \in Contexts : Free(b2, d) <=> Free(b, d) /\ d # c
  <2>1. CASE b.avail = <<>>
    BY <2>1, <1>10, <1>2 DEF Free, Acquired, Contexts, Counts
  <2>2. CASE b.avail # <<>>
    <3>1. c = b.avail[1] /\ av = Tail(b.avail) /\ b2.made = b.made
      BY <2>2, <1>10, <1>2 DEF Acquired
    <3>2. \A d : (\E i \in DOMAIN av : av[i] = d) <=> d # c /\ \E i \in DOMAIN b.avail : b.avail[i] = d
      <4>1. av \in Seq(Contexts) /\ Len(av) = Len(b.avail) - 1
            /\ \A i \in 1 .. Len(av) : av[i] = b.avail[i + 1]
        BY <3>1, <2>2, <1>2
      <4>2. ASSUME NEW i \in DOMAIN av
            PROVE  av[i] # c /\ \E j \in DOMAIN b.avail : b.avail[j] = av[i]
        <5>1. i + 1 \in DOMAIN b.avail /\ 1 \in DOMAIN b.avail /\ av[i] = b.avail[i + 1] /\ i + 1 # 1
          BY <4>1, <1>2
        <5>2. QED
          BY <5>1, <3>1, <1>1 DEF StoreOK
      <4>3. ASSUME NEW j \in DOMAIN b.avail, b.avail[j] # c
            PROVE  \E i \in DOMAIN av : av[i] = b.avail[j]
        <5>1. j - 1 \in DOMAIN av /\ av[j - 1] = b.avail[j]
          BY <4>1, <4>3, <3>1, <1>2
        <5>2. QED
          BY <5>1
      <4>4. QED
        BY <4>2, <4>3
    <3>3. c <= b.made
      <4>1. 1 \in DOMAIN b.avail
        BY <2>2, <1>2
      <4>2. QED
        BY <4>1, <3>1, <1>1 DEF StoreOK
    <3>4. \A d \in Contexts : d > b.made => d # c
      BY <3>3, <1>2, <1>4 DEF Contexts, Counts
    <3>5. b2.avail = av
      BY <1>10
    <3> HIDE DEF av
    <3>6. QED
      BY <3>1, <3>2, <3>4, <3>5, Zenon DEF Free
  <2>3. QED
    BY <2>1, <2>2
<1>14. StoreOK(b2)
  <2>1. \A i, j \in DOMAIN av : av[i] = av[j] => i = j
    BY <1>1, <1>2 DEF StoreOK
  <2>2. \A i \in DOMAIN av : av[i] <= md
    BY <1>1, <1>2 DEF StoreOK, Counts, Contexts
  <2>3. \A d \in Contexts : b2.ctx[d].ref = 0 <=> Free(b2, d)
    BY <1>13, <1>12, <1>7, <1>1 DEF StoreOK
  <2>4. QED
    BY <2>1, <2>2, <2>3, <1>10 DEF StoreOK
<1>15. CanAcquire(b, 2) => CanAcquire(b2, 1)
  BY <1>10, <1>2, <1>3 DEF CanAcquire, Counts
<1>16. QED
  BY <1>4, <1>5, <1>10, <1>11, <1>12, <1>14, <1>15 DEF Wf, OthersKept, z

\* The contexts and the store are as they were.
SameContexts(b, b2) ==
    b2.ctx = b.ctx /\ b2.avail = b.avail /\ b2.made = b.made /\ b2.event = b.event

LEMMA StoreKept ==
  ASSUME NEW b, NEW b2, SameContexts(b, b2), StoreOK(b)
  PROVE  StoreOK(b2)
  BY DEF SameContexts, StoreOK, Free

\* No requests: no chain.
LEMMA NoChain ==
  ASSUME NEW b \in Backends, OneChain(b), NEW c \in Contexts, ReqsOf(b, c) = <<>>
  PROVE  Queued(b, c) = {} /\ Working(b, c) = {}
<1>1. IsReqs(b, c, ReqsOf(b, c))
  BY ReqsDetermined, Zenon
<1>2. \A i \in Queued(b, c) : b.sq[i].reqs # <<>>
  BY DEF Queued
<1>3. \A r \in Working(b, c) : r.reqs # <<>>
  BY ChainFields, Zenon DEF Working
<1>4. QED
  BY <1>1, <1>2, <1>3 DEF IsReqs

\* t is s and one more element, e, at n.
Extends(t, s, e, S, n) ==
    /\ t \in Seq(S) /\ DOMAIN t = DOMAIN s \cup {n} /\ n \notin DOMAIN s
    /\ t[n] = e /\ \A i \in DOMAIN s : t[i] = s[i]
NextPlace(s) == Len(s) + 1

LEMMA AppendExtends ==
  ASSUME NEW S, NEW s \in Seq(S), NEW e \in S
  PROVE  Extends(Append(s, e), s, e, S, NextPlace(s))
<1> DEFINE t == Append(s, e)
<1>1. t \in Seq(S) /\ Len(t) = Len(s) + 1 /\ Len(s) \in Nat
  OBVIOUS
<1>2. t[Len(s) + 1] = e /\ \A i \in 1 .. Len(s) : t[i] = s[i]
  OBVIOUS
<1>3. DOMAIN t = 1 .. Len(s) + 1 /\ DOMAIN s = 1 .. Len(s)
  BY <1>1
<1>4. QED
  BY <1>1, <1>2, <1>3 DEF NextPlace, Extends

\* One more entry in the submission queue: the first chain of its context, or a
\* cancellation.
Enqueued(b, b2, c, reqs) ==
    /\ Shaped(b2) /\ SameRest(b, b2) /\ SameContexts(b, b2) /\ b2.pending \in Nat
    /\ b2.kern = b.kern /\ b2.sq = Append(b.sq, Chain(c, reqs, FALSE))

Fits(b, c, reqs) == reqs = <<>> \/ ReqsOf(b, c) = <<>>

EntryAdded(b, b2, c, reqs) ==
    /\ \A d \in Contexts : d # c => SameChain(b, b2, d)
    /\ reqs # <<>> => ReqsOf(b2, c) = reqs /\ (Doomed(b2, c) => Doomed(b, c))
    /\ reqs = <<>> => ReqsOf(b2, c) = ReqsOf(b, c) /\ (Stopped(b2, c) => Stopped(b, c))

LEMMA AppendedEntry ==
  ASSUME NEW b, Wf(b), NEW c \in Contexts, NEW reqs \in Seq(Requests),
         Fits(b, c, reqs), NEW b2, Enqueued(b, b2, c, reqs)
  PROVE  Wf(b2) /\ EntryAdded(b, b2, c, reqs)
<1> USE DEF Fits, EntryAdded
<1> /\ Shaped(b2) /\ SameRest(b, b2) /\ SameContexts(b, b2) /\ b2.pending \in Nat
    /\ b2.kern = b.kern /\ b2.sq = Append(b.sq, Chain(c, reqs, FALSE))
  BY Zenon DEF Enqueued
<1>1. b \in Backends /\ OneChain(b) /\ StoreOK(b)
  BY DEF Wf
<1>2. /\ b.sq \in Seq(Entries) /\ b.kern \in SUBSET Chains /\ b.pending \in Nat
      /\ b.cq \in Seq(Completions) /\ b.sched \in [Fibers -> Values \cup {NoValue}]
      /\ b.acceptq \in Fibers \cup {NoFiber} /\ b.queues \in [Fibers -> AcceptQueues]
      /\ b.ctx \in [Contexts -> ContextRecords] /\ b.avail \in Seq(Contexts)
      /\ b.made \in Counts /\ b.event \in Contexts \cup {NoCtx}
  BY <1>1, BackendFields, Zenon
<1> DEFINE e == Chain(c, reqs, FALSE)
           n == NextPlace(b.sq)
<1>3. e \in Entries /\ e.ctx = c /\ e.reqs = reqs
  BY DEF Chain, Entries
<1> HIDE DEF e
<1>4. b2.sq \in Seq(Entries) /\ DOMAIN b2.sq = DOMAIN b.sq \cup {n} /\ n \notin DOMAIN b.sq
      /\ b2.sq[n] = e /\ \A i \in DOMAIN b.sq : b2.sq[i] = b.sq[i]
  <2>1. b2.sq = Append(b.sq, e)
    BY DEF e
  <2>2. b.sq \in Seq(Entries)
    BY <1>2
  <2>3. e \in Entries
    BY <1>3
  <2>4. Extends(b2.sq, b.sq, e, Entries, n)
    BY <2>1, <2>2, <2>3, AppendExtends, Zenon
  <2>5. QED
    BY <2>4, Zenon DEF Extends
<1>5. b2 \in Backends
  <2>1. /\ b2.cq = b.cq /\ b2.sched = b.sched /\ b2.acceptq = b.acceptq
        /\ b2.queues = b.queues /\ b2.ctx = b.ctx /\ b2.avail = b.avail
        /\ b2.made = b.made /\ b2.event = b.event
    BY Zenon DEF SameRest, SameContexts
  <2>2. b2.sq \in Seq(Entries)
    BY <1>4, Zenon
  <2>3. QED
    BY <1>2, <2>1, <2>2, Rebuilt, Zenon
<1>6. \A d : Working(b2, d) = Working(b, d)
  BY DEF Working
<1> HIDE DEF n
<1>7. \A d \in Contexts : d # c => Queued(b2, d) = Queued(b, d)
  BY <1>3, <1>4 DEF Queued
<1>8. reqs = <<>> => Queued(b2, c) = Queued(b, c)
  BY <1>3, <1>4 DEF Queued
<1>9. reqs # <<>> => Queued(b2, c) = {n} /\ Queued(b, c) = {} /\ Working(b, c) = {}
  <2> SUFFICES ASSUME reqs # <<>>
               PROVE  Queued(b2, c) = {n} /\ Queued(b, c) = {} /\ Working(b, c) = {}
    OBVIOUS
  <2>1. Queued(b, c) = {} /\ Working(b, c) = {}
    BY <1>1, NoChain, Zenon
  <2>2. n \in Queued(b2, c)
    BY <1>3, <1>4, Zenon DEF Queued
  <2>3. ASSUME NEW i \in Queued(b2, c)
        PROVE  i = n
    <3>1. i \in DOMAIN b2.sq /\ b2.sq[i].ctx = c /\ b2.sq[i].reqs # <<>>
      BY Zenon DEF Queued
    <3>2. i \in DOMAIN b.sq => i \in Queued(b, c)
      BY <3>1, <1>4, Zenon DEF Queued
    <3>3. QED
      BY <3>1, <3>2, <2>1, <1>4, Zenon
  <2>4. QED
    BY <2>1, <2>2, <2>3, Zenon
<1>10. OneChain(b2)
  <2> SUFFICES ASSUME NEW d \in Contexts
               PROVE  /\ \A i, j \in Queued(b2, d) : i = j
                      /\ \A r, s \in Working(b2, d) : r = s
                      /\ Queued(b2, d) = {} \/ Working(b2, d) = {}
    BY Zenon DEF OneChain
  <2>1. /\ \A i, j \in Queued(b, d) : i = j
        /\ \A r, s \in Working(b, d) : r = s
        /\ Queued(b, d) = {} \/ Working(b, d) = {}
    BY <1>1, Zenon DEF OneChain
  <2>2. CASE d # c \/ reqs = <<>>
    BY <2>1, <2>2, <1>6, <1>7, <1>8
  <2>3. CASE d = c /\ reqs # <<>>
    BY <2>1, <2>3, <1>6, <1>9
  <2>4. QED
    BY <2>2, <2>3
<1>11. ASSUME NEW d \in Contexts, d # c \/ reqs = <<>>
       PROVE  ReqsOf(b2, d) = ReqsOf(b, d)
  <2>1. IsReqs(b, d, ReqsOf(b, d))
    BY <1>1, ReqsDetermined, Zenon
  <2> DEFINE q == ReqsOf(b, d)
  <2> HIDE DEF q
  <2>2. Queued(b2, d) = Queued(b, d)
    BY <1>7, <1>8, <1>11
  <2>3. \A i \in Queued(b, d) : b2.sq[i].reqs = b.sq[i].reqs
    BY <1>4 DEF Queued
  <2>4. IsReqs(b, d, q) => IsReqs(b2, d, q)
    <3>1. Working(b2, d) = Working(b, d)
      BY <1>6, Zenon
    <3>2. QED
      BY <2>2, <2>3, <3>1, Zenon DEF IsReqs
  <2>5. IsReqs(b2, d, ReqsOf(b, d))
    BY <2>1, <2>4, Zenon DEF q
  <2>6. QED
    BY <2>5, <1>5, <1>10, ReqsDetermined, Zenon
<1>12. ASSUME NEW d \in Contexts, d # c \/ reqs # <<>>
       PROVE  Doomed(b2, d) => Doomed(b, d)
  BY <1>3, <1>4, <1>6, <1>12 DEF Doomed, Asked, Stopped
<1>13. ASSUME reqs # <<>>
       PROVE  ReqsOf(b2, c) = reqs
  <2>1. n \in Queued(b2, c) /\ b2.sq[n].reqs = reqs
    BY <1>13, <1>9, <1>4, <1>3
  <2>2. IsReqs(b2, c, reqs)
    BY <2>1 DEF IsReqs
  <2>3. QED
    BY <2>2, <1>5, <1>10, ReqsDetermined, Zenon
<1>14. StoreOK(b2)
  BY <1>1, StoreKept, Zenon
<1>15. Stopped(b2, c) => Stopped(b, c)
  BY <1>6 DEF Stopped
<1>16. ASSUME NEW d \in Contexts, d # c
       PROVE  SameAsked(b, b2, d)
  <2>1. Asked(b2, d) => Asked(b, d)
    BY <1>3, <1>4, <1>16 DEF Asked
  <2>2. Stopped(b2, d) => Stopped(b, d)
    BY <1>6 DEF Stopped
  <2>3. QED
    BY <2>1, <2>2 DEF SameAsked
<1>17. QED
  BY <1>5, <1>10, <1>11, <1>12, <1>13, <1>14, <1>15, <1>16 DEF Wf, SameChain

\* Another record for one context, which stays free or in use.
IsPut(b, b2, c, y) == b2 = [b EXCEPT !.ctx[c] = y]

FreeAlike(x, y) == x.ref = 0 <=> y.ref = 0
PutKeeps(b, b2, c, y) ==
    /\ Wf(b2) /\ OthersKept(b, b2, c) /\ b2.ctx[c] = y
    /\ b2.event = b.event /\ b2.sq = b.sq /\ b2.pending = b.pending
    /\ b2.avail = b.avail /\ b2.made = b.made
    /\ \A d \in Contexts : SameChain(b, b2, d)

LEMMA WithRecord ==
  ASSUME NEW b, Wf(b), NEW c \in Contexts, NEW y \in ContextRecords,
         FreeAlike(b.ctx[c], y), NEW b2, IsPut(b, b2, c, y)
  PROVE  PutKeeps(b, b2, c, y)
<1>1. b \in Backends /\ OneChain(b) /\ StoreOK(b)
  BY DEF Wf
<1>2. /\ b.ctx \in [Contexts -> ContextRecords] /\ b.avail \in Seq(Contexts)
      /\ b.made \in Counts /\ b.event \in Contexts \cup {NoCtx} /\ b.pending \in Nat
  BY <1>1, BackendFields, Zenon
<1>3. Shaped(b)
  BY <1>1, ShapedBackend, Zenon
<1>4. b2.ctx = [b.ctx EXCEPT ![c] = y]
  BY <1>3 DEF Shaped, IsPut
<1>5. /\ b2.avail = b.avail /\ b2.made = b.made /\ b2.event = b.event /\ b2.sq = b.sq
      /\ b2.pending = b.pending /\ b2.kern = b.kern /\ SameRest(b, b2)
  BY <1>3 DEF Shaped, SameRest, IsPut
<1>6. Shaped(b2)
  BY <1>3 DEF Shaped, IsPut
<1>7. b2.ctx \in [Contexts -> ContextRecords]
  BY <1>4, <1>2
<1>8. b2 \in Backends /\ OneChain(b2) /\ \A d \in Contexts : SameChain(b, b2, d)
  BY <1>1, <1>2, <1>5, <1>6, <1>7, WithContexts, Zenon
<1>9. b2.ctx[c] = y /\ \A d \in Contexts : d # c => b2.ctx[d] = b.ctx[d]
  BY <1>4, <1>2
<1>10. StoreOK(b2)
  <2>1. \A d : Free(b2, d) <=> Free(b, d)
    BY <1>5 DEF Free
  <2>2. \A d \in Contexts : b2.ctx[d].ref = 0 <=> Free(b2, d)
    BY <2>1, <1>9, <1>1 DEF StoreOK, FreeAlike
  <2>3. QED
    BY <2>2, <1>5, <1>1 DEF StoreOK
<1>11. QED
  BY <1>5, <1>8, <1>9, <1>10 DEF Wf, OthersKept, PutKeeps

\* Only the count of pending submissions is another.
Counted(b, b2, n) == b2 = [b EXCEPT !.pending = n]

LEMMA WithPending ==
  ASSUME NEW b, Wf(b), NEW n \in Nat, NEW b2, Counted(b, b2, n)
  PROVE  /\ Wf(b2) /\ SameRest(b, b2) /\ SameContexts(b, b2) /\ b2.sq = b.sq
         /\ b2.pending = n /\ \A d \in Contexts : SameChain(b, b2, d)
<1>1. b \in Backends /\ OneChain(b) /\ StoreOK(b)
  BY DEF Wf
<1>2. /\ b.ctx \in [Contexts -> ContextRecords] /\ b.avail \in Seq(Contexts)
      /\ b.made \in Counts /\ b.event \in Contexts \cup {NoCtx}
  BY <1>1, BackendFields, Zenon
<1>3. Shaped(b)
  BY <1>1, ShapedBackend, Zenon
<1>4. /\ b2.sq = b.sq /\ b2.pending = n /\ b2.kern = b.kern /\ SameRest(b, b2)
      /\ SameContexts(b, b2)
  BY <1>3 DEF Shaped, SameRest, SameContexts, Counted
<1>5. Shaped(b2)
  BY <1>3 DEF Shaped, Counted
<1>6. b2.ctx = b.ctx /\ b2.avail = b.avail /\ b2.made = b.made /\ b2.event = b.event
  BY <1>4 DEF SameContexts
<1>7. b2 \in Backends /\ OneChain(b2) /\ \A d \in Contexts : SameChain(b, b2, d)
  BY <1>1, <1>2, <1>4, <1>5, <1>6, WithContexts, Zenon
<1>8. StoreOK(b2)
  BY <1>1, <1>4, StoreKept, Zenon
<1>9. QED
  BY <1>4, <1>7, <1>8 DEF Wf

\* The submission queue has no open entry, so what is prepared is appended.
IsPrepared(b, b2, c, reqs) == b2 = prep(b, c, reqs, FALSE)

NoRequest(b, c) == ReqsOf(b, c) = <<>>
PreparedKeeps(b, b2, c, reqs) ==
    /\ Wf(b2) /\ SameRest(b, b2) /\ SameContexts(b, b2) /\ b2.pending = b.pending
    /\ b2.sq # <<>>
    /\ \A d \in Contexts : d # c => SameChain(b, b2, d)
    /\ ReqsOf(b2, c) = reqs /\ (Doomed(b2, c) => Doomed(b, c))

LEMMA Prepared ==
  ASSUME NEW b, Wf(b), NEW c \in Contexts, NEW reqs \in Seq(Requests), reqs # <<>>,
         NoRequest(b, c), NEW b2, IsPrepared(b, b2, c, reqs)
  PROVE  PreparedKeeps(b, b2, c, reqs)
<1>1. b \in Backends /\ OneChain(b) /\ StoreOK(b)
  BY DEF Wf
<1>2. b.sq \in Seq(Entries) /\ b.pending \in Nat
  BY <1>1, BackendFields, Zenon
<1>3. ~(Len(b.sq) > 0 /\ b.sq[Len(b.sq)].open)
  <2> SUFFICES ASSUME Len(b.sq) > 0
               PROVE  ~b.sq[Len(b.sq)].open
    OBVIOUS
  <2>1. Len(b.sq) \in DOMAIN b.sq
    BY <1>2
  <2>2. b.sq[Len(b.sq)].open = FALSE
    BY <2>1, <1>1, EntryFields, Zenon
  <2>3. QED
    BY <2>2
<1> DEFINE s == Append(b.sq, Chain(c, reqs, FALSE))
<1>4. b2 = [b EXCEPT !.sq = s]
  BY <1>3 DEF prep, IsPrepared
<1>5. s # <<>>
  <2>1. Chain(c, reqs, FALSE) \in Entries
    BY DEF Chain, Entries
  <2>2. Len(s) = Len(b.sq) + 1 /\ Len(b.sq) \in Nat
    BY <1>2, <2>1
  <2> HIDE DEF s
  <2>3. Len(s) # 0
    BY <2>2
  <2>4. QED
    BY <2>3
<1>6. Shaped(b)
  BY <1>1, ShapedBackend, Zenon
<1> HIDE DEF s
<1>7. /\ b2.sq = s /\ b2.pending = b.pending /\ b2.kern = b.kern /\ SameRest(b, b2)
      /\ SameContexts(b, b2)
  BY <1>4, <1>6 DEF Shaped, SameRest, SameContexts
<1>8. Shaped(b2)
  BY <1>4, <1>6 DEF Shaped
<1>9. b2.sq = Append(b.sq, Chain(c, reqs, FALSE))
  BY <1>7 DEF s
<1> Enqueued(b, b2, c, reqs)
  BY <1>2, <1>7, <1>8, <1>9 DEF Enqueued
<1> Fits(b, c, reqs)
  BY DEF Fits, NoRequest
<1>10. Wf(b2) /\ EntryAdded(b, b2, c, reqs)
  BY AppendedEntry, Zenon
<1>11. QED
  BY <1>5, <1>7, <1>10 DEF EntryAdded, PreparedKeeps

LEMMA PreparedCancel ==
  ASSUME NEW b, Wf(b), NEW c \in Contexts, NEW b2, b2 = prep_cancel(b, c)
  PROVE  /\ Wf(b2) /\ SameRest(b, b2) /\ SameContexts(b, b2) /\ b2.pending = b.pending
         /\ \A d \in Contexts : d # c => SameChain(b, b2, d)
         /\ ReqsOf(b2, c) = ReqsOf(b, c) /\ (Stopped(b2, c) => Stopped(b, c))
<1>1. b \in Backends /\ OneChain(b) /\ StoreOK(b)
  BY DEF Wf
<1>2. b.sq \in Seq(Entries) /\ b.pending \in Nat
  BY <1>1, BackendFields, Zenon
<1>3. ~(Len(b.sq) > 0 /\ b.sq[Len(b.sq)].open)
  <2> SUFFICES ASSUME Len(b.sq) > 0
               PROVE  ~b.sq[Len(b.sq)].open
    OBVIOUS
  <2>1. Len(b.sq) \in DOMAIN b.sq
    BY <1>2
  <2>2. b.sq[Len(b.sq)].open = FALSE
    BY <2>1, <1>1, EntryFields, Zenon
  <2>3. QED
    BY <2>2
<1> DEFINE s == Append(b.sq, Chain(c, <<>>, FALSE))
<1>4. b2 = [b EXCEPT !.sq = s]
  BY <1>3 DEF prep_cancel, Cancellation
<1>6. Shaped(b)
  BY <1>1, ShapedBackend, Zenon
<1> HIDE DEF s
<1>7. /\ b2.sq = s /\ b2.pending = b.pending /\ b2.kern = b.kern /\ SameRest(b, b2)
      /\ SameContexts(b, b2)
  BY <1>4, <1>6 DEF Shaped, SameRest, SameContexts
<1>8. Shaped(b2)
  BY <1>4, <1>6 DEF Shaped
<1> DEFINE none == <<>>
<1>9. none \in Seq(Requests) /\ none = <<>>
  OBVIOUS
<1> HIDE DEF none
<1>10. b2.sq = Append(b.sq, Chain(c, none, FALSE))
  BY <1>7 DEF s, none
<1> Enqueued(b, b2, c, none)
  BY <1>2, <1>7, <1>8, <1>10 DEF Enqueued
<1> Fits(b, c, none)
  BY <1>9 DEF Fits
<1>11. Wf(b2) /\ EntryAdded(b, b2, c, none)
  BY <1>9, AppendedEntry, Zenon
<1>12. QED
  BY <1>7, <1>9, <1>11 DEF EntryAdded

\* io_uring_backend_immediate_submit.
LEMMA Flushed ==
  ASSUME NEW b, Wf(b), NEW b2, b2 = io_uring_backend_immediate_submit(b)
  PROVE  /\ Wf(b2) /\ SameRest(b, b2) /\ SameContexts(b, b2)
         /\ b2.sq = <<>> /\ b2.pending = 0
         /\ \A d \in Contexts : SameChain(b, b2, d)
<1> DEFINE b1 == [b EXCEPT !.pending = 0]
<1>1. /\ Wf(b1) /\ SameRest(b, b1) /\ SameContexts(b, b1)
      /\ b1.pending = 0 /\ \A d \in Contexts : SameChain(b, b1, d)
  <2> DEFINE z == 0
  <2>1. z \in Nat /\ z = 0 /\ Counted(b, b1, z)
    BY DEF Counted
  <2> HIDE DEF z, b1
  <2>2. QED
    BY <2>1, WithPending, Zenon
<1>2. b2 = io_uring_submit(b1)
  BY DEF io_uring_backend_immediate_submit
<1> HIDE DEF b1
<1>3. b1 \in Backends /\ OneChain(b1) /\ StoreOK(b1)
  BY <1>1 DEF Wf
<1>4. /\ b2 \in Backends /\ OneChain(b2) /\ SameRest(b1, b2)
      /\ b2.sq = <<>> /\ b2.ctx = b1.ctx /\ b2.avail = b1.avail /\ b2.made = b1.made
      /\ b2.pending = b1.pending /\ b2.event = b1.event
      /\ \A d \in Contexts : SameChain(b1, b2, d)
  BY <1>2, <1>3, Submitted, Zenon
<1>5. SameContexts(b1, b2)
  BY <1>4 DEF SameContexts
<1>6. Wf(b2)
  BY <1>3, <1>4, <1>5, StoreKept, Zenon DEF Wf
<1>7. SameRest(b, b2) /\ SameContexts(b, b2)
  BY <1>1, <1>4, <1>5 DEF SameRest, SameContexts
<1>8. \A d \in Contexts : SameChain(b, b2, d)
  BY <1>1, <1>4 DEF SameChain, SameAsked
<1>9. QED
  BY <1>1, <1>4, <1>6, <1>7, <1>8

\* io_uring_backend_defer_submit: what is not submitted is counted.
LEMMA Deferred ==
  ASSUME NEW b, Wf(b), NEW b2, b2 = io_uring_backend_defer_submit(b)
  PROVE  /\ Wf(b2) /\ SameRest(b, b2) /\ SameContexts(b, b2)
         /\ b2.sq # <<>> => b2.pending > 0
         /\ b2.pending < PreparedLimit
         /\ \A d \in Contexts : SameChain(b, b2, d)
<1>1. b.pending \in Nat
  BY BackendFields DEF Wf
<1>2. PreparedLimit \in Nat /\ PreparedLimit > 0
  BY BackendAssumption
<1>3. CASE b.pending + 1 >= PreparedLimit
  <2>1. b2 = io_uring_backend_immediate_submit(b)
    BY <1>3 DEF io_uring_backend_defer_submit
  <2>2. /\ Wf(b2) /\ SameRest(b, b2) /\ SameContexts(b, b2)
        /\ b2.sq = <<>> /\ b2.pending = 0
        /\ \A d \in Contexts : SameChain(b, b2, d)
    BY <2>1, Flushed, Zenon
  <2>3. QED
    BY <2>2, <1>2
<1>4. CASE ~(b.pending + 1 >= PreparedLimit)
  <2> DEFINE n == b.pending + 1
  <2>1. Counted(b, b2, n)
    BY <1>4 DEF io_uring_backend_defer_submit, Counted
  <2>2. n \in Nat /\ n > 0 /\ n < PreparedLimit
    BY <1>1, <1>2, <1>4
  <2> HIDE DEF n
  <2>3. /\ Wf(b2) /\ SameRest(b, b2) /\ SameContexts(b, b2) /\ b2.sq = b.sq
        /\ b2.pending = n /\ \A d \in Contexts : SameChain(b, b2, d)
    BY <2>1, <2>2, WithPending, Zenon
  <2>4. QED
    BY <2>2, <2>3
<1>5. QED
  BY <1>3, <1>4

----------------------------------------------------------------------------
(* What the operations call *)

\* Only context c may be another one.
Touches(b, b2, c) ==
    /\ Wf(b2) /\ OthersKept(b, b2, c) /\ \A d \in Contexts : d # c => SameChain(b, b2, d)

\* What is not submitted is counted, and less than the limit.
SqOK(b) == (b.sq # <<>> => b.pending > 0) /\ b.pending < PreparedLimit

\* A context that is free has no requests and no cancellation.
Reusable(b) ==
    \A d \in Contexts : b.ctx[d].ref = 0 => ReqsOf(b, d) = <<>> /\ ~Doomed(b, d)

\* The record y is x, but for the fields named.
SameButRef(x, y) ==
    /\ y.type = x.type /\ y.fiber = x.fiber /\ y.result = x.result
    /\ y.resume = x.resume /\ y.buffers = x.buffers
SameButResult(x, y) ==
    /\ y.type = x.type /\ y.fiber = x.fiber /\ y.ref = x.ref
    /\ y.resume = x.resume /\ y.buffers = x.buffers

LEMMA TouchesTwice ==
  ASSUME NEW b, NEW b1, NEW b2, NEW c, Touches(b, b1, c), Touches(b1, b2, c)
  PROVE  Touches(b, b2, c)
<1>1. OthersKept(b, b2, c)
  BY DEF Touches, OthersKept, SameRest
<1>2. \A d \in Contexts : d # c => SameChain(b, b2, d)
  BY DEF Touches, SameChain, SameAsked
<1>3. QED
  BY <1>1, <1>2 DEF Touches

LEMMA TouchesNone ==
  ASSUME NEW b, NEW b2, Wf(b2), SameRest(b, b2), SameContexts(b, b2), NEW c,
         \A d \in Contexts : d # c => SameChain(b, b2, d)
  PROVE  Touches(b, b2, c)
  BY DEF Touches, OthersKept, SameContexts

\* The requests of c are made in a context that was free.
IssuedAs(b, b2, c, x, reqs) ==
    /\ c \in Contexts /\ b.ctx[c].ref = 0
    /\ Touches(b, b2, c) /\ b2.event = b.event
    /\ b2.ctx[c] = x /\ ReqsOf(b2, c) = reqs /\ ~Doomed(b2, c)

\* Acquired, and prepared, but not submitted nor counted.
AcquiredAndPrepared(b, t, f, reqs) ==
    prep(context_store_acquire(b, t, f), Acquired(b), reqs, FALSE)

LEMMA IssuedLater ==
  ASSUME NEW b, Wf(b), Reusable(b), CanAcquire(b, 1), NEW t \in Types, NEW f \in Fibers,
         NEW reqs \in Seq(Requests), reqs # <<>>, NEW c, c = Acquired(b),
         NEW b2, b2 = AcquiredAndPrepared(b, t, f, reqs)
  PROVE  /\ IssuedAs(b, b2, c, NewContext(t, f), reqs) /\ b2.pending = b.pending
         /\ b2.sq # <<>> /\ (CanAcquire(b, 2) => CanAcquire(b2, 1))
<1> DEFINE b1 == context_store_acquire(b, t, f)
<1>1. /\ c \in Contexts /\ b.ctx[c].ref = 0
      /\ Wf(b1) /\ OthersKept(b, b1, c) /\ b1.event = b.event
      /\ b1.sq = b.sq /\ b1.pending = b.pending
      /\ \A d \in Contexts : SameChain(b, b1, d)
      /\ b1.ctx[c] = NewContext(t, f)
      /\ CanAcquire(b, 2) => CanAcquire(b1, 1)
  <2> HIDE DEF b1
  <2>1. b1 = context_store_acquire(b, t, f)
    BY DEF b1
  <2>2. QED
    BY <2>1, AcquiredContext
<1>2. b2 = prep(b1, c, reqs, FALSE)
  BY Zenon DEF AcquiredAndPrepared
<1> HIDE DEF b1
<1>3. ReqsOf(b, c) = <<>> /\ ~Doomed(b, c)
  BY <1>1, Zenon DEF Reusable
<1>4. ReqsOf(b1, c) = <<>> /\ ~Doomed(b1, c)
  BY <1>1, <1>3 DEF SameChain
<1>5. /\ Wf(b2) /\ SameRest(b1, b2) /\ SameContexts(b1, b2) /\ b2.pending = b1.pending
      /\ b2.sq # <<>>
      /\ \A d \in Contexts : d # c => SameChain(b1, b2, d)
      /\ ReqsOf(b2, c) = reqs /\ (Doomed(b2, c) => Doomed(b1, c))
  <2>1. Wf(b1) /\ c \in Contexts /\ NoRequest(b1, c)
    BY <1>1, <1>4 DEF NoRequest
  <2>2. IsPrepared(b1, b2, c, reqs)
    BY <1>2 DEF IsPrepared
  <2>3. PreparedKeeps(b1, b2, c, reqs)
    BY <2>1, <2>2, Prepared
  <2>4. QED
    BY <2>3 DEF PreparedKeeps
<1>6. Touches(b, b1, c)
  BY <1>1 DEF Touches
<1>7. Touches(b1, b2, c)
  BY <1>5, TouchesNone, Zenon
<1>8. Touches(b, b2, c)
  BY <1>6, <1>7, TouchesTwice, Zenon
<1>9. b2.event = b.event /\ b2.ctx[c] = NewContext(t, f) /\ b2.pending = b.pending
  BY <1>1, <1>5 DEF SameContexts
<1>10. CanAcquire(b, 2) => CanAcquire(b2, 1)
  BY <1>1, <1>5 DEF SameContexts, CanAcquire
<1>11. QED
  BY <1>1, <1>4, <1>5, <1>8, <1>9, <1>10 DEF IssuedAs

\* Acquire, prepare and defer the submission.
IssuedNow(b, t, f, reqs) ==
    io_uring_backend_defer_submit(AcquiredAndPrepared(b, t, f, reqs))

LEMMA Issued ==
  ASSUME NEW b, Wf(b), Reusable(b), CanAcquire(b, 1), NEW t \in Types, NEW f \in Fibers,
         NEW reqs \in Seq(Requests), reqs # <<>>, NEW c, c = Acquired(b),
         NEW b2, b2 = IssuedNow(b, t, f, reqs)
  PROVE  /\ IssuedAs(b, b2, c, NewContext(t, f), reqs) /\ SqOK(b2)
         /\ (CanAcquire(b, 2) => CanAcquire(b2, 1))
<1> DEFINE b1 == AcquiredAndPrepared(b, t, f, reqs)
<1>1. /\ IssuedAs(b, b1, c, NewContext(t, f), reqs)
      /\ (CanAcquire(b, 2) => CanAcquire(b1, 1))
  <2> HIDE DEF b1
  <2>1. b1 = AcquiredAndPrepared(b, t, f, reqs)
    BY DEF b1
  <2>2. QED
    BY <2>1, IssuedLater
<1>2. b2 = io_uring_backend_defer_submit(b1)
  BY Zenon DEF IssuedNow
<1> HIDE DEF b1
<1>3. Wf(b1)
  BY <1>1 DEF IssuedAs, Touches
<1>4. /\ Wf(b2) /\ SameRest(b1, b2) /\ SameContexts(b1, b2)
      /\ b2.sq # <<>> => b2.pending > 0
      /\ b2.pending < PreparedLimit
      /\ \A d \in Contexts : SameChain(b1, b2, d)
  BY <1>2, <1>3, Deferred
<1>5. Touches(b1, b2, c)
  BY <1>4, TouchesNone, Zenon
<1>6. Touches(b, b1, c) /\ c \in Contexts
  BY <1>1 DEF IssuedAs
<1>7. Touches(b, b2, c)
  BY <1>5, <1>6, TouchesTwice, Zenon
<1>8. /\ b2.event = b.event /\ b2.ctx[c] = NewContext(t, f)
      /\ ReqsOf(b2, c) = reqs /\ ~Doomed(b2, c)
  BY <1>1, <1>4, <1>6 DEF IssuedAs, SameContexts, SameChain
<1>9. CanAcquire(b, 2) => CanAcquire(b2, 1)
  BY <1>1, <1>4 DEF SameContexts, CanAcquire
<1>10. QED
  BY <1>1, <1>4, <1>7, <1>8, <1>9 DEF IssuedAs, SqOK

\* io_uring_backend_cancel: the context is marked, the cancellation prepared.
LEMMA Cancelled ==
  ASSUME NEW b, Wf(b), NEW c \in Contexts, NEW b2, b2 = io_uring_backend_cancel(b, c)
  PROVE  /\ Touches(b, b2, c) /\ b2.event = b.event /\ ReqsOf(b2, c) = ReqsOf(b, c)
         /\ SameButResult(b.ctx[c], b2.ctx[c]) /\ b2.ctx[c].result = ECANCELED
         /\ b2.pending = b.pending
<1> DEFINE y == [b.ctx[c] EXCEPT !.result = ECANCELED]
           b1 == [b EXCEPT !.ctx[c] = y]
<1>1. b.ctx[c] \in ContextRecords
  BY ContextFields DEF Wf
<1>2. ECANCELED \in Outcomes
  BY BackendAssumption DEF ECANCELED, Outcomes
<1>3. y \in ContextRecords /\ SameButResult(b.ctx[c], y) /\ y.result = ECANCELED
  BY <1>1, <1>2 DEF ContextRecords, SameButResult
<1>4. y.ref = b.ctx[c].ref
  BY <1>3 DEF SameButResult
<1>5. b2 = prep_cancel(b1, c)
  BY DEF io_uring_backend_cancel
<1> HIDE DEF y
<1>6. /\ Wf(b1) /\ OthersKept(b, b1, c) /\ b1.ctx[c] = y
      /\ b1.event = b.event /\ b1.pending = b.pending
      /\ \A d \in Contexts : SameChain(b, b1, d)
  <2> HIDE DEF b1
  <2>1. b1 = [b EXCEPT !.ctx[c] = y]
    BY DEF b1
  <2>2. y \in ContextRecords /\ FreeAlike(b.ctx[c], y)
    BY <1>3, <1>4 DEF FreeAlike
  <2>3. IsPut(b, b1, c, y)
    BY <2>1 DEF IsPut
  <2>4. PutKeeps(b, b1, c, y)
    BY <2>2, <2>3, WithRecord
  <2>5. QED
    BY <2>4 DEF PutKeeps
<1> HIDE DEF b1
<1>7. /\ Wf(b2) /\ SameRest(b1, b2) /\ SameContexts(b1, b2) /\ b2.pending = b1.pending
      /\ \A d \in Contexts : d # c => SameChain(b1, b2, d)
      /\ ReqsOf(b2, c) = ReqsOf(b1, c)
  BY <1>5, <1>6, PreparedCancel
<1>8. Touches(b, b1, c) /\ Touches(b1, b2, c)
  BY <1>6, <1>7, TouchesNone DEF Touches
<1>9. Touches(b, b2, c)
  BY <1>8, TouchesTwice, Zenon
<1>10. QED
  BY <1>3, <1>6, <1>7, <1>9 DEF SameContexts, SameChain

\* A submission changes nothing that is known of a context.
LEMMA FlushTouchesNone ==
  ASSUME NEW b, Wf(b), NEW c \in Contexts,
         NEW b2, b2 = io_uring_backend_immediate_submit(b)
  PROVE  /\ Touches(b, b2, c) /\ SameContexts(b, b2) /\ SameChain(b, b2, c) /\ SqOK(b2)
         /\ b2.sq = <<>>
<1>1. /\ Wf(b2) /\ SameRest(b, b2) /\ SameContexts(b, b2)
      /\ b2.sq = <<>> /\ b2.pending = 0
      /\ \A d \in Contexts : SameChain(b, b2, d)
  BY Flushed
<1>2. PreparedLimit > 0
  BY BackendAssumption
<1>3. SqOK(b2)
  BY <1>1, <1>2 DEF SqOK
<1>4. Touches(b, b2, c)
  BY <1>1, TouchesNone, Zenon
<1>5. QED
  BY <1>1, <1>3, <1>4, Zenon

\* ... and submitted at once.
CancelledAs(b, b2, c) ==
    /\ Touches(b, b2, c) /\ b2.event = b.event /\ ReqsOf(b2, c) = ReqsOf(b, c)
    /\ SameButResult(b.ctx[c], b2.ctx[c]) /\ b2.ctx[c].result = ECANCELED
    /\ SqOK(b2) /\ b2.sq = <<>>

LEMMA CancelledNow ==
  ASSUME NEW b, Wf(b), NEW c \in Contexts, NEW b2, b2 = CancelNow(b, c)
  PROVE  CancelledAs(b, b2, c)
<1> DEFINE b1 == io_uring_backend_cancel(b, c)
<1>1. /\ Touches(b, b1, c) /\ b1.event = b.event /\ ReqsOf(b1, c) = ReqsOf(b, c)
      /\ SameButResult(b.ctx[c], b1.ctx[c]) /\ b1.ctx[c].result = ECANCELED
  BY Cancelled
<1>2. b2 = io_uring_backend_immediate_submit(b1)
  BY DEF CancelNow
<1> HIDE DEF b1
<1>3. Wf(b1)
  BY <1>1 DEF Touches
<1>4. /\ Touches(b1, b2, c) /\ SameContexts(b1, b2) /\ SameChain(b1, b2, c) /\ SqOK(b2)
      /\ b2.sq = <<>>
  BY <1>2, <1>3, FlushTouchesNone
<1>5. Touches(b, b2, c)
  BY <1>1, <1>4, TouchesTwice, Zenon
<1>6. QED
  BY <1>1, <1>4, <1>5 DEF SameContexts, SameChain, CancelledAs

\* With nothing queued, a cancellation can only be with the kernel.
LEMMA NothingQueued ==
  ASSUME NEW b, Wf(b), NEW c \in Contexts, Doomed(b, c), b.sq = <<>>
  PROVE  ~NoRequest(b, c)
<1>1. SUFFICES ASSUME ReqsOf(b, c) = <<>> PROVE FALSE
  BY DEF NoRequest
<1>2. Working(b, c) = {}
  BY <1>1, NoChain DEF Wf
<1>3. DOMAIN b.sq = {}
  OBVIOUS
<1>4. QED
  BY <1>2, <1>3 DEF Doomed, Asked, Stopped


----------------------------------------------------------------------------
(* What the kernel does *)

\* The chain r ends, or goes on with the requests q of it that are left; the
\* completion queue becomes another one.
ChainLeft(b, b2, r, q) ==
    /\ Shaped(b2) /\ SameContexts(b, b2)
    /\ b2.sq = b.sq /\ b2.pending = b.pending /\ b2.sched = b.sched
    /\ b2.acceptq = b.acceptq /\ b2.queues = b.queues
    /\ b2.cq \in Seq(Completions) /\ q \in Seq(Requests)
    /\ b2.kern = (b.kern \ {r}) \cup
                   (IF q # <<>> THEN {[ctx |-> r.ctx, reqs |-> q, cancelled |-> FALSE]} ELSE {})

LEMMA ChainEnds ==
  ASSUME NEW b, Wf(b), NEW r \in b.kern, NEW c, c = r.ctx, NEW q, NEW b2, ChainLeft(b, b2, r, q)
  PROVE  /\ Wf(b2) /\ ReqsOf(b, c) = r.reqs /\ ReqsOf(b2, c) = q
         /\ ~Stopped(b2, c) /\ (Asked(b2, c) => Asked(b, c)) /\ (r.cancelled => Stopped(b, c))
         /\ \A d \in Contexts : d # c => SameChain(b, b2, d)
<1> DEFINE z == [ctx |-> r.ctx, reqs |-> q, cancelled |-> FALSE]
           Z == IF q # <<>> THEN {z} ELSE {}
<1>1. b \in Backends /\ OneChain(b) /\ StoreOK(b) /\ r \in Chains /\ c \in Contexts
  BY ChainFields DEF Wf
<1>2. b2.kern = (b.kern \ {r}) \cup Z /\ b2.sq = b.sq /\ q \in Seq(Requests)
  BY DEF ChainLeft
<1>3. z.ctx = c /\ z.reqs = q /\ z.cancelled = FALSE /\ (q # <<>> => z \in Chains)
  BY <1>1, <1>2 DEF Chains
<1> HIDE DEF z
<1>4. b2 \in Backends
  <2>1. /\ b.ctx \in [Contexts -> ContextRecords] /\ b.avail \in Seq(Contexts)
        /\ b.made \in Counts /\ b.sq \in Seq(Entries) /\ b.pending \in Nat
        /\ b.kern \in SUBSET Chains
        /\ b.sched \in [Fibers -> Values \cup {NoValue}]
        /\ b.event \in Contexts \cup {NoCtx} /\ b.acceptq \in Fibers \cup {NoFiber}
        /\ b.queues \in [Fibers -> AcceptQueues]
    BY <1>1, BackendFields, Zenon
  <2>2. b2.kern \in SUBSET Chains
    BY <1>2, <1>3, <2>1
  <2>3. QED
    BY <2>1, <2>2, Rebuilt DEF ChainLeft, SameContexts
<1>5. r \in Working(b, c) /\ Queued(b, c) = {} /\ \A s \in Working(b, c) : s = r
  BY <1>1 DEF Working, OneChain
<1>6. \A d : Queued(b2, d) = Queued(b, d)
  BY <1>2 DEF Queued
<1>7. Working(b2, c) = Z
  <2>1. \A s \in Working(b2, c) : s \in Z
    BY <1>2, <1>5 DEF Working
  <2>2. \A s \in Z : s \in Working(b2, c)
    BY <1>2, <1>3 DEF Working
  <2>3. QED
    BY <2>1, <2>2
<1>8. ASSUME NEW d \in Contexts, d # c PROVE Working(b2, d) = Working(b, d)
  <2>1. \A s \in Working(b2, d) : s \in Working(b, d)
    BY <1>2, <1>3, <1>8 DEF Working
  <2>2. \A s \in Working(b, d) : s \in Working(b2, d)
    BY <1>2, <1>8 DEF Working
  <2>3. QED
    BY <2>1, <2>2
<1>9. OneChain(b2)
  <2> SUFFICES ASSUME NEW d \in Contexts
               PROVE  /\ \A i, j \in Queued(b2, d) : i = j
                      /\ \A s, t \in Working(b2, d) : s = t
                      /\ Queued(b2, d) = {} \/ Working(b2, d) = {}
    BY Zenon DEF OneChain
  <2>1. CASE d = c
    BY <1>5, <1>6, <1>7, <2>1
  <2>2. CASE d # c
    BY <1>1, <1>6, <1>8, <2>2 DEF OneChain
  <2>3. QED
    BY <2>1, <2>2
<1>10. ReqsOf(b, c) = r.reqs
  <2>1. IsReqs(b, c, r.reqs)
    BY <1>5, Zenon DEF IsReqs
  <2>2. QED
    BY <1>1, <2>1, ReqsDetermined
<1>11. ReqsOf(b2, c) = q
  <2>1. IsReqs(b2, c, q)
    BY <1>3, <1>5, <1>6, <1>7 DEF IsReqs
  <2>2. QED
    BY <1>1, <1>4, <1>9, <2>1, ReqsDetermined
<1>12. /\ ~Stopped(b2, c) /\ (Asked(b2, c) => Asked(b, c)) /\ (r.cancelled => Stopped(b, c))
  BY <1>2, <1>3, <1>5, <1>7 DEF Stopped, Asked
<1>13. ASSUME NEW d \in Contexts, d # c
       PROVE  SameChain(b, b2, d)
  <2>1. Working(b2, d) = Working(b, d) /\ Queued(b2, d) = Queued(b, d)
    BY <1>6, <1>8, <1>13
  <2>2. IsReqs(b2, d, ReqsOf(b, d))
    <3>1. IsReqs(b, d, ReqsOf(b, d))
      BY <1>1, ReqsDetermined, Zenon
    <3> DEFINE y == ReqsOf(b, d)
    <3> HIDE DEF y
    <3>2. IsReqs(b, d, y) => IsReqs(b2, d, y)
      BY <1>2, <2>1 DEF IsReqs
    <3>3. QED
      BY <3>1, <3>2, Zenon DEF y
  <2>3. ReqsOf(b2, d) = ReqsOf(b, d)
    BY <1>4, <1>9, <2>2, ReqsDetermined, Zenon
  <2>4. (Asked(b2, d) <=> Asked(b, d)) /\ (Stopped(b2, d) <=> Stopped(b, d))
    BY <1>2, <2>1 DEF Asked, Stopped
  <2>5. QED
    BY <2>3, <2>4 DEF SameChain, SameAsked, Doomed
<1>14. StoreOK(b2)
  BY <1>1, StoreKept DEF ChainLeft
<1>15. QED
  BY <1>4, <1>9, <1>10, <1>11, <1>12, <1>13, <1>14 DEF Wf
----------------------------------------------------------------------------
(* Completions *)

\* The completions of c that are not handled.
Answers(b, c) == {i \in DOMAIN b.cq : b.cq[i].ctx = c}
Done(b, c) == Cardinality(Answers(b, c))
Out(b, c) == Len(ReqsOf(b, c)) + Done(b, c)

LEMMA AnswersFinite ==
  ASSUME NEW b \in Backends, NEW c
  PROVE  /\ IsFiniteSet(Answers(b, c)) /\ Done(b, c) \in Nat
         /\ Done(b, c) = 0 <=> Answers(b, c) = {}
         /\ Answers(b, c) \subseteq 1..Len(b.cq) /\ DOMAIN b.cq = 1..Len(b.cq)
         /\ Len(b.cq) \in Nat
<1>1. b.cq \in Seq(Completions)
  BY BackendFields, Zenon
<1>2. Len(b.cq) \in Nat /\ DOMAIN b.cq = 1..Len(b.cq)
  BY <1>1
<1>3. Answers(b, c) \subseteq 1..Len(b.cq)
  BY <1>2 DEF Answers
<1>4. IsFiniteSet(1..Len(b.cq))
  BY <1>2, FS_Interval
<1>5. IsFiniteSet(Answers(b, c))
  BY <1>3, <1>4, FS_Subset
<1>6. QED
  BY <1>2, <1>3, <1>5, FS_CardinalityType, FS_EmptySet DEF Done

LEMMA OutType ==
  ASSUME NEW b \in Backends, OneChain(b), NEW c \in Contexts
  PROVE  /\ ReqsOf(b, c) \in Seq(Requests) /\ Len(ReqsOf(b, c)) \in Nat
         /\ Done(b, c) \in Nat /\ Out(b, c) \in Nat
         /\ Out(b, c) = Len(ReqsOf(b, c)) + Done(b, c)
         /\ DOMAIN ReqsOf(b, c) = 1..Len(ReqsOf(b, c))
         /\ ReqsOf(b, c) = <<>> <=> Len(ReqsOf(b, c)) = 0
<1>1. ReqsOf(b, c) \in Seq(Requests)
  BY ReqsDetermined
<1>2. Done(b, c) \in Nat
  BY AnswersFinite
<1>3. QED
  BY <1>1, <1>2 DEF Out

\* The completions of c are the same, k places further to the front.
Moved(b, b2, c, k) ==
    /\ \A i \in Answers(b, c) : i - k \in Answers(b2, c) /\ b2.cq[i - k] = b.cq[i]
    /\ \A j \in Answers(b2, c) : j + k \in Answers(b, c)

LEMMA MovedNone ==
  ASSUME NEW b, NEW b2, b2.cq = b.cq, NEW c, b.cq \in Seq(Completions)
  PROVE  Moved(b, b2, c, 0)
  BY DEF Moved, Answers

LEMMA MovedCount ==
  ASSUME NEW b \in Backends, NEW b2 \in Backends, NEW c, NEW k \in Nat, Moved(b, b2, c, k)
  PROVE  Done(b2, c) = Done(b, c) /\ (Answers(b, c) = {} <=> Answers(b2, c) = {})
<1> DEFINE S == Answers(b, c)
           T == Answers(b2, c)
           m == [i \in S |-> i - k]
<1>1. S \subseteq Int /\ T \subseteq Int /\ IsFiniteSet(S)
  BY AnswersFinite
<1>2. m \in Surjection(S, T)
  <2>1. m \in [S -> T]
    BY DEF Moved
  <2>2. \A j \in T : \E i \in S : m[i] = j
    <3>1. SUFFICES ASSUME NEW j \in T PROVE \E i \in S : m[i] = j
      OBVIOUS
    <3>2. j + k \in S /\ m[j + k] = j
      BY <1>1 DEF Moved
    <3>3. QED
      BY <3>2
  <2>3. QED
    BY <2>1, <2>2 DEF Surjection
<1>3. m \in Injection(S, T)
  <2>1. \A i, j \in S : m[i] = m[j] => i = j
    BY <1>1
  <2>2. m \in [S -> T]
    BY DEF Moved
  <2>3. QED
    BY <2>1, <2>2 DEF Injection, IsInjective
<1>4. ExistsBijection(S, T)
  BY <1>2, <1>3 DEF ExistsBijection, Bijection
<1>5. QED
  BY <1>1, <1>4, FS_Bijection, AnswersFinite DEF Done

\* Nothing that the invariant says of c is different.
Untouched(b, b2, c) ==
    /\ b2.ctx[c] = b.ctx[c] /\ SameChain(b, b2, c)
    /\ \E k \in Nat : Moved(b, b2, c, k)

LEMMA UntouchedOut ==
  ASSUME NEW b \in Backends, NEW b2 \in Backends, NEW c, Untouched(b, b2, c)
  PROVE  /\ ReqsOf(b2, c) = ReqsOf(b, c) /\ Done(b2, c) = Done(b, c)
         /\ Out(b2, c) = Out(b, c) /\ b2.ctx[c] = b.ctx[c]
         /\ Doomed(b2, c) => Doomed(b, c)
         /\ Answers(b, c) = {} <=> Answers(b2, c) = {}
<1>1. PICK k \in Nat : Moved(b, b2, c, k)
  BY DEF Untouched
<1>2. Done(b2, c) = Done(b, c) /\ (Answers(b, c) = {} <=> Answers(b2, c) = {})
  BY <1>1, MovedCount
<1>3. QED
  BY <1>2 DEF Untouched, SameChain, Out

LEMMA UntouchedAnswers ==
  ASSUME NEW b \in Backends, NEW b2 \in Backends, NEW c, Untouched(b, b2, c),
         NEW j \in Answers(b2, c)
  PROVE  \E i \in Answers(b, c) : b2.cq[j] = b.cq[i]
<1>1. PICK k \in Nat : Moved(b, b2, c, k)
  BY DEF Untouched
<1>2. j \in Int
  BY AnswersFinite
<1>3. j + k \in Answers(b, c) /\ (j + k) - k = j
  BY <1>1, <1>2 DEF Moved
<1>4. QED
  BY <1>1, <1>3 DEF Moved

\* Completions m of context c are added to the completion queue.
Longer(s, t, m) ==
    /\ Len(t) = Len(s) + Len(m)
    /\ \A i \in 1..Len(s) : t[i] = s[i]
    /\ \A j \in 1..Len(m) : t[Len(s) + j] = m[j]
AllOf(m, c) == m \in Seq(Completions) /\ \A j \in 1..Len(m) : m[j].ctx = c

AnswersGrow(b, b2, c, m) ==
    /\ \A d \in Contexts : d # c => Moved(b, b2, d, 0)
    /\ Done(b2, c) = Done(b, c) + Len(m)
    /\ Answers(b, c) \subseteq Answers(b2, c)
    /\ \A i \in Answers(b, c) : b2.cq[i] = b.cq[i] /\ i <= Len(b.cq)
    /\ \A i \in Answers(b2, c) :
          i \in Answers(b, c) \/ \E j \in 1..Len(m) : i = Len(b.cq) + j /\ b2.cq[i] = m[j]
    /\ \A j \in 1..Len(m) : Len(b.cq) + j \in Answers(b2, c) /\ b2.cq[Len(b.cq) + j] = m[j]

LEMMA Growing ==
  ASSUME NEW b \in Backends, NEW b2 \in Backends, NEW c, NEW m, AllOf(m, c),
         Longer(b.cq, b2.cq, m)
  PROVE  AnswersGrow(b, b2, c, m)
<1> DEFINE n == Len(b.cq)
           k == Len(m)
           S == (n + 1)..(n + k)
<1>1. /\ n \in Nat /\ DOMAIN b.cq = 1..n /\ k \in Nat /\ DOMAIN b2.cq = 1..(n + k)
  <2>1. b.cq \in Seq(Completions) /\ b2.cq \in Seq(Completions) /\ m \in Seq(Completions)
    BY BackendFields DEF AllOf
  <2>2. QED
    BY <2>1 DEF Longer
<1>2. \A i \in 1..n : b2.cq[i] = b.cq[i]
  BY DEF Longer
<1>3. \A j \in 1..k : b2.cq[n + j] = m[j] /\ m[j].ctx = c
  BY DEF Longer, AllOf
<1> HIDE DEF n, k
<1>4. \A i \in S : i - n \in 1..k /\ i = n + (i - n)
  BY <1>1
<1>5. \A d : Answers(b, d) = {i \in 1..n : b.cq[i].ctx = d}
  BY <1>1 DEF Answers
<1>6. \A d : Answers(b2, d) = {i \in 1..(n + k) : b2.cq[i].ctx = d}
  BY <1>1 DEF Answers
<1>7. \A i \in S : b2.cq[i] = m[i - n] /\ b2.cq[i].ctx = c
  BY <1>3, <1>4
<1>8. \A i \in 1..(n + k) : i \in 1..n \/ i \in S
  BY <1>1
<1>9. \A i \in 1..n : i \notin S /\ i \in 1..(n + k)
  BY <1>1
<1>10. \A i \in S : i \in 1..(n + k)
  BY <1>1
<1>11. Answers(b2, c) = Answers(b, c) \cup S
  BY <1>2, <1>5, <1>6, <1>7, <1>8, <1>9, <1>10
<1>12. ASSUME NEW d, d # c PROVE Answers(b2, d) = Answers(b, d)
  <2>1. \A i : i \in Answers(b, d) <=> i \in 1..n /\ b.cq[i].ctx = d
    BY <1>5
  <2>2. \A i : i \in Answers(b2, d) <=> i \in 1..(n + k) /\ b2.cq[i].ctx = d
    BY <1>6
  <2>3. ASSUME NEW i \in Answers(b2, d) PROVE i \in Answers(b, d)
    <3>1. i \in 1..(n + k) /\ b2.cq[i].ctx = d
      BY <2>2, <2>3
    <3>2. i \notin S
      BY <1>7, <1>12, <3>1
    <3>3. QED
      BY <1>2, <1>8, <2>1, <3>1, <3>2
  <2>4. ASSUME NEW i \in Answers(b, d) PROVE i \in Answers(b2, d)
    BY <1>2, <1>9, <2>1, <2>2
  <2>5. QED
    BY <2>3, <2>4
<1>13. \A d \in Contexts : d # c => Moved(b, b2, d, 0)
  <2>1. SUFFICES ASSUME NEW d \in Contexts, d # c PROVE Moved(b, b2, d, 0)
    OBVIOUS
  <2>2. Answers(b2, d) = Answers(b, d) /\ \A i \in Answers(b, d) : b2.cq[i] = b.cq[i]
    BY <1>2, <1>5, <1>12, <2>1
  <2>3. \A i \in Answers(b, d) : i - 0 = i /\ i + 0 = i
    BY <1>1, <1>5
  <2>4. QED
    BY <2>2, <2>3 DEF Moved
<1>14. Done(b2, c) = Done(b, c) + k
  <2>1. IsFiniteSet(S) /\ Cardinality(S) = k
    <3>1. n + 1 \in Int /\ n + k \in Int
      BY <1>1
    <3>2. IsFiniteSet(S) /\ Cardinality(S) = IF n + 1 > n + k THEN 0 ELSE (n + k) - (n + 1) + 1
      BY <3>1, FS_Interval
    <3>3. QED
      BY <1>1, <3>2
  <2>2. IsFiniteSet(Answers(b, c)) /\ Cardinality(Answers(b, c)) \in Nat
    BY AnswersFinite DEF Done
  <2>3. Answers(b, c) \cap S = {}
    BY <1>5, <1>9
  <2>4. Cardinality(Answers(b, c) \cup S)
          = Cardinality(Answers(b, c)) + Cardinality(S) - Cardinality(Answers(b, c) \cap S)
    BY <2>1, <2>2, FS_Union
  <2>5. Cardinality(Answers(b, c) \cap S) = 0
    BY <2>3, FS_EmptySet
  <2>6. QED
    BY <1>1, <1>11, <2>1, <2>2, <2>4, <2>5 DEF Done
<1>15. \A i \in Answers(b, c) : b2.cq[i] = b.cq[i] /\ i <= n
  BY <1>1, <1>2, <1>5
<1>16. \A i \in Answers(b2, c) :
          i \in Answers(b, c) \/ \E j \in 1..k : i = n + j /\ b2.cq[i] = m[j]
  BY <1>4, <1>7, <1>11
<1>17. \A j \in 1..k : n + j \in Answers(b2, c) /\ b2.cq[n + j] = m[j]
  <2>1. \A j \in 1..k : n + j \in S
    BY <1>1
  <2>2. QED
    BY <1>3, <1>11, <2>1
<1>18. QED
  BY <1>11, <1>13, <1>14, <1>15, <1>16, <1>17 DEF AnswersGrow, n, k

LEMMA JoinLonger ==
  ASSUME NEW S, NEW s \in Seq(S), NEW t \in Seq(S), NEW u \in Seq(S)
  PROVE  (s \o t) \o u \in Seq(S) /\ t \o u \in Seq(S) /\ Longer(s, (s \o t) \o u, t \o u)
<1>1. /\ s \o t \in Seq(S) /\ Len(s \o t) = Len(s) + Len(t)
      /\ \A i \in 1..Len(s) + Len(t) : (s \o t)[i] = IF i <= Len(s) THEN s[i] ELSE t[i - Len(s)]
  BY ConcatProperties
<1> DEFINE p == s \o t
           n == Len(s)
           k == Len(t)
           l == Len(u)
<1>2. n \in Nat /\ k \in Nat /\ l \in Nat
  OBVIOUS
<1>3. p \in Seq(S) /\ Len(p) = n + k
      /\ \A i \in 1..n + k : p[i] = IF i <= n THEN s[i] ELSE t[i - n]
  BY <1>1
<1> HIDE DEF p
<1>4. p \o u \in Seq(S) /\ Len(p \o u) = n + k + l
      /\ \A i \in 1..n + k + l : (p \o u)[i] = IF i <= n + k THEN p[i] ELSE u[i - (n + k)]
  <2>1. /\ p \o u \in Seq(S) /\ Len(p \o u) = Len(p) + Len(u)
        /\ \A i \in 1..Len(p) + Len(u) :
              (p \o u)[i] = IF i <= Len(p) THEN p[i] ELSE u[i - Len(p)]
    <3>1. p \in Seq(S)
      BY <1>3
    <3>2. QED
      BY <3>1, ConcatProperties
  <2>2. Len(p) = n + k
    BY <1>3
  <2>3. QED
    BY <2>1, <2>2, Zenon
<1>5. t \o u \in Seq(S) /\ Len(t \o u) = k + l
      /\ \A i \in 1..k + l : (t \o u)[i] = IF i <= k THEN t[i] ELSE u[i - k]
  BY ConcatProperties
<1> DEFINE a == p \o u
           m == t \o u
<1>6. a \in Seq(S) /\ Len(a) = n + k + l
      /\ \A i \in 1..n + k + l : a[i] = IF i <= n + k THEN p[i] ELSE u[i - (n + k)]
  BY <1>4
<1>7. m \in Seq(S) /\ Len(m) = k + l
      /\ \A i \in 1..k + l : m[i] = IF i <= k THEN t[i] ELSE u[i - k]
  BY <1>5
<1> HIDE DEF a, m, n, k, l
<1>8. Len(a) = n + Len(m)
  BY <1>2, <1>6, <1>7
<1>9. \A i \in 1..n : a[i] = s[i]
  BY <1>2, <1>3, <1>6
<1>10. ASSUME NEW j \in 1..(k + l) PROVE a[n + j] = m[j]
  <2>1. n + j \in 1..n + k + l /\ (n + j) - n = j /\ (n + j) - (n + k) = j - k
    BY <1>2
  <2>2. CASE j <= k
    <3>1. n + j <= n + k /\ ~(n + j <= n) /\ n + j \in 1..n + k
      BY <1>2, <2>2
    <3>2. a[n + j] = p[n + j] /\ p[n + j] = t[(n + j) - n]
      BY <1>3, <1>6, <2>1, <3>1
    <3>3. QED
      BY <1>7, <2>1, <2>2, <3>2
  <2>3. CASE ~(j <= k)
    <3>1. ~(n + j <= n + k)
      BY <1>2, <2>3
    <3>2. a[n + j] = u[(n + j) - (n + k)]
      BY <1>6, <2>1, <3>1
    <3>3. QED
      BY <1>7, <2>1, <2>3, <3>2
  <2>4. QED
    BY <2>2, <2>3
<1>11. Longer(s, a, m)
  BY <1>7, <1>8, <1>9, <1>10 DEF Longer, n
<1>12. QED
  BY <1>6, <1>7, <1>11 DEF a, m, p

\* The first request of the chain of c ends with v: the ones after it begin, or
\* are cancelled.
EndsAs(b, b2, c, v, m) ==
    /\ Wf(b2) /\ SameContexts(b, b2) /\ b2.sq = b.sq /\ b2.pending = b.pending
    /\ b2.sched = b.sched /\ b2.acceptq = b.acceptq /\ b2.queues = b.queues
    /\ \A d \in Contexts : d # c => SameChain(b, b2, d)
    /\ ~Stopped(b2, c) /\ (Asked(b2, c) => Asked(b, c))
    /\ AnswersGrow(b, b2, c, m) /\ Len(m) \in Nat /\ Len(m) >= 1
    /\ \A j \in 1..Len(m) : ~m[j].more /\ (m[j].res = v \/ (Out(b, c) > 1 /\ m[j].res = ECANCELED))
    /\ m[1].res = v
    /\ Out(b2, c) = Out(b, c)
    /\ \A i \in DOMAIN ReqsOf(b2, c) :
          \E k \in DOMAIN ReqsOf(b, c) : ReqsOf(b2, c)[i] = ReqsOf(b, c)[k]
    /\ Len(ReqsOf(b, c)) = 1 => Len(m) = 1 /\ ReqsOf(b2, c) = <<>>

LEMMA SingleSeq ==
  ASSUME NEW S, NEW x \in S
  PROVE  <<x>> \in Seq(S) /\ Len(<<x>>) = 1 /\ <<x>>[1] = x
  OBVIOUS

\* What Complete does, by its parts: the requests q that are left, the completion
\* e of the first one, and the completions u of the ones that are cancelled.
PartsAre(r, v, q, e, u) ==
    /\ q = (IF v = Head(r.reqs).len THEN Tail(r.reqs) ELSE <<>>)
    /\ u = (IF v = Head(r.reqs).len THEN <<>>
            ELSE [i \in 1..Len(Tail(r.reqs)) |-> Completion(r.ctx, ECANCELED, FALSE)])
    /\ e = Completion(r.ctx, v, FALSE)
PartsDo(b, b2, r, q, e, u) ==
    /\ ChainLeft(b, b2, r, q) /\ b2.cq = (b.cq \o <<e>>) \o u
    /\ u \in Seq(Completions) /\ e \in Completions /\ b.cq \in Seq(Completions)
    /\ Len(r.reqs) = Len(q) + Len(u) + 1 /\ Len(r.reqs) \in Nat /\ Len(q) \in Nat
    /\ Len(u) \in Nat
    /\ \A i \in DOMAIN q : \E k \in DOMAIN r.reqs : q[i] = r.reqs[k]
    /\ \A i \in 1..Len(u) : u[i].ctx = r.ctx /\ ~u[i].more /\ u[i].res = ECANCELED

LEMMA CompleteParts ==
  ASSUME NEW b, Wf(b), NEW r \in b.kern, NEW v \in Outcomes, NEW b2, b2 = Complete(b, r, v),
         NEW q, NEW e, NEW u, PartsAre(r, v, q, e, u)
  PROVE  PartsDo(b, b2, r, q, e, u)
<1> /\ q = (IF v = Head(r.reqs).len THEN Tail(r.reqs) ELSE <<>>)
    /\ u = (IF v = Head(r.reqs).len THEN <<>>
            ELSE [i \in 1..Len(Tail(r.reqs)) |-> Completion(r.ctx, ECANCELED, FALSE)])
    /\ e = Completion(r.ctx, v, FALSE)
  BY Zenon DEF PartsAre
<1> DEFINE rest == Tail(r.reqs)
           whole == v = Head(r.reqs).len
<1>1. b \in Backends /\ r.reqs \in Seq(Requests) /\ r.reqs # <<>> /\ r.ctx \in Contexts
      /\ b.cq \in Seq(Completions) /\ Shaped(b)
  BY ChainFields, BackendFields, ShapedBackend DEF Wf
<1>2. rest \in Seq(Requests) /\ Len(rest) = Len(r.reqs) - 1 /\ Len(r.reqs) \in Nat
      /\ Len(r.reqs) >= 1 /\ \A i \in 1..Len(rest) : rest[i] = r.reqs[i + 1]
  BY <1>1
<1>3. e \in Completions /\ e.ctx = r.ctx
  BY <1>1 DEF Completion, Completions
<1> DEFINE x == Completion(r.ctx, ECANCELED, FALSE)
<1>4. x \in Completions /\ x.ctx = r.ctx /\ ~x.more /\ x.res = ECANCELED
  BY <1>1, BackendAssumption DEF Completion, Completions, Outcomes, ECANCELED
<1> HIDE DEF x
<1>5. /\ u \in Seq(Completions) /\ (whole => Len(u) = 0) /\ (~whole => Len(u) = Len(rest))
      /\ \A i \in 1..Len(u) : u[i] = x
  <2>1. u = IF whole THEN <<>> ELSE [i \in 1..Len(rest) |-> x]
    BY DEF x
  <2> DEFINE k == Len(rest)
  <2>2. k \in Nat
    BY <1>2
  <2>3. u = IF whole THEN <<>> ELSE [i \in 1..k |-> x]
    BY <2>1
  <2> HIDE DEF k, rest, whole
  <2>4. [i \in 1..k |-> x] \in Seq(Completions) /\ Len([i \in 1..k |-> x]) = k
    BY <1>4, <2>2
  <2>5. whole => u \in Seq(Completions) /\ Len(u) = 0
    <3>1. <<>> \in Seq(Completions) /\ Len(<<>>) = 0
      BY EmptySeq, Zenon
    <3>2. QED
      BY <2>3, <3>1, Zenon
  <2>6. ~whole => u \in Seq(Completions) /\ Len(u) = k /\ \A i \in 1..k : u[i] = x
    BY <2>3, <2>4
  <2>7. CASE whole
    <3>1. Len(u) = 0 /\ u \in Seq(Completions)
      BY <2>5, <2>7
    <3>2. \A i \in 1..0 : FALSE
      OBVIOUS
    <3>3. QED
      BY <2>7, <3>1, <3>2, Zenon
  <2>8. CASE ~whole
    BY <2>6, <2>8, Zenon DEF k
  <2>9. QED
    BY <2>7, <2>8
<1>6. q \in Seq(Requests) /\ (whole => q = rest) /\ (~whole => q = <<>>)
  BY <1>2
<1>7. b2 = [b EXCEPT
           !.kern = (@ \ {r}) \cup
                    (IF q # <<>> THEN {[ctx |-> r.ctx, reqs |-> q, cancelled |-> FALSE]} ELSE {}),
           !.cq = (@ \o <<e>>) \o u]
  <2>1. (IF whole /\ rest # <<>> THEN {[ctx |-> r.ctx, reqs |-> rest, cancelled |-> FALSE]} ELSE {})
         = (IF q # <<>> THEN {[ctx |-> r.ctx, reqs |-> q, cancelled |-> FALSE]} ELSE {})
    BY <1>6
  <2> HIDE DEF rest, whole
  <2>2. QED
    BY <2>1, Zenon DEF Complete, rest, whole
<1> DEFINE kern2 == (b.kern \ {r}) \cup
                    (IF q # <<>> THEN {[ctx |-> r.ctx, reqs |-> q, cancelled |-> FALSE]} ELSE {})
           cq2 == (b.cq \o <<e>>) \o u
<1>8. b2 = [b EXCEPT !.kern = kern2, !.cq = cq2]
  BY <1>7
<1>9. cq2 \in Seq(Completions)
  <2>1. <<e>> \in Seq(Completions)
    BY <1>3, SingleSeq, Zenon
  <2>2. QED
    BY <1>1, <1>5, <2>1, JoinLonger
<1> HIDE DEF kern2, cq2, whole, rest
<1>10. /\ Shaped(b2) /\ b2.kern = kern2 /\ b2.cq = cq2 /\ b2.ctx = b.ctx /\ b2.avail = b.avail
       /\ b2.made = b.made /\ b2.event = b.event /\ b2.sq = b.sq /\ b2.pending = b.pending
       /\ b2.sched = b.sched /\ b2.acceptq = b.acceptq /\ b2.queues = b.queues
  BY <1>1, <1>8 DEF Shaped
<1>11. ChainLeft(b, b2, r, q)
  BY <1>6, <1>9, <1>10 DEF ChainLeft, SameContexts, kern2
<1>12. Len(r.reqs) = Len(q) + Len(u) + 1 /\ Len(q) \in Nat
  <2>1. CASE whole
    <3>1. q = rest /\ Len(u) = 0
      BY <1>5, <1>6, <2>1
    <3>2. QED
      BY <1>2, <3>1
  <2>2. CASE ~whole
    <3>1. q = <<>> /\ Len(u) = Len(rest)
      BY <1>5, <1>6, <2>2
    <3>2. Len(q) = 0
      BY <3>1, EmptySeq, Zenon
    <3>3. QED
      BY <1>2, <3>1, <3>2
  <2>3. QED
    BY <2>1, <2>2
<1>13. ASSUME NEW i \in DOMAIN q PROVE \E k \in DOMAIN r.reqs : q[i] = r.reqs[k]
  <2>1. whole /\ q = rest
    BY <1>6, <1>13
  <2>2. i \in 1..Len(rest)
    BY <1>2, <1>13, <2>1
  <2>3. i + 1 \in DOMAIN r.reqs /\ q[i] = r.reqs[i + 1]
    BY <1>1, <1>2, <2>1, <2>2
  <2>4. QED
    BY <2>3
<1>14. b2.cq = (b.cq \o <<e>>) \o u
  BY <1>10 DEF cq2
<1>15. Len(u) \in Nat
  BY <1>5, LenProperties, Zenon
<1>16. \A i \in 1..Len(u) : u[i].ctx = r.ctx /\ ~u[i].more /\ u[i].res = ECANCELED
  BY <1>4, <1>5, Zenon
<1>17. QED
  BY <1>1, <1>2, <1>3, <1>5, <1>11, <1>12, <1>13, <1>14, <1>15, <1>16, Zenon DEF PartsDo

LEMMA KernelEnds ==
  ASSUME NEW b, Wf(b), NEW r \in b.kern, NEW c, c = r.ctx, NEW v \in Outcomes,
         NEW b2, b2 = Complete(b, r, v)
  PROVE  /\ \E m : EndsAs(b, b2, c, v, m)
         /\ c \in Contexts /\ ReqsOf(b, c) = r.reqs /\ r.reqs # <<>> /\ (r.cancelled => Stopped(b, c))
<1> DEFINE q == IF v = Head(r.reqs).len THEN Tail(r.reqs) ELSE <<>>
           u == IF v = Head(r.reqs).len THEN <<>>
                ELSE [i \in 1..Len(Tail(r.reqs)) |-> Completion(r.ctx, ECANCELED, FALSE)]
           e == Completion(r.ctx, v, FALSE)
           m == <<e>> \o u
<1>1. /\ ChainLeft(b, b2, r, q) /\ b2.cq = (b.cq \o <<e>>) \o u
      /\ u \in Seq(Completions) /\ e \in Completions /\ b.cq \in Seq(Completions)
      /\ Len(r.reqs) = Len(q) + Len(u) + 1 /\ Len(r.reqs) \in Nat /\ Len(q) \in Nat
      /\ \A i \in DOMAIN q : \E k \in DOMAIN r.reqs : q[i] = r.reqs[k]
      /\ Len(u) \in Nat
      /\ \A i \in 1..Len(u) : u[i].ctx = r.ctx /\ ~u[i].more /\ u[i].res = ECANCELED
  <2>1. PartsAre(r, v, q, e, u)
    BY Zenon DEF PartsAre
  <2> HIDE DEF q, u, e
  <2>2. PartsDo(b, b2, r, q, e, u)
    BY <2>1, CompleteParts
  <2>3. QED
    BY <2>2, Zenon DEF PartsDo
<1>2. e.ctx = c /\ e.res = v /\ ~e.more
  BY DEF Completion
<1> HIDE DEF q, u, e, m
<1>3. <<e>> \in Seq(Completions) /\ Len(<<e>>) = 1 /\ <<e>>[1] = e
  BY <1>1, SingleSeq, Zenon
<1>4. /\ m \in Seq(Completions) /\ Len(m) = 1 + Len(u)
      /\ \A i \in 1..(1 + Len(u)) : m[i] = IF i <= 1 THEN e ELSE u[i - 1]
  <2>1. /\ m \in Seq(Completions) /\ Len(m) = Len(<<e>>) + Len(u)
        /\ \A i \in 1..Len(<<e>>) + Len(u) :
              m[i] = IF i <= Len(<<e>>) THEN <<e>>[i] ELSE u[i - Len(<<e>>)]
    BY <1>1, <1>3, ConcatProperties, Zenon DEF m
  <2>2. /\ Len(m) = 1 + Len(u)
        /\ \A i \in 1..1 + Len(u) : m[i] = IF i <= 1 THEN <<e>>[i] ELSE u[i - 1]
    BY <1>3, <2>1, Zenon
  <2>3. Len(u) \in Nat
    BY <1>1
  <2>4. QED
    BY <1>3, <2>1, <2>2, <2>3
<1>5. Longer(b.cq, b2.cq, m)
  <2> DEFINE e1 == <<e>>
             s == b.cq
  <2>1. e1 \in Seq(Completions) /\ s \in Seq(Completions) /\ u \in Seq(Completions)
    BY <1>1, <1>3
  <2> HIDE DEF e1, s
  <2>2. Longer(s, (s \o e1) \o u, e1 \o u)
    BY <2>1, JoinLonger
  <2>3. QED
    BY <1>1, <2>2, Zenon DEF e1, s, m
<1>6. /\ Wf(b2) /\ ReqsOf(b, c) = r.reqs /\ ReqsOf(b2, c) = q
      /\ ~Stopped(b2, c) /\ (Asked(b2, c) => Asked(b, c)) /\ (r.cancelled => Stopped(b, c))
      /\ \A d \in Contexts : d # c => SameChain(b, b2, d)
  BY <1>1, ChainEnds
<1>7. b \in Backends /\ b2 \in Backends /\ c \in Contexts /\ r.reqs # <<>>
  BY <1>6, ChainFields DEF Wf
<1>8. Len(u) \in Nat /\ \A i \in 1..(1 + Len(u)) : i = 1 \/ (i - 1 \in 1..Len(u) /\ ~(i <= 1))
  BY <1>1
<1>9. \A j \in 1..(1 + Len(u)) :
         m[j].ctx = c /\ ~m[j].more /\ (m[j] = e \/ (j - 1 \in 1..Len(u) /\ m[j].res = ECANCELED))
  <2>1. SUFFICES ASSUME NEW j \in 1..(1 + Len(u))
                 PROVE  m[j].ctx = c /\ ~m[j].more
                        /\ (m[j] = e \/ (j - 1 \in 1..Len(u) /\ m[j].res = ECANCELED))
    OBVIOUS
  <2>2. CASE j = 1
    BY <1>2, <1>4, <2>2
  <2>3. CASE j # 1
    <3>1. j - 1 \in 1..Len(u) /\ m[j] = u[j - 1]
      BY <1>4, <1>8, <2>3
    <3>2. QED
      BY <1>1, <3>1
  <2>4. QED
    BY <2>2, <2>3
<1>10. AllOf(m, c)
  BY <1>4, <1>9 DEF AllOf
<1>11. AnswersGrow(b, b2, c, m)
  BY <1>5, <1>7, <1>10, Growing
<1>12. Done(b2, c) = Done(b, c) + Len(m) /\ Done(b, c) \in Nat /\ Done(b2, c) \in Nat
  BY <1>7, <1>11, AnswersFinite DEF AnswersGrow
<1>13. Out(b2, c) = Out(b, c) /\ (Len(u) >= 1 => Out(b, c) > 1)
  <2>1. Out(b2, c) = Len(q) + Done(b2, c) /\ Out(b, c) = Len(r.reqs) + Done(b, c)
    BY <1>6 DEF Out
  <2>2. QED
    BY <1>1, <1>4, <1>8, <1>12, <2>1
<1>14. \A j \in 1..Len(m) : ~m[j].more /\ (m[j].res = v \/ (Out(b, c) > 1 /\ m[j].res = ECANCELED))
  <2>1. SUFFICES ASSUME NEW j \in 1..(1 + Len(u))
                 PROVE  ~m[j].more /\ (m[j].res = v \/ (Out(b, c) > 1 /\ m[j].res = ECANCELED))
    BY <1>4
  <2>2. j - 1 \in 1..Len(u) => Len(u) >= 1
    BY <1>8
  <2>3. QED
    BY <1>2, <1>9, <1>13, <2>2
<1>15. m[1].res = v
  BY <1>2, <1>4, <1>8
<1>16. Len(ReqsOf(b, c)) = 1 => Len(m) = 1 /\ ReqsOf(b2, c) = <<>>
  <2>1. SUFFICES ASSUME Len(r.reqs) = 1 PROVE Len(m) = 1 /\ q = <<>>
    BY <1>6
  <2>2. Len(q) = 0 /\ Len(u) = 0
    <3>1. PICK k \in Nat : k = Len(q)
      BY <1>1
    <3>2. PICK l \in Nat : l = Len(u)
      BY <1>1
    <3>3. 1 = k + l + 1
      BY <1>1, <2>1, <3>1, <3>2, Zenon
    <3>4. k = 0 /\ l = 0
      BY <3>3
    <3>5. QED
      BY <3>1, <3>2, <3>4, Zenon
  <2>3. q \in Seq(Requests)
    BY <1>1 DEF ChainLeft
  <2>4. q = <<>>
    BY <2>2, <2>3
  <2>5. QED
    BY <1>4, <2>2, <2>4
<1>17. \A i \in DOMAIN ReqsOf(b2, c) : \E k \in DOMAIN ReqsOf(b, c) : ReqsOf(b2, c)[i] = ReqsOf(b, c)[k]
  <2>1. \A i \in DOMAIN q : \E k \in DOMAIN r.reqs : q[i] = r.reqs[k]
    BY <1>1
  <2>2. ReqsOf(b, c) = r.reqs /\ ReqsOf(b2, c) = q
    BY <1>6
  <2>3. QED
    BY <2>1, <2>2
<1>18. Len(m) \in Nat /\ Len(m) >= 1
  BY <1>4, <1>8
<1>19. /\ SameContexts(b, b2) /\ b2.sq = b.sq /\ b2.pending = b.pending
       /\ b2.sched = b.sched /\ b2.acceptq = b.acceptq /\ b2.queues = b.queues
  BY <1>1 DEF ChainLeft
<1>20. EndsAs(b, b2, c, v, m)
  BY <1>6, <1>11, <1>13, <1>14, <1>15, <1>16, <1>17, <1>18, <1>19, Zenon DEF EndsAs
<1>21. QED
  BY <1>6, <1>7, <1>20

----------------------------------------------------------------------------
(* What is left alone.  A context c that is in use, and not the event's, keeps its *)
(* record x and its completions in q through every call about another context,     *)
(* whatever is in the submission queue meanwhile.                                  *)

FieldNames == {"ctx", "avail", "made", "sq", "pending", "kern", "cq", "sched", "event",
               "acceptq", "queues"}
Others == FieldNames \ {"ctx", "avail", "made", "cq", "event"}
Fielded(b) ==
    /\ b = [k \in FieldNames |-> b[k]]
    /\ b.ctx = [c \in Contexts |-> b.ctx[c]]
    /\ b.avail \in Seq(Nat) /\ b.made \in Nat /\ b.event \in Nat
Spared(b, c, q, x) ==
    Fielded(b) /\ ~Free(b, c) /\ c # b.event /\ b.cq = q /\ b.ctx[c] = x

LEMMA BackendFielded ==
  ASSUME NEW b \in Backends
  PROVE  Fielded(b)
<1>1. b = [k \in FieldNames |-> b[k]]
  BY DEF Backends, FieldNames
<1>2. b.ctx \in [Contexts -> ContextRecords] /\ b.avail \in Seq(Nat) /\ b.made \in Nat
      /\ b.event \in Nat
  BY BackendAssumption DEF Backends, Counts, Contexts, NoCtx
<1>3. QED
  BY <1>1, <1>2 DEF Fielded

\* A field that says nothing about the store.
LEMMA SparedField ==
  ASSUME NEW b, NEW c, NEW q, NEW x, Spared(b, c, q, x), NEW k \in Others, NEW v,
         NEW b2, b2 = [b EXCEPT ![k] = v]
  PROVE  Spared(b2, c, q, x)
<1>1. \A j \in FieldNames : j # k => b2[j] = b[j]
  BY DEF Spared, Fielded
<1>2. b2.ctx = b.ctx /\ b2.avail = b.avail /\ b2.made = b.made /\ b2.cq = b.cq /\ b2.event = b.event
  BY <1>1 DEF FieldNames, Others
<1>3. b2 = [j \in FieldNames |-> b2[j]]
  BY DEF Spared, Fielded
<1>4. QED
  BY <1>2, <1>3 DEF Spared, Fielded, Free
IsStored(b, b2, d, y, av, m) ==
    b2 = [b EXCEPT !.ctx = [b.ctx EXCEPT ![d] = y], !.avail = av, !.made = m]
NowhereIn(c, av) == av \in Seq(Nat) /\ \A i \in DOMAIN av : av[i] # c

LEMMA SparedStore ==
  ASSUME NEW b, NEW c \in Contexts, NEW q, NEW x, Spared(b, c, q, x), NEW d, d # c, NEW y,
         NEW av, NowhereIn(c, av), NEW m \in Nat, m >= b.made,
         NEW b2, IsStored(b, b2, d, y, av, m)
  PROVE  Spared(b2, c, q, x)
<1>1. /\ b2.ctx = [b.ctx EXCEPT ![d] = y] /\ b2.avail = av /\ b2.made = m /\ b2.cq = b.cq
      /\ b2.event = b.event
  BY DEF IsStored, Spared, Fielded, FieldNames
<1>2. b2 = [j \in FieldNames |-> b2[j]]
  <2>1. DOMAIN b = FieldNames
    BY DEF Spared, Fielded
  <2>2. b2 = [j \in FieldNames |-> IF j = "made" THEN m ELSE IF j = "avail" THEN av
                                   ELSE IF j = "ctx" THEN [b.ctx EXCEPT ![d] = y] ELSE b[j]]
    BY <2>1, Zenon DEF IsStored, Spared, Fielded, FieldNames
  <2>3. QED
    BY <2>2
<1>3. b2.ctx = [e \in Contexts |-> b2.ctx[e]] /\ b2.ctx[c] = x
  BY <1>1 DEF Spared, Fielded
<1>4. ~Free(b2, c)
  BY <1>1 DEF Spared, Free, Contexts, Fielded, NowhereIn
<1>5. c # b2.event /\ b2.cq = q
  BY <1>1 DEF Spared
<1>6. b2.avail \in Seq(Nat) /\ b2.made \in Nat /\ b2.event \in Nat
  BY <1>1 DEF NowhereIn, Spared, Fielded
<1>7. QED
  BY <1>1, <1>2, <1>3, <1>4, <1>5, <1>6, Zenon DEF Spared, Fielded

LEMMA SparedNowhere ==
  ASSUME NEW b, NEW c, NEW q, NEW x, Spared(b, c, q, x)
  PROVE  NowhereIn(c, b.avail) /\ b.made \in Nat /\ b.made >= b.made
<1>1. b.avail \in Seq(Nat) /\ b.made \in Nat
  BY Zenon DEF Spared, Fielded
<1>2. \A i \in DOMAIN b.avail : b.avail[i] # c
  BY Zenon DEF Spared, Free
<1>3. QED
  BY <1>1, <1>2 DEF NowhereIn

LEMMA SparedRecord ==
  ASSUME NEW b, NEW c \in Contexts, NEW q, NEW x, Spared(b, c, q, x), NEW d, d # c, NEW y,
         NEW b2, b2 = [b EXCEPT !.ctx[d] = y]
  PROVE  Spared(b2, c, q, x)
<1>1. IsStored(b, b2, d, y, b.avail, b.made)
  BY DEF Spared, Fielded, FieldNames, IsStored
<1>2. NowhereIn(c, b.avail) /\ b.made \in Nat /\ b.made >= b.made
  BY SparedNowhere
<1>3. QED
  BY <1>1, <1>2, SparedStore

LEMMA SparedRelease ==
  ASSUME NEW b, NEW c \in Contexts, NEW q, NEW x, Spared(b, c, q, x), NEW d \in Nat, d # c
  PROVE  Spared(context_store_release(b, d), c, q, x)
<1>1. CASE LastReference(b.ctx[d])
  <2> DEFINE av == <<d>> \o b.avail
             y == [NewContext("NONE", NoFiber) EXCEPT !.ref = 0]
             b2 == [b EXCEPT !.ctx[d] = y, !.avail = <<d>> \o @]
  <2>1. NowhereIn(c, b.avail) /\ b.made \in Nat /\ b.made >= b.made
    BY SparedNowhere
  <2>2. NowhereIn(c, av)
    BY <2>1 DEF NowhereIn
  <2>3. context_store_release(b, d) = b2
    BY <1>1 DEF context_store_release
  <2> HIDE DEF y
  <2>4. IsStored(b, b2, d, y, av, b.made)
    BY DEF Spared, Fielded, FieldNames, IsStored
  <2> HIDE DEF av, b2
  <2>5. Spared(b2, c, q, x)
    BY <2>1, <2>2, <2>4, SparedStore
  <2>6. QED
    BY <2>3, <2>5
<1>2. CASE ~LastReference(b.ctx[d])
  <2> DEFINE b2 == [b EXCEPT !.ctx[d].ref = @ - 1]
             y == [b.ctx[d] EXCEPT !.ref = @ - 1]
  <2>1. context_store_release(b, d) = b2
    BY <1>2 DEF context_store_release
  <2>2. b2 = [b EXCEPT !.ctx[d] = y]
    BY DEF Spared, Fielded, FieldNames
  <2> HIDE DEF b2, y
  <2>3. QED
    BY <2>1, <2>2, SparedRecord
<1>3. QED
  BY <1>1, <1>2
\* The context that is acquired was free.
LEMMA AcquiredWasFree ==
  ASSUME NEW b, Fielded(b)
  PROVE  Free(b, Acquired(b)) /\ Acquired(b) \in Nat
<1>1. b.avail \in Seq(Nat) /\ b.made \in Nat
  BY Zenon DEF Fielded
<1>2. CASE b.avail = <<>>
  BY <1>1, <1>2 DEF Free, Acquired
<1>3. CASE b.avail # <<>>
  <2>1. 1 \in DOMAIN b.avail /\ Head(b.avail) = b.avail[1]
    BY <1>1, <1>3
  <2>2. QED
    BY <1>1, <1>3, <2>1 DEF Free, Acquired
<1>4. QED
  BY <1>2, <1>3

LEMMA SparedAcquire ==
  ASSUME NEW b, NEW c \in Contexts, NEW q, NEW x, Spared(b, c, q, x), NEW t, NEW f
  PROVE  Spared(context_store_acquire(b, t, f), c, q, x) /\ Acquired(b) # c
<1> DEFINE d == Acquired(b)
           av == IF b.avail = <<>> THEN b.avail ELSE Tail(b.avail)
           m == IF b.avail = <<>> THEN b.made + 1 ELSE b.made
           y == NewContext(t, f)
           b2 == context_store_acquire(b, t, f)
<1>1. NowhereIn(c, b.avail) /\ b.made \in Nat
  BY SparedNowhere
<1>2. d # c
  BY AcquiredWasFree, Zenon DEF Spared
<1>3. NowhereIn(c, av)
  BY <1>1 DEF NowhereIn
<1>4. m \in Nat /\ m >= b.made
  BY <1>1
<1> HIDE DEF y
<1>5. IsStored(b, b2, d, y, av, m)
  <2>1. b2 = [b EXCEPT !.avail = av, !.made = m, !.ctx[d] = y]
    BY Zenon DEF context_store_acquire, y
  <2> HIDE DEF av, m, d, b2
  <2>2. QED
    BY <2>1 DEF Spared, Fielded, FieldNames, IsStored
<1> HIDE DEF av, m, d, b2
<1>6. Spared(b2, c, q, x)
  BY <1>1, <1>2, <1>3, <1>4, <1>5, SparedStore
<1>7. QED
  BY <1>2, <1>6 DEF b2, d

LEMMA SparedPrep ==
  ASSUME NEW b, NEW c \in Contexts, NEW q, NEW x, Spared(b, c, q, x), NEW d, NEW reqs, NEW open
  PROVE  /\ Spared(prep(b, d, reqs, open), c, q, x) /\ Spared(prep_cancel(b, d), c, q, x)
<1>1. "sq" \in Others
  BY DEF Others, FieldNames
<1>2. PICK s : prep(b, d, reqs, open) = [b EXCEPT !["sq"] = s]
  BY DEF prep, Spared, Fielded, FieldNames
<1>3. PICK p : prep_cancel(b, d) = [b EXCEPT !["sq"] = p]
  BY DEF prep_cancel, Spared, Fielded, FieldNames
<1>4. QED
  BY <1>1, <1>2, <1>3, SparedField

LEMMA SparedSubmit ==
  ASSUME NEW b, NEW c \in Contexts, NEW q, NEW x, Spared(b, c, q, x)
  PROVE  /\ Spared(io_uring_submit(b), c, q, x)
         /\ Spared(io_uring_backend_immediate_submit(b), c, q, x)
         /\ Spared(io_uring_backend_defer_submit(b), c, q, x)
<1>1. "sq" \in Others /\ "kern" \in Others /\ "pending" \in Others
  BY DEF Others, FieldNames
<1>2. ASSUME NEW a, Spared(a, c, q, x)
      PROVE  Spared(io_uring_submit(a), c, q, x)
  <2>1. PICK k : io_uring_submit(a) = [[a EXCEPT !["sq"] = <<>>] EXCEPT !["kern"] = k]
    <3>1. \E k : io_uring_submit(a) = [a EXCEPT !.sq = <<>>, !.kern = k]
      BY Zenon DEF io_uring_submit
    <3>2. ASSUME NEW k
          PROVE  [a EXCEPT !.sq = <<>>, !.kern = k]
                     = [[a EXCEPT !["sq"] = <<>>] EXCEPT !["kern"] = k]
      BY <1>2 DEF Spared, Fielded, FieldNames
    <3>3. QED
      BY <3>1, <3>2, Zenon
  <2>2. Spared([a EXCEPT !["sq"] = <<>>], c, q, x)
    BY <1>1, <1>2, SparedField
  <2>3. QED
    BY <1>1, <2>1, <2>2, SparedField
<1>3. ASSUME NEW n
      PROVE  Spared([b EXCEPT !["pending"] = n], c, q, x)
  BY <1>1, SparedField
<1>4. Spared(io_uring_backend_immediate_submit(b), c, q, x)
  BY <1>2, <1>3 DEF io_uring_backend_immediate_submit
<1>5. Spared(io_uring_backend_defer_submit(b), c, q, x)
  BY <1>3, <1>4 DEF io_uring_backend_defer_submit
<1>6. QED
  BY <1>2, <1>4, <1>5
LEMMA SparedCancel ==
  ASSUME NEW b, NEW c \in Contexts, NEW q, NEW x, Spared(b, c, q, x), NEW d \in Nat, d # c
  PROVE  /\ Spared(io_uring_backend_cancel(b, d), c, q, x) /\ Spared(CancelNow(b, d), c, q, x)
         /\ Spared(context_attach_buffers(b, d), c, q, x)
<1>1. ASSUME NEW a, Spared(a, c, q, x), NEW y
      PROVE  Spared([a EXCEPT !.ctx[d] = y], c, q, x)
  BY <1>1, SparedRecord
<1>2. /\ \E y : [b EXCEPT !.ctx[d].result = ECANCELED] = [b EXCEPT !.ctx[d] = y]
      /\ \E y : context_attach_buffers(b, d) = [b EXCEPT !.ctx[d] = y]
  BY Zenon DEF context_attach_buffers
<1>3. Spared(context_attach_buffers(b, d), c, q, x)
  BY <1>1, <1>2
<1>4. Spared([b EXCEPT !.ctx[d].result = ECANCELED], c, q, x)
  BY <1>1, <1>2, Zenon
<1>5. Spared(io_uring_backend_cancel(b, d), c, q, x)
  BY <1>4, SparedPrep, Zenon DEF io_uring_backend_cancel
<1>6. Spared(CancelNow(b, d), c, q, x)
  BY <1>5, SparedSubmit, Zenon DEF CancelNow
<1>7. QED
  BY <1>3, <1>5, <1>6

LEMMA SparedSched ==
  ASSUME NEW b, NEW c \in Contexts, NEW q, NEW x, Spared(b, c, q, x), NEW f, NEW v
  PROVE  Spared(Fiber_make_runnable(b, f, v), c, q, x) /\ Spared([b EXCEPT !.sched[f] = v], c, q, x)
<1>1. "sched" \in Others
  BY DEF Others, FieldNames
<1>2. /\ \E s : Fiber_make_runnable(b, f, v) = [b EXCEPT !["sched"] = s]
      /\ \E s : [b EXCEPT !.sched[f] = v] = [b EXCEPT !["sched"] = s]
  BY Zenon DEF Fiber_make_runnable
<1>3. QED
  BY <1>1, <1>2, SparedField

LEMMA SparedEvent ==
  ASSUME NEW b, NEW c \in Contexts, NEW q, NEW x, Spared(b, c, q, x), NEW e \in Nat, e # c
  PROVE  Spared([b EXCEPT !.event = e], c, q, x)
<1> DEFINE b2 == [b EXCEPT !.event = e]
<1>1. /\ b2.ctx = b.ctx /\ b2.avail = b.avail /\ b2.made = b.made /\ b2.cq = b.cq /\ b2.event = e
  BY DEF Spared, Fielded, FieldNames
<1>2. b2 = [j \in FieldNames |-> b2[j]]
  BY DEF Spared, Fielded
<1> HIDE DEF b2
<1>3. QED
  BY <1>1, <1>2 DEF Spared, Fielded, Free, b2

LEMMA SparedTail ==
  ASSUME NEW b, NEW c, NEW q, NEW x, Spared(b, c, q, x)
  PROVE  Spared([b EXCEPT !.cq = Tail(@)], c, Tail(q), x)
<1> DEFINE b2 == [b EXCEPT !.cq = Tail(@)]
<1>1. \A k \in FieldNames : k # "cq" => b2[k] = b[k]
  BY DEF Spared, Fielded
<1>2. b2.cq = Tail(q) /\ b2 = [k \in FieldNames |-> b2[k]]
  BY DEF Spared, Fielded, FieldNames
<1> HIDE DEF b2
<1>3. b2.ctx = b.ctx /\ b2.avail = b.avail /\ b2.made = b.made /\ b2.event = b.event
  BY <1>1 DEF FieldNames
<1>4. Spared(b2, c, Tail(q), x)
  BY <1>2, <1>3 DEF Spared, Fielded, Free
<1>5. QED
  BY <1>4 DEF b2

LEMMA SparedAccept ==
  ASSUME NEW b, NEW c \in Contexts, NEW q, NEW x, Spared(b, c, q, x), NEW e, e.ctx \in Nat, e.ctx # c
  PROVE  Spared(handle_multishot_accept_completion(b, e), c, q, x)
<1> DEFINE d == e.ctx
           b1 == context_store_release(b, d)
           b2 == IF e.more THEN b ELSE b1
<1>1. Spared(b1, c, q, x)
  BY SparedRelease
<1>2. Spared(b2, c, q, x)
  BY <1>1
<1>3. "acceptq" \in Others /\ "queues" \in Others
  BY DEF Others, FieldNames
<1>4. Spared([b1 EXCEPT !.acceptq = NoFiber], c, q, x)
  <2> HIDE DEF b1
  <2>1. [b1 EXCEPT !.acceptq = NoFiber] = [b1 EXCEPT !["acceptq"] = NoFiber]
    OBVIOUS
  <2>2. QED
    BY <1>1, <1>3, <2>1, SparedField
<1>5. ASSUME NEW a, Spared(a, c, q, x), NEW p, NEW fd
      PROVE  Spared(Queue_push(a, p, fd), c, q, x)
  <2> DEFINE a1 == [a EXCEPT !.queues[p].fds = Append(@, fd)]
             a2 == [a1 EXCEPT !.queues[p].waiters = Tail(@)]
             w == a.queues[p].waiters
  <2>1. \E s : a1 = [a EXCEPT !["queues"] = s]
    BY Zenon
  <2>2. \E s : a2 = [a1 EXCEPT !["queues"] = s]
    BY Zenon
  <2>3. Queue_push(a, p, fd) = IF w = <<>> THEN a1 ELSE Fiber_make_runnable(a2, Head(w), "nil")
    BY DEF Queue_push
  <2> HIDE DEF a1, a2
  <2>4. Spared(a1, c, q, x)
    BY <1>3, <1>5, <2>1, SparedField
  <2>5. Spared(a2, c, q, x)
    BY <1>3, <2>2, <2>4, SparedField
  <2>6. Spared(Fiber_make_runnable(a2, Head(w), "nil"), c, q, x)
    BY <2>5, SparedSched
  <2>7. QED
    BY <2>3, <2>4, <2>6
<1> HIDE DEF b2
<1>6. handle_multishot_accept_completion(b, e) \in
        {[b1 EXCEPT !.acceptq = NoFiber], b2, Queue_push(b2, b.acceptq, e.res)}
  BY Zenon DEF handle_multishot_accept_completion, b2
<1>7. QED
  BY <1>2, <1>4, <1>5, <1>6

----------------------------------------------------------------------------
(* What a backend keeps of a context, a fiber or the ring *)

MultishotRequest == Request("MULTISHOT_ACCEPT", 0)
EventRequest == Request("EVENT", 0)

\* A multishot accept goes on, or has ended and its last completion says so.
GoesOn(b, c) ==
    /\ ReqsOf(b, c) = <<MultishotRequest>>
    /\ \A i \in Answers(b, c) : b.cq[i].more /\ b.cq[i].res # ECANCELED
HasEnded(b, c) ==
    /\ ReqsOf(b, c) = <<>>
    /\ \E i \in Answers(b, c) :
        /\ ~b.cq[i].more /\ b.cq[i].res = ECANCELED
        /\ \A j \in Answers(b, c) :
              j # i => j < i /\ b.cq[j].more /\ b.cq[j].res # ECANCELED

FreeOK(b, c, n) == ReqsOf(b, c) = <<>> /\ Answers(b, c) = {} /\ n = 0
CountOK(b, c, n) ==
    /\ b.ctx[c].ref = Out(b, c) + n
    /\ \A i \in Answers(b, c) : ~b.cq[i].more
    /\ \A i \in DOMAIN ReqsOf(b, c) : ReqsOf(b, c)[i].kind # "MULTISHOT_ACCEPT"
    /\ Out(b, c) <= 4
    /\ b.ctx[c].type \notin {"CHAIN", "SPLICE"} => Out(b, c) <= 1
MultishotOK(b, c, n) ==
    /\ b.ctx[c].type = "MULTISHOT_ACCEPT"
    /\ GoesOn(b, c) \/ HasEnded(b, c)
    /\ n = 0 \/ (GoesOn(b, c) /\ ~Doomed(b, c))

\* A cancellation is never left behind for the next user of a context: one that
\* is not submitted yet is for an accept that goes on.
AskedOK(b, c) == Asked(b, c) => b.ctx[c].ref = MULTISHOT_REFCOUNT /\ ~Stopped(b, c)
Dooms(b) == \A c \in Contexts : AskedOK(b, c) /\ (Doomed(b, c) => ReqsOf(b, c) # <<>>)

\* What fiber f relies on in a context c that it holds.
Mine(b, f, c) ==
    b.ctx[c].fiber = f /\ b.ctx[c].ref # 0 /\ c # b.event /\ c \in Contexts

\* The request of c will wake f, or has.
Uncancelled(b, c) ==
    /\ ~Doomed(b, c) /\ b.ctx[c].result # ECANCELED
    /\ \A i \in Answers(b, c) : b.cq[i].res # ECANCELED
WillWake(b, f, c) ==
    Out(b, c) = 0 => b.sched[f] # NoValue \/ b.ctx[c].result = ECANCELED

Waits(b, f, c) ==
    /\ Mine(b, f, c) /\ b.ctx[c].ref # MULTISHOT_REFCOUNT
    /\ b.ctx[c].resume # "timeout" /\ WillWake(b, f, c)
WaitsForOne(b, f, c) == Waits(b, f, c) /\ Uncancelled(b, c) /\ Out(b, c) <= 1

\* A pipe that is drained gives end-of-file only when it is closed.
Drains(b, c, open) ==
    /\ \A i \in DOMAIN ReqsOf(b, c) : ReqsOf(b, c)[i].kind = "DRAIN"
    /\ open => /\ \A i \in Answers(b, c) : b.cq[i].res # 0
               /\ Out(b, c) = 0 => b.ctx[c].result # 0

\* The fibers among F that hold context c, where e is the event's context.
Users(F, c) == {f \in Fibers : F[f].pc = "await" /\ c \in {F[f].ctx, F[f].aux}}
Timed(F, c) == {f \in Fibers : F[f].timer = c}
EventOK(b) ==
    b.event # NoCtx =>
        /\ b.event \in Contexts
        /\ ReqsOf(b, b.event) = <<EventRequest>> /\ ~Doomed(b, b.event)
        /\ b.ctx[b.event].ref \notin {0, MULTISHOT_REFCOUNT}
        /\ b.ctx[b.event].type = "POLL"

LEMMA UntouchedGoesOn ==
  ASSUME NEW b \in Backends, NEW b2 \in Backends, NEW c, Untouched(b, b2, c), GoesOn(b, c)
  PROVE  GoesOn(b2, c)
<1>1. ReqsOf(b2, c) = ReqsOf(b, c)
  BY UntouchedOut
<1>2. \A j \in Answers(b2, c) : b2.cq[j].more /\ b2.cq[j].res # ECANCELED
  BY UntouchedAnswers DEF GoesOn
<1>3. QED
  BY <1>1, <1>2 DEF GoesOn

LEMMA UntouchedHasEnded ==
  ASSUME NEW b \in Backends, NEW b2 \in Backends, NEW c, Untouched(b, b2, c), HasEnded(b, c)
  PROVE  HasEnded(b2, c)
<1>1. ReqsOf(b2, c) = <<>>
  BY UntouchedOut DEF HasEnded
<1>2. PICK k \in Nat : Moved(b, b2, c, k)
  BY DEF Untouched
<1>3. Answers(b, c) \subseteq Int /\ Answers(b2, c) \subseteq Int
  BY AnswersFinite
<1>4. PICK i \in Answers(b, c) :
        /\ ~b.cq[i].more /\ b.cq[i].res = ECANCELED
        /\ \A j \in Answers(b, c) : j # i => j < i /\ b.cq[j].more /\ b.cq[j].res # ECANCELED
  BY DEF HasEnded
<1>5. i - k \in Answers(b2, c) /\ b2.cq[i - k] = b.cq[i]
  BY <1>2 DEF Moved
<1>6. \A j \in Answers(b2, c) :
         j # i - k => j < i - k /\ b2.cq[j].more /\ b2.cq[j].res # ECANCELED
  <2>1. SUFFICES ASSUME NEW j \in Answers(b2, c), j # i - k
                 PROVE  j < i - k /\ b2.cq[j].more /\ b2.cq[j].res # ECANCELED
    OBVIOUS
  <2>2. j + k \in Answers(b, c) /\ (j + k) - k = j
    BY <1>2, <1>3 DEF Moved
  <2>3. b2.cq[j] = b.cq[j + k]
    BY <1>2, <2>2 DEF Moved
  <2>4. j + k # i
    BY <1>3, <2>1
  <2>5. QED
    BY <1>3, <1>4, <2>2, <2>3, <2>4
<1>7. QED
  BY <1>1, <1>4, <1>5, <1>6 DEF HasEnded

Claims(s) == {s.ctx, s.aux, s.timer} \ {NoCtx}
\* Fiber f stays scheduled if it was, and its timeout inside of its block.
SchedKept(b, b2, f, s) ==
    /\ b2.sched[f] = NoValue => b.sched[f] = NoValue
    /\ s.timer = NoCtx => b2.sched[f] # "timeout"

LEMMA UntouchedWaits ==
  ASSUME NEW b \in Backends, NEW b2 \in Backends, NEW c, Untouched(b, b2, c),
         NEW f, c # b2.event, b2.sched[f] = NoValue => b.sched[f] = NoValue
  PROVE  /\ Mine(b, f, c) => Mine(b2, f, c)
         /\ Waits(b, f, c) => Waits(b2, f, c)
         /\ WaitsForOne(b, f, c) => WaitsForOne(b2, f, c)
         /\ \A o \in BOOLEAN : Drains(b, c, o) => Drains(b2, c, o)
<1>1. /\ ReqsOf(b2, c) = ReqsOf(b, c) /\ Out(b2, c) = Out(b, c) /\ b2.ctx[c] = b.ctx[c]
      /\ Doomed(b2, c) => Doomed(b, c)
  BY UntouchedOut
<1>2. Mine(b, f, c) => Mine(b2, f, c)
  BY <1>1 DEF Mine
<1>3. WillWake(b, f, c) => WillWake(b2, f, c)
  BY <1>1 DEF WillWake
<1>4. Waits(b, f, c) => Waits(b2, f, c)
  BY <1>1, <1>2, <1>3 DEF Waits
<1>5. Uncancelled(b, c) => Uncancelled(b2, c)
  <2>1. (\A i \in Answers(b, c) : b.cq[i].res # ECANCELED)
        => \A i \in Answers(b2, c) : b2.cq[i].res # ECANCELED
    BY UntouchedAnswers
  <2>2. QED
    BY <1>1, <2>1 DEF Uncancelled
<1>6. WaitsForOne(b, f, c) => WaitsForOne(b2, f, c)
  BY <1>1, <1>4, <1>5 DEF WaitsForOne
<1>7. \A o \in BOOLEAN : Drains(b, c, o) => Drains(b2, c, o)
  <2>1. (\A i \in Answers(b, c) : b.cq[i].res # 0)
        => \A i \in Answers(b2, c) : b2.cq[i].res # 0
    BY UntouchedAnswers
  <2>2. QED
    BY <1>1, <2>1 DEF Drains
<1>8. QED
  BY <1>2, <1>4, <1>6, <1>7

\* No other fiber holds c.
Private(F, f, c) == \A g \in Fibers : g # f => c \notin Claims(F[g])

LEMMA TouchedUntouched ==
  ASSUME NEW b, NEW b2, NEW c, b.cq \in Seq(Completions), Touches(b, b2, c),
         NEW d \in Contexts, d # c
  PROVE  Untouched(b, b2, d)
<1>1. Moved(b, b2, d, 0)
  BY MovedNone DEF Touches, OthersKept, SameRest
<1>2. QED
  BY <1>1 DEF Untouched, Touches, OthersKept

LEMMA SameAskedOK ==
  ASSUME NEW b, NEW b2, NEW c, AskedOK(b, c), SameChain(b, b2, c),
         b.ctx[c].ref = MULTISHOT_REFCOUNT => b2.ctx[c].ref = MULTISHOT_REFCOUNT
  PROVE  AskedOK(b2, c)
  BY Zenon DEF AskedOK, SameChain, SameAsked

LEMMA NotDoomed ==
  ASSUME NEW b, NEW c, ~Doomed(b, c)
  PROVE  AskedOK(b, c)
  BY Zenon DEF AskedOK, Doomed

LEMMA TouchedDooms ==
  ASSUME NEW b, Wf(b), Dooms(b), NEW c \in Contexts, NEW b2, Touches(b, b2, c),
         Doomed(b2, c) => ~NoRequest(b2, c) /\ AskedOK(b2, c)
  PROVE  Dooms(b2)
<1>1. b \in Backends /\ b2 \in Backends /\ b.cq \in Seq(Completions)
  BY BackendFields DEF Wf, Touches
<1>2. \A d \in Contexts : d # c => Untouched(b, b2, d)
  BY <1>1, TouchedUntouched
<1>3. AskedOK(b2, c)
  BY NotDoomed
<1>4. ASSUME NEW d \in Contexts, d # c
      PROVE  AskedOK(b2, d) /\ (Doomed(b2, d) => ReqsOf(b2, d) # <<>>)
  <2>1. SameChain(b, b2, d) /\ b2.ctx[d] = b.ctx[d]
    BY <1>2, <1>4 DEF Untouched
  <2>2. AskedOK(b2, d)
    BY <2>1, SameAskedOK DEF Dooms
  <2>3. QED
    BY <2>1, <2>2 DEF Dooms, SameChain
<1>5. QED
  BY <1>3, <1>4 DEF Dooms, NoRequest

LEMMA FlushedDooms ==
  ASSUME NEW b, Wf(b), b.sq = <<>>
  PROVE  Dooms(b)
<1>1. ASSUME NEW c \in Contexts PROVE ~Asked(b, c)
  BY DEF Asked
<1>2. QED
  BY <1>1, NothingQueued DEF Dooms, NoRequest, AskedOK

\* A call that changes the run queue and the accept queues only.
SameUring(b, b2) ==
    /\ b2 \in Backends /\ SameContexts(b, b2)
    /\ b2.sq = b.sq /\ b2.kern = b.kern /\ b2.cq = b.cq /\ b2.pending = b.pending

LEMMA SameUringUntouched ==
  ASSUME NEW b, Wf(b), NEW b2, SameUring(b, b2)
  PROVE  /\ Wf(b2) /\ \A c \in Contexts : Untouched(b, b2, c)
         /\ SqOK(b) => SqOK(b2)
<1>1. b \in Backends /\ b2 \in Backends /\ OneChain(b) /\ b.cq \in Seq(Completions)
  BY BackendFields DEF Wf, SameUring
<1>2. OneChain(b2) /\ \A c \in Contexts : SameChain(b, b2, c)
  BY <1>1, ChainsKept DEF SameUring
<1>3. StoreOK(b2)
  BY StoreKept DEF Wf, SameUring
<1>4. \A c \in Contexts : Moved(b, b2, c, 0)
  BY <1>1, MovedNone DEF SameUring
<1>5. QED
  BY <1>1, <1>2, <1>3, <1>4 DEF Wf, Untouched, SameUring, SameContexts, SqOK

LEMMA SameUringDooms ==
  ASSUME NEW b, Wf(b), Dooms(b), NEW b2, SameUring(b, b2)
  PROVE  Dooms(b2)
<1>1. b \in Backends /\ b2 \in Backends /\ \A c \in Contexts : Untouched(b, b2, c)
  BY SameUringUntouched DEF Wf, SameUring
<1>2. ASSUME NEW c \in Contexts PROVE AskedOK(b2, c)
  BY <1>1, SameAskedOK DEF Dooms, Untouched
<1>3. QED
  BY <1>1, <1>2, UntouchedOut DEF Dooms

\* A submission changes where the requests are, and nothing else.
Quiet(b, b2) ==
    /\ Wf(b2) /\ SameRest(b, b2) /\ SameContexts(b, b2)
    /\ \A d \in Contexts : SameChain(b, b2, d)

LEMMA QuietUntouched ==
  ASSUME NEW b, Wf(b), NEW b2, Quiet(b, b2)
  PROVE  /\ \A c \in Contexts : Untouched(b, b2, c)
         /\ b2.event = b.event /\ b2.sched = b.sched
         /\ Dooms(b) => Dooms(b2)
<1>1. b.cq \in Seq(Completions) /\ b2.cq = b.cq
  BY BackendFields DEF Wf, Quiet, SameRest
<1>2. \A c \in Contexts : Moved(b, b2, c, 0)
  BY <1>1, MovedNone
<1>3. \A c \in Contexts : Untouched(b, b2, c)
  BY <1>2 DEF Quiet, SameContexts, Untouched
<1>4. ASSUME Dooms(b) PROVE Dooms(b2)
  <2>1. ASSUME NEW c \in Contexts PROVE AskedOK(b2, c)
    BY <1>3, <1>4, SameAskedOK DEF Dooms, Untouched
  <2>2. QED
    BY <1>4, <2>1 DEF Dooms, Quiet, SameChain
<1>5. QED
  BY <1>3, <1>4 DEF Quiet, SameContexts, SameRest

\* How often a fiber in state s counts as a holder of c.
One(p) == IF p THEN 1 ELSE 0
LEMMA OneMember ==
  ASSUME NEW A \in SUBSET Fibers, NEW A2 \in SUBSET Fibers, NEW f \in Fibers,
         \A g \in Fibers : g # f => (g \in A <=> g \in A2)
  PROVE  /\ Cardinality(A) \in Nat /\ Cardinality(A2) \in Nat
         /\ Cardinality(A) >= One(f \in A)
         /\ Cardinality(A2) = Cardinality(A) - One(f \in A) + One(f \in A2)
<1>1. IsFiniteSet(A) /\ IsFiniteSet(A2)
  BY FS_Subset, BackendAssumption
<1>2. A \ {f} = A2 \ {f}
  OBVIOUS
<1>3. /\ Cardinality(A \ {f}) = IF f \in A THEN Cardinality(A) - 1 ELSE Cardinality(A)
      /\ Cardinality(A2 \ {f}) = IF f \in A2 THEN Cardinality(A2) - 1 ELSE Cardinality(A2)
      /\ IsFiniteSet(A \ {f})
  BY <1>1, FS_RemoveElement
<1>4. Cardinality(A) \in Nat /\ Cardinality(A2) \in Nat /\ Cardinality(A \ {f}) \in Nat
  BY <1>1, <1>3, FS_CardinalityType
<1>5. QED
  BY <1>2, <1>3, <1>4 DEF One

\* All is well with the backend if fiber f counts as a holder as in state s.
Counting(F, f, s) == [F EXCEPT ![f] = s]
SameAnswers(b, b2, c) == Answers(b2, c) = Answers(b, c) /\ Done(b2, c) = Done(b, c)

LEMMA SameCq ==
  ASSUME NEW b, NEW b2, b2.cq = b.cq, NEW c
  PROVE  SameAnswers(b, b2, c)
  BY DEF SameAnswers, Answers, Done

\* One reference less.
GaveUp(b, b2, c) ==
    /\ Touches(b, b2, c) /\ b2.event = b.event /\ ReqsOf(b2, c) = ReqsOf(b, c)
    /\ b.ctx[c].ref = 1 =>
          b2.ctx[c].ref = 0 /\ b2.ctx[c].type = "NONE" /\ b2.ctx[c].resume = "nil"
    /\ b.ctx[c].ref # 1 =>
          /\ b2.ctx[c].ref = b.ctx[c].ref - 1 /\ b2.ctx[c].type = b.ctx[c].type
          /\ b2.ctx[c].fiber = b.ctx[c].fiber /\ b2.ctx[c].resume = b.ctx[c].resume
          /\ b.ctx[c].buffers # "none" => b2.ctx[c].buffers # "none"

Counted1(x) == x.ref \notin {0, MULTISHOT_REFCOUNT}

LEMMA NotMultishot == \A m \in Nat : m <= 5 => m # MULTISHOT_REFCOUNT
  BY DEF MULTISHOT_REFCOUNT

\* A context with its first requests, and the fiber that awaits them.
FreshContext(x, f, reqs) ==
    /\ x.ref = Len(reqs) + 1 /\ x.fiber = f /\ x.buffers = "none"
    /\ Len(reqs) \in 1..4
    /\ x.type \notin {"CHAIN", "SPLICE"} => Len(reqs) <= 1
\* A context is marked: the result or the buffers are other ones.
Marked(b, b2, c) ==
    /\ Touches(b, b2, c) /\ b2.event = b.event /\ ReqsOf(b2, c) = ReqsOf(b, c)
    /\ b2.ctx[c].ref = b.ctx[c].ref /\ b2.ctx[c].type = b.ctx[c].type
    /\ b2.ctx[c].fiber = b.ctx[c].fiber /\ b2.ctx[c].resume = b.ctx[c].resume
    /\ b.ctx[c].buffers # "none" => b2.ctx[c].buffers # "none"

SameSq(b, b2) == b2.sq = b.sq /\ b2.pending = b.pending

LEMMA ReleasedGaveUp ==
  ASSUME NEW b, Wf(b), NEW c \in Contexts, Counted1(b.ctx[c]),
         NEW b2, b2 = context_store_release(b, c)
  PROVE  /\ GaveUp(b, b2, c) /\ SameSq(b, b2) /\ SameChain(b, b2, c)
         /\ b.ctx[c].ref # 1 => b2.ctx[c].result = b.ctx[c].result
<1>1. b.ctx[c].ref # 0 /\ b.ctx[c].ref # MULTISHOT_REFCOUNT
  BY DEF Counted1
<1>2. LastReference(b.ctx[c]) <=> b.ctx[c].ref = 1
  BY <1>1 DEF LastReference
<1>3. /\ Wf(b2) /\ OthersKept(b, b2, c) /\ b2.event = b.event /\ b2.made = b.made
      /\ b2.sq = b.sq /\ b2.pending = b.pending
      /\ \A d \in Contexts : SameChain(b, b2, d)
      /\ LastReference(b.ctx[c]) => b2.ctx[c] = Freed
      /\ ~LastReference(b.ctx[c]) =>
            /\ b2.ctx[c].ref = b.ctx[c].ref - 1 /\ b2.ctx[c].ref # 0
            /\ b2.ctx[c].fiber = b.ctx[c].fiber /\ b2.ctx[c].type = b.ctx[c].type
            /\ b2.ctx[c].result = b.ctx[c].result /\ b2.ctx[c].resume = b.ctx[c].resume
            /\ b2.ctx[c].buffers = b.ctx[c].buffers
  BY <1>1, Released
<1>4. Freed.ref = 0 /\ Freed.type = "NONE" /\ Freed.resume = "nil"
  BY DEF Freed, NewContext
<1>5. Touches(b, b2, c)
  BY <1>3 DEF Touches
<1>6. QED
  BY <1>2, <1>3, <1>4, <1>5 DEF GaveUp, SameSq, SameChain

LEMMA AttachedMarked ==
  ASSUME NEW b, Wf(b), NEW c \in Contexts, NEW b2, b2 = context_attach_buffers(b, c)
  PROVE  Marked(b, b2, c) /\ SameSq(b, b2) /\ SameChain(b, b2, c) /\ b2.ctx[c].buffers # "none"
<1> DEFINE y == [b.ctx[c] EXCEPT !.buffers = "attached"]
<1>1. b.ctx[c] \in ContextRecords
  BY ContextFields DEF Wf
<1>2. /\ y \in ContextRecords /\ y.ref = b.ctx[c].ref /\ y.type = b.ctx[c].type /\ y.buffers # "none"
      /\ y.fiber = b.ctx[c].fiber /\ y.resume = b.ctx[c].resume
  BY <1>1 DEF ContextRecords, Attachments
<1>3. b2 = [b EXCEPT !.ctx[c] = y]
  BY DEF context_attach_buffers
<1> HIDE DEF y
<1>4. IsPut(b, b2, c, y) /\ FreeAlike(b.ctx[c], y)
  BY <1>2, <1>3 DEF IsPut, FreeAlike
<1>5. PutKeeps(b, b2, c, y)
  BY <1>2, <1>4, WithRecord
<1>6. QED
  BY <1>2, <1>5 DEF PutKeeps, Marked, Touches, SameSq, SameChain

LEMMA CancelledMarked ==
  ASSUME NEW b, Wf(b), NEW c \in Contexts, NEW b2, b2 = CancelNow(b, c)
  PROVE  /\ Marked(b, b2, c) /\ SqOK(b2) /\ b2.sq = <<>> /\ Dooms(b2)
         /\ b2.ctx[c].result = ECANCELED
<1>1. CancelledAs(b, b2, c)
  BY CancelledNow
<1>2. Wf(b2) /\ b2.sq = <<>>
  BY <1>1 DEF CancelledAs, Touches
<1>3. Dooms(b2)
  BY <1>2, FlushedDooms
<1>4. QED
  BY <1>1, <1>3 DEF CancelledAs, Marked, SameButResult

LEMMA MarkedTwice ==
  ASSUME NEW b, NEW b1, NEW b2, NEW c, Marked(b, b1, c), Marked(b1, b2, c)
  PROVE  Marked(b, b2, c)
<1>1. Touches(b, b2, c)
  BY TouchesTwice DEF Marked
<1>2. QED
  BY <1>1 DEF Marked

LEMMA MarkedGaveUp ==
  ASSUME NEW b, NEW b1, NEW b2, NEW c, Marked(b, b1, c), GaveUp(b1, b2, c)
  PROVE  GaveUp(b, b2, c)
<1>1. Touches(b, b2, c)
  BY TouchesTwice DEF Marked, GaveUp
<1>2. QED
  BY <1>1 DEF Marked, GaveUp

LEMMA GaveUpMarked ==
  ASSUME NEW b, NEW b1, NEW b2, NEW c, GaveUp(b, b1, c), Marked(b1, b2, c)
  PROVE  GaveUp(b, b2, c)
<1>1. Touches(b, b2, c)
  BY TouchesTwice DEF Marked, GaveUp
<1>2. QED
  BY <1>1 DEF Marked, GaveUp

\* The record of a context that was just issued is completed.
LEMMA IssuedPut ==
  ASSUME NEW b, NEW b1, NEW c, NEW x, NEW reqs, IssuedAs(b, b1, c, x, reqs),
         NEW y \in ContextRecords, x.ref # 0, y.ref # 0, NEW b2, IsPut(b1, b2, c, y)
  PROVE  IssuedAs(b, b2, c, y, reqs) /\ SameSq(b1, b2) /\ b2.avail = b1.avail
         /\ b2.made = b1.made
<1>1. c \in Contexts /\ Wf(b1) /\ b1.ctx[c] = x
  BY DEF IssuedAs, Touches
<1>2. FreeAlike(b1.ctx[c], y)
  BY <1>1 DEF FreeAlike
<1>3. PutKeeps(b1, b2, c, y)
  BY <1>1, <1>2, WithRecord
<1>4. Touches(b1, b2, c)
  BY <1>3 DEF PutKeeps, Touches
<1>5. Touches(b, b2, c)
  BY <1>4, TouchesTwice DEF IssuedAs
<1>6. QED
  BY <1>1, <1>3, <1>5 DEF IssuedAs, PutKeeps, SameChain, SameSq

LEMMA RequestType ==
  ASSUME NEW k \in Kinds, NEW n \in Lengths
  PROVE  Request(k, n) \in Requests /\ Request(k, n).kind = k /\ Request(k, n).len = n
  BY DEF Request, Requests

\* Issue: one request of the context's own type.
FirstOf(b, b2, f, t, c) ==
    /\ c \in Contexts /\ Out(b2, c) = 1 /\ Answers(b2, c) = {} /\ ~Doomed(b2, c)
    /\ b2.ctx[c] = NewContext(t, f) /\ b2.event = b.event /\ c # b.event

OneKinds == Kinds \ {"MULTISHOT_ACCEPT", "DRAIN", "CHUNK", "EVENT"}

TimerOK(b, f, s) ==
    s.timer # NoCtx =>
        /\ Mine(b, f, s.timer) /\ b.ctx[s.timer].ref # MULTISHOT_REFCOUNT
        /\ b.ctx[s.timer].type = "TIMEOUT"

LEMMA TimerTouched ==
  ASSUME NEW b, Wf(b), NEW f, NEW s, TimerOK(b, f, s), NEW c, c # s.timer, NEW b2,
         Touches(b, b2, c), b2.event = b.event
  PROVE  TimerOK(b2, f, s)
<1>1. b2.ctx[s.timer] = b.ctx[s.timer] \/ s.timer \notin Contexts
  BY DEF Touches, OthersKept
<1>2. QED
  BY <1>1 DEF TimerOK, Mine

LEMMA NoCtxContext == NoCtx \notin Contexts
  BY DEF NoCtx, Contexts

\* The context that a running fiber takes next is nobody's.
LEMMA AcquiredFree ==
  ASSUME NEW b, Wf(b), CanAcquire(b, 1), NEW f \in Fibers, NEW s, TimerOK(b, f, s)
  PROVE  Acquired(b) \in Contexts /\ b.ctx[Acquired(b)].ref = 0 /\ Acquired(b) # s.timer
<1>1. "READ" \in Types
  BY DEF Types, Kinds
<1>2. Acquired(b) \in Contexts /\ b.ctx[Acquired(b)].ref = 0
  BY <1>1, AcquiredContext
<1>3. s.timer = NoCtx \/ b.ctx[s.timer].ref # 0
  BY DEF TimerOK, Mine
<1>4. QED
  BY <1>2, <1>3, NoCtxContext

\* The run queue changes, for fiber f.
IsSched(b, b2, f, v) == b2 = [b EXCEPT !.sched[f] = v]
SchedAs(b, b2, f, v) ==
    /\ SameUring(b, b2) /\ b2.sched[f] = v /\ b2.acceptq = b.acceptq
    /\ b2.queues = b.queues /\ \A g \in Fibers : g # f => b2.sched[g] = b.sched[g]

LEMMA SchedSame ==
  ASSUME NEW b \in Backends, NEW f \in Fibers, NEW v \in Values \cup {NoValue},
         NEW b2, IsSched(b, b2, f, v)
  PROVE  SchedAs(b, b2, f, v)
<1>1. b.sched \in [Fibers -> Values \cup {NoValue}]
  BY BackendFields
<1>2. [b.sched EXCEPT ![f] = v] \in [Fibers -> Values \cup {NoValue}]
  BY <1>1
<1>3. b2 = [b EXCEPT !.sched = [b.sched EXCEPT ![f] = v]]
  BY DEF IsSched
<1>4. b2 \in Backends
  BY <1>2, <1>3 DEF Backends
<1>5. b2.sched = [b.sched EXCEPT ![f] = v]
  BY <1>3 DEF Backends
<1>6. /\ b2.ctx = b.ctx /\ b2.avail = b.avail /\ b2.made = b.made /\ b2.event = b.event
      /\ b2.sq = b.sq /\ b2.kern = b.kern /\ b2.cq = b.cq /\ b2.pending = b.pending
      /\ b2.acceptq = b.acceptq /\ b2.queues = b.queues
  BY <1>3 DEF Backends
<1>7. QED
  BY <1>1, <1>4, <1>5, <1>6 DEF SameUring, SameContexts, SchedAs

LEMMA SameChainDooms ==
  ASSUME NEW b, Wf(b), Dooms(b), NEW c \in Contexts, NEW b2, Touches(b, b2, c),
         SameChain(b, b2, c),
         b.ctx[c].ref = MULTISHOT_REFCOUNT => b2.ctx[c].ref = MULTISHOT_REFCOUNT
  PROVE  Dooms(b2)
<1>1. Doomed(b2, c) => ~NoRequest(b2, c)
  BY DEF SameChain, Dooms, NoRequest
<1>2. AskedOK(b2, c)
  BY SameAskedOK DEF Dooms
<1>3. QED
  BY <1>1, <1>2, TouchedDooms

LEMMA SameSqOK ==
  ASSUME NEW b, NEW b2, SqOK(b), SameSq(b, b2)
  PROVE  SqOK(b2)
  BY DEF SqOK, SameSq

ChainContext(k, f, m) == [NewContext(k, f) EXCEPT !.ref = m + 1]

IsChainRecord(x, k, f, m) ==
    /\ x \in ContextRecords /\ x.ref = m + 1 /\ x.ref # 0 /\ x.type = k /\ x.fiber = f
    /\ x.resume = "nil" /\ x.buffers = "none" /\ x.ref # MULTISHOT_REFCOUNT

LEMMA ChainRecord ==
  ASSUME NEW f \in Fibers, NEW k \in {"CHAIN", "SPLICE"}, NEW m \in 1..4
  PROVE  IsChainRecord(ChainContext(k, f, m), k, f, m)
<1> DEFINE x == ChainContext(k, f, m)
<1>1. NewContext(k, f) \in ContextRecords
  BY NewContextType DEF Types, Kinds
<1>2. m + 1 \in Nat /\ m + 1 <= 5 /\ m + 1 # 0
  OBVIOUS
<1>3. x \in ContextRecords /\ x.ref = m + 1
  BY <1>1, <1>2, Recounted DEF ChainContext
<1>4. x.ref # MULTISHOT_REFCOUNT
  BY <1>2, <1>3, NotMultishot
<1>5. x.type = k /\ x.fiber = f /\ x.resume = "nil" /\ x.buffers = "none"
  BY DEF NewContext, ChainContext
<1>6. QED
  BY <1>2, <1>3, <1>4, <1>5 DEF IsChainRecord

LastReplaced(s, e, d, n) ==
    /\ n = Len(s) + 1 /\ n > 0 /\ Len(Append(s, e)) = n /\ Append(s, e)[n] = e
    /\ [Append(s, e) EXCEPT ![n] = d] = Append(s, d)

LEMMA ReplacedLast ==
  ASSUME NEW S, NEW s \in Seq(S), NEW e, NEW d
  PROVE  LastReplaced(s, e, d, Len(s) + 1)
<1> DEFINE R == S \cup {e, d}
           n == Len(s) + 1
           t == Append(s, e)
           u == Append(s, d)
<1>1. s \in Seq(R) /\ e \in R /\ d \in R /\ Len(s) \in Nat
  OBVIOUS
<1> HIDE DEF R
<1>2. Extends(t, s, e, R, n) /\ Extends(u, s, d, R, n)
  BY <1>1, AppendExtends DEF NextPlace
<1>3. Len(t) = n /\ t \in Seq(R) /\ u \in Seq(R)
  BY <1>1
<1> HIDE DEF t, u, n
<1>4. DOMAIN t = DOMAIN u /\ t[n] = e /\ u[n] = d
  BY <1>2 DEF Extends
<1>5. \A i \in DOMAIN t : i # n => t[i] = u[i]
  BY <1>2 DEF Extends
<1>6. t = [i \in DOMAIN t |-> t[i]] /\ u = [i \in DOMAIN u |-> u[i]]
  BY <1>3
<1>7. [t EXCEPT ![n] = d] = u
  <2> DEFINE v == [t EXCEPT ![n] = d]
  <2>1. v = [i \in DOMAIN t |-> IF i = n THEN d ELSE t[i]]
    OBVIOUS
  <2>2. \A i \in DOMAIN t : (IF i = n THEN d ELSE t[i]) = u[i]
    BY <1>4, <1>5
  <2>3. QED
    BY <1>4, <1>6, <2>1, <2>2
<1>8. n = Len(s) + 1 /\ n > 0
  BY <1>1 DEF n
<1>9. LastReplaced(s, e, d, n)
  BY <1>3, <1>4, <1>7, <1>8, Zenon DEF t, u, LastReplaced
<1>10. QED
  BY <1>9 DEF n

LEMMA ClosedChain ==
  ASSUME NEW c, NEW q, NEW o, NEW o2
  PROVE  Chain(c, q, o).open = o /\ [Chain(c, q, o) EXCEPT !.open = o2] = Chain(c, q, o2)
  BY DEF Chain

LEMMA SameFields ==
  ASSUME NEW b, NEW d, Shaped(b), Shaped(d), b.ctx = d.ctx, b.avail = d.avail, b.made = d.made,
         b.sq = d.sq, b.pending = d.pending, b.kern = d.kern, b.cq = d.cq, b.sched = d.sched,
         b.event = d.event, b.acceptq = d.acceptq, b.queues = d.queues
  PROVE  b = d
  BY Zenon DEF Shaped

\* Other entries of the submission queue than those of b, and contexts.
With(b, b2, q, x) ==
    /\ Shaped(b2) /\ b2.sq = q /\ b2.ctx = x /\ b2.avail = b.avail /\ b2.made = b.made
    /\ b2.pending = b.pending /\ b2.kern = b.kern /\ b2.cq = b.cq /\ b2.sched = b.sched
    /\ b2.event = b.event /\ b2.acceptq = b.acceptq /\ b2.queues = b.queues

LEMMA WithBoth ==
  ASSUME NEW b, Shaped(b), NEW q, NEW x
  PROVE  With(b, [b EXCEPT !.sq = q], q, b.ctx) /\ With(b, [b EXCEPT !.ctx = x], b.sq, x)
<1>1. With(b, [b EXCEPT !.sq = q], q, b.ctx)
  BY DEF Shaped, With
<1>2. With(b, [b EXCEPT !.ctx = x], b.sq, x)
  BY DEF Shaped, With
<1>3. QED
  BY <1>1, <1>2

\* An entry left open and then closed by a cancellation is a plain entry.
OpenAndCancelled(b, c, reqs, m) ==
    io_uring_backend_cancel([prep(b, c, reqs, TRUE)
        EXCEPT !.ctx[c] = [@ EXCEPT !.ref = m, !.buffers = "rejected"]], c)

Recast(x, m, y) ==
    y = [[x EXCEPT !.ref = m, !.buffers = "rejected"] EXCEPT !.result = ECANCELED]

LEMMA OpenThenCancel ==
  ASSUME NEW b, Wf(b), NEW c \in Contexts, NEW reqs \in Seq(Requests), NEW m,
         NEW y, Recast(b.ctx[c], m, y)
  PROVE  IsPut(prep(b, c, reqs, FALSE), OpenAndCancelled(b, c, reqs, m), c, y)
<1> DEFINE n == Len(b.sq) + 1
           eo == Chain(c, reqs, TRUE)
           ec == Chain(c, reqs, FALSE)
           qo == Append(b.sq, eo)
           qc == Append(b.sq, ec)
           p == prep(b, c, reqs, FALSE)
           po == prep(b, c, reqs, TRUE)
           x1 == [b.ctx EXCEPT ![c] = [@ EXCEPT !.ref = m, !.buffers = "rejected"]]
           x2 == [x1 EXCEPT ![c].result = ECANCELED]
           b1 == [po EXCEPT !.ctx[c] = [@ EXCEPT !.ref = m, !.buffers = "rejected"]]
           cc == [b1 EXCEPT !.ctx[c].result = ECANCELED]
           b2 == prep_cancel(cc, c)
<1>1. b \in Backends /\ Shaped(b) /\ b.sq \in Seq(Entries)
      /\ b.ctx \in [Contexts -> ContextRecords]
  BY ShapedBackend, BackendFields DEF Wf
<1>2. ~(Len(b.sq) > 0 /\ b.sq[Len(b.sq)].open)
  <2>1. ASSUME Len(b.sq) > 0 PROVE Len(b.sq) \in DOMAIN b.sq
    BY <1>1, <2>1
  <2>2. QED
    BY <1>1, <2>1, EntryFields
<1>3. p = [b EXCEPT !.sq = qc] /\ po = [b EXCEPT !.sq = qo]
  BY <1>2 DEF prep
<1>4. /\ Len(qo) = n /\ qo[n] = eo /\ [qo EXCEPT ![n] = ec] = qc /\ n > 0
  <2>1. LastReplaced(b.sq, eo, ec, Len(b.sq) + 1)
    BY <1>1, ReplacedLast
  <2>2. QED
    BY <2>1, Zenon DEF LastReplaced
<1>5. eo.open /\ [eo EXCEPT !.open = FALSE] = ec
  <2>1. Chain(c, reqs, TRUE).open = TRUE
    BY DEF Chain
  <2>2. PICK o : o = TRUE
    OBVIOUS
  <2>3. PICK o2 : o2 = FALSE
    OBVIOUS
  <2>4. [Chain(c, reqs, o) EXCEPT !.open = o2] = Chain(c, reqs, o2)
    BY ClosedChain
  <2>5. [Chain(c, reqs, TRUE) EXCEPT !.open = FALSE] = Chain(c, reqs, FALSE)
    BY <2>2, <2>3, <2>4, Zenon
  <2>6. QED
    BY <2>1, <2>5
<1> HIDE DEF qo, qc, eo, ec, n, p, po
<1>6. With(b, p, qc, b.ctx) /\ With(b, po, qo, b.ctx)
  BY <1>1, <1>3, WithBoth
<1>7. With(po, b1, qo, x1)
  <2>1. b1 = [po EXCEPT !.ctx = x1]
    BY <1>6 DEF With
  <2> HIDE DEF b1, x1
  <2>2. Shaped(po) /\ po.sq = qo
    BY <1>6 DEF With
  <2>3. QED
    BY <2>1, <2>2, WithBoth
<1>8. With(b1, cc, qo, x2)
  <2> HIDE DEF b1, x1
  <2>1. cc = [b1 EXCEPT !.ctx = x2]
    BY <1>7 DEF With
  <2> HIDE DEF cc, x2
  <2>2. Shaped(b1) /\ b1.sq = qo
    BY <1>7 DEF With
  <2>3. QED
    BY <2>1, <2>2, WithBoth
<1> HIDE DEF b1, cc, x1
<1>9. With(cc, b2, qc, x2)
  <2>1. cc.sq = qo /\ Shaped(cc) /\ cc.ctx = x2
    BY <1>8 DEF With
  <2>2. Len(cc.sq) > 0 /\ cc.sq[Len(cc.sq)].open
    BY <1>4, <1>5, <2>1
  <2>3. b2 = [cc EXCEPT !.sq[Len(cc.sq)].open = FALSE]
    BY <2>2 DEF prep_cancel
  <2>4. b2 = [cc EXCEPT !.sq = [cc.sq EXCEPT ![Len(cc.sq)] = [cc.sq[Len(cc.sq)] EXCEPT !.open = FALSE]]]
    BY <2>3
  <2>5. b2 = [cc EXCEPT !.sq = qc]
    BY <1>4, <1>5, <2>1, <2>4
  <2> HIDE DEF b2
  <2>6. QED
    BY <2>1, <2>5, WithBoth
<1> HIDE DEF b2
<1>10. x2 = [b.ctx EXCEPT ![c] = y]
  BY <1>1 DEF x1, x2, Recast
<1>11. OpenAndCancelled(b, c, reqs, m) = b2
  BY DEF OpenAndCancelled, io_uring_backend_cancel, b2, cc, b1, po
<1> DEFINE z == [p EXCEPT !.ctx = x2]
<1>12. With(p, z, qc, x2)
  <2> HIDE DEF x2
  <2>1. Shaped(p) /\ p.sq = qc
    BY <1>6 DEF With
  <2>2. QED
    BY <2>1, WithBoth
<1>13. z = [p EXCEPT !.ctx[c] = y]
  BY <1>6, <1>10 DEF With
<1> HIDE DEF z, x2
<1>14. b2 = z
  <2>1. Shaped(b2) /\ Shaped(z)
    BY <1>9, <1>12 DEF With
  <2>2. b2.ctx = z.ctx /\ b2.sq = z.sq /\ b2.avail = z.avail /\ b2.made = z.made
        /\ b2.pending = z.pending /\ b2.kern = z.kern /\ b2.cq = z.cq
    BY <1>6, <1>7, <1>8, <1>9, <1>12 DEF With
  <2>3. /\ b2.sched = z.sched /\ b2.event = z.event /\ b2.acceptq = z.acceptq
        /\ b2.queues = z.queues
    BY <1>6, <1>7, <1>8, <1>9, <1>12 DEF With
  <2>4. QED
    BY <2>1, <2>2, <2>3, SameFields
<1>15. QED
  BY <1>11, <1>13, <1>14 DEF IsPut, p

OnlyThat(c, x, y, x2, y2) ==
    \A d \in Contexts : d # c => (d \in {x, y} <=> d \in {x2, y2})

LEMMA OneIsFree ==
  ASSUME NEW b, Wf(b), NEW c \in Contexts, b.ctx[c].ref = 0
  PROVE  CanAcquire(b, 1)
<1>1. b.avail \in Seq(Contexts) /\ b.made \in 0..MaxContexts /\ MaxContexts \in Nat
  BY BackendFields, BackendAssumption DEF Wf, Counts
<1>2. Free(b, c)
  BY DEF Wf, StoreOK
<1>3. PICK n \in Nat : n = Len(b.avail)
  BY <1>1
<1>4. DOMAIN b.avail = 1..n
  BY <1>1, <1>3
<1>5. c \in 1..MaxContexts
  BY DEF Contexts
<1>6. n + (MaxContexts - b.made) >= 1
  <2>1. CASE c > b.made
    BY <1>1, <1>3, <1>5, <2>1
  <2>2. CASE \E i \in DOMAIN b.avail : b.avail[i] = c
    <3>1. n >= 1
      BY <1>3, <1>4, <2>2
    <3>2. QED
      BY <1>1, <3>1
  <2>3. QED
    BY <1>2, <2>1, <2>2 DEF Free
<1>7. QED
  BY <1>3, <1>6, Zenon DEF CanAcquire

\* c has one request, which will wake f.
Going(b, f, c) ==
    /\ WaitsForOne(b, f, c) /\ Out(b, c) = 1 /\ b.ctx[c].type = "SPLICE"
    /\ c \in Contexts

PipeRequest(k) == <<Request(k, BufLen)>>

LEMMA PipeRequestType ==
  ASSUME NEW k \in {"SPLICE", "DRAIN"}
  PROVE  /\ PipeRequest(k) \in Seq(Requests) /\ PipeRequest(k) # <<>> /\ Len(PipeRequest(k)) = 1
         /\ DOMAIN PipeRequest(k) = {1} /\ PipeRequest(k)[1].kind = k
<1>1. BufLen \in Lengths /\ k \in Kinds
  BY BackendAssumption DEF Lengths, Kinds
<1>2. Request(k, BufLen) \in Requests /\ Request(k, BufLen).kind = k
  BY <1>1, RequestType
<1>3. QED
  BY <1>2 DEF PipeRequest

IsPipeContext(x, f) ==
    /\ x \in ContextRecords /\ x.ref = 2 /\ x.type = "SPLICE" /\ x.fiber = f
    /\ x.resume = "nil" /\ x.buffers = "none" /\ x.result = 0

LEMMA PipeContext ==
  ASSUME NEW f \in Fibers
  PROVE  IsPipeContext(NewContext("SPLICE", f), f)
<1>1. NewContext("SPLICE", f) \in ContextRecords
  BY NewContextType DEF Types, Kinds
<1>2. QED
  BY <1>1 DEF NewContext, IsPipeContext

LEMMA QuietTimer ==
  ASSUME NEW b, NEW f, NEW s, TimerOK(b, f, s), NEW b2, Quiet(b, b2)
  PROVE  TimerOK(b2, f, s) /\ b2.sched = b.sched /\ b2.event = b.event
  BY DEF TimerOK, Mine, Quiet, SameContexts, SameRest

IsEvent(b, b2, e) == b2 = [b EXCEPT !.event = e]
EventKeeps(b, b2, e) ==
    /\ Wf(b2) /\ SameRest(b, b2) /\ SameSq(b, b2) /\ b2.event = e
    /\ b2.ctx = b.ctx /\ b2.avail = b.avail /\ b2.made = b.made
    /\ \A d \in Contexts : SameChain(b, b2, d)

LEMMA WithEvent ==
  ASSUME NEW b, Wf(b), NEW e \in Contexts \cup {NoCtx}, NEW b2, IsEvent(b, b2, e)
  PROVE  EventKeeps(b, b2, e)
<1>1. b \in Backends /\ OneChain(b) /\ StoreOK(b)
  BY DEF Wf
<1>2. /\ b.ctx \in [Contexts -> ContextRecords] /\ b.avail \in Seq(Contexts)
      /\ b.made \in Counts /\ b.pending \in Nat
  BY <1>1, BackendFields, Zenon
<1>3. Shaped(b)
  BY <1>1, ShapedBackend, Zenon
<1>4. /\ b2.sq = b.sq /\ b2.pending = b.pending /\ b2.kern = b.kern /\ SameRest(b, b2)
      /\ b2.ctx = b.ctx /\ b2.avail = b.avail /\ b2.made = b.made /\ b2.event = e
  BY <1>3 DEF Shaped, SameRest, IsEvent
<1>5. Shaped(b2)
  BY <1>3 DEF Shaped, IsEvent
<1>6. b2 \in Backends /\ OneChain(b2) /\ \A d \in Contexts : SameChain(b, b2, d)
  BY <1>1, <1>2, <1>4, <1>5, WithContexts, Zenon
<1>7. StoreOK(b2)
  BY <1>1, <1>4 DEF StoreOK, Free
<1>8. QED
  BY <1>1, <1>4, <1>6, <1>7 DEF Wf, EventKeeps, SameSq

\* What happens to c, and the event that may be c, leaves another context alone.
LEMMA MineTouched ==
  ASSUME NEW b, NEW b2, NEW c, Touches(b, b2, c), b2.event \in {b.event, c, NoCtx},
         NEW f, NEW d, Mine(b, f, d), d # c
  PROVE  Mine(b2, f, d) /\ b2.ctx[d] = b.ctx[d]
  BY NoCtxContext DEF Mine, Touches, OthersKept

LEMMA RemovedType ==
  ASSUME NEW S, NEW q \in Seq(S), NEW f
  PROVE  RemoveFirst(q, f) \in Seq(S)
<1> DEFINE at == {i \in 1 .. Len(q) : q[i] = f}
<1>1. CASE \E i \in 1 .. Len(q) : q[i] = f
  <2>1. RemoveFirst(q, f) = RemoveAt(q, Min(at))
    BY <1>1, Zenon DEF RemoveFirst, SelectInSeq
  <2>2. Min(at) \in at
    <3>1. at \in SUBSET Nat /\ at # {}
      BY <1>1
    <3> HIDE DEF at
    <3>2. QED
      BY <3>1, MinOfNats
  <2>3. Min(at) \in 1 .. Len(q)
    BY <2>2
  <2> HIDE DEF at
  <2>4. RemoveAt(q, Min(at)) \in Seq(S)
    BY <2>3 DEF RemoveAt
  <2>5. QED
    BY <2>1, <2>4, Zenon
<1>2. CASE ~\E i \in 1 .. Len(q) : q[i] = f
  BY <1>2, Zenon DEF RemoveFirst
<1>3. QED
  BY <1>1, <1>2

\* Accept queue q becomes w.
IsQueue(b, b2, q, w) == b2 = [b EXCEPT !.queues[q] = w]
LEMMA QueueFields ==
  ASSUME NEW b \in Backends, NEW q \in Fibers
  PROVE  /\ b.queues[q] \in AcceptQueues /\ b.queues[q].fds \in Seq(Int)
         /\ b.queues[q].waiters \in Seq(Fibers)
         /\ \A w \in Seq(Fibers) : [b.queues[q] EXCEPT !.waiters = w] \in AcceptQueues
         /\ \A w \in Seq(Int) : [b.queues[q] EXCEPT !.fds = w] \in AcceptQueues
<1>1. b.queues[q] \in AcceptQueues
  BY BackendFields
<1>2. QED
  BY <1>1 DEF AcceptQueues

LEMMA MultishotDistinct == MULTISHOT_REFCOUNT # 0 /\ MULTISHOT_REFCOUNT \in Nat
  BY DEF MULTISHOT_REFCOUNT

LEMMA MultishotRequestType ==
  /\ <<MultishotRequest>> \in Seq(Requests) /\ <<MultishotRequest>> # <<>>
  /\ \A i \in DOMAIN <<MultishotRequest>> : <<MultishotRequest>>[i].kind = "MULTISHOT_ACCEPT"
<1>1. 0 \in Lengths /\ "MULTISHOT_ACCEPT" \in Kinds
  BY BackendAssumption DEF Lengths, Kinds
<1>2. MultishotRequest \in Requests /\ MultishotRequest.kind = "MULTISHOT_ACCEPT"
  BY <1>1, RequestType DEF MultishotRequest
<1> HIDE DEF MultishotRequest
<1>3. QED
  BY <1>2

\* The record of a multishot accept of fiber f.
ShotRecord(x, f) ==
    /\ x \in ContextRecords /\ x.ref = MULTISHOT_REFCOUNT /\ x.type = "MULTISHOT_ACCEPT"
    /\ x.fiber = f /\ x.resume = "nil"

\* The multishot accept begins.
IsShot(b, b2, c) == b2 = [b EXCEPT !.ctx[c].ref = MULTISHOT_REFCOUNT]

\* The socket's accept queue, and the queues.
IsAccepting(b, b2, p, qs) == b2 = [b EXCEPT !.acceptq = p, !.queues = qs]

LEMMA AcceptingSame ==
  ASSUME NEW b \in Backends, NEW p \in Fibers \cup {NoFiber},
         NEW qs \in [Fibers -> AcceptQueues], NEW b2, IsAccepting(b, b2, p, qs)
  PROVE  SameUring(b, b2) /\ b2.sched = b.sched /\ b2.acceptq = p /\ b2.queues = qs
<1>1. b2 \in Backends
  BY DEF Backends, IsAccepting
<1>2. /\ b2.ctx = b.ctx /\ b2.avail = b.avail /\ b2.made = b.made /\ b2.event = b.event
      /\ b2.sq = b.sq /\ b2.kern = b.kern /\ b2.cq = b.cq /\ b2.pending = b.pending
      /\ b2.sched = b.sched /\ b2.acceptq = p /\ b2.queues = qs
  BY DEF Backends, IsAccepting
<1>3. QED
  BY <1>1, <1>2 DEF SameUring, SameContexts

\* A backend that has made no context, and fibers that hold none.
BlankRing(b) ==
    /\ b \in Backends /\ b.ctx = [c \in Contexts |-> Freed] /\ b.avail = <<>> /\ b.made = 0
    /\ b.sq = <<>> /\ b.kern = {} /\ b.cq = <<>> /\ b.event = NoCtx
IsInitial(b, n, p, qs, sc) ==
    b = [InitialBackend EXCEPT !.pending = n, !.acceptq = p, !.queues = qs, !.sched = sc]

LEMMA InitialTypes ==
  ASSUME NEW n \in Nat, NEW sc \in [Fibers -> Values \cup {NoValue}],
         NEW p \in Fibers \cup {NoFiber}, NEW qs \in [Fibers -> AcceptQueues],
         NEW b, IsInitial(b, n, p, qs, sc)
  PROVE  BlankRing(b) /\ b.pending = n /\ b.sched = sc
<1>1. /\ b.ctx = [c \in Contexts |-> Freed] /\ b.avail = <<>> /\ b.made = 0 /\ b.sq = <<>>
      /\ b.kern = {} /\ b.cq = <<>> /\ b.event = NoCtx /\ b.pending = n /\ b.sched = sc
      /\ b.acceptq = p /\ b.queues = qs
  BY DEF IsInitial, InitialBackend, Freed
<1>2. Shaped(b)
  BY DEF IsInitial, InitialBackend, Shaped
<1>3. b.ctx \in [Contexts -> ContextRecords] /\ 0 \in Counts
  BY <1>1, NewContextType, BackendAssumption DEF Counts
<1>4. /\ b.avail \in Seq(Contexts) /\ b.made \in Counts /\ b.sq \in Seq(Entries)
      /\ b.pending \in Nat /\ b.kern \in SUBSET Chains /\ b.cq \in Seq(Completions)
      /\ b.event \in Contexts \cup {NoCtx}
  BY <1>1, <1>3
<1>5. b \in Backends
  BY <1>1, <1>2, <1>3, <1>4, Rebuilt, Zenon
<1>6. QED
  BY <1>1, <1>5 DEF BlankRing

\* Context c is still what fiber f relies on.
Alike(b, b2, f, c) ==
    /\ Mine(b, f, c) => Mine(b2, f, c)
    /\ Waits(b, f, c) => Waits(b2, f, c)
    /\ WaitsForOne(b, f, c) => WaitsForOne(b2, f, c)
    /\ b2.ctx[c].type = b.ctx[c].type
    /\ b2.ctx[c].ref = MULTISHOT_REFCOUNT <=> b.ctx[c].ref = MULTISHOT_REFCOUNT

LEMMA UntouchedAlike ==
  ASSUME NEW b \in Backends, NEW b2 \in Backends, NEW c, Untouched(b, b2, c),
         NEW f, c # b2.event, b2.sched[f] = NoValue => b.sched[f] = NoValue
  PROVE  Alike(b, b2, f, c) /\ \A o \in BOOLEAN : Drains(b, c, o) => Drains(b2, c, o)
<1>1. b2.ctx[c] = b.ctx[c]
  BY DEF Untouched
<1>2. QED
  BY <1>1, UntouchedWaits DEF Alike

\* A fiber in double_splice finds the pipe as it should be.
PipeOK(b, s) == s.pc = "await" /\ s.op = "double_splice" => Drains(b, s.aux, s.ctx # NoCtx)

\* What happens to one context c of fiber f, and to nothing else.
Happens(b, b2, F, f, c) ==
    /\ Wf(b2) /\ b2.event = b.event /\ c # b.event /\ Mine(b, f, c)
    /\ \A d \in Contexts : d # c => Untouched(b, b2, d)
    /\ \A g \in Fibers : SchedKept(b, b2, g, F[g])
    /\ AskedOK(b2, c) /\ (Doomed(b2, c) => ReqsOf(b2, c) # <<>>)
Bears(b, b2, f, c, s) ==
    c \in Claims(s) => Alike(b, b2, f, c) /\ (c = s.aux => PipeOK(b2, s))

\* A request ends as it can: with a result of its own, or with ECANCELED once the
\* kernel has its cancellation.
Ending(b, c, v) ==
    \/ v # ECANCELED /\ ReqsOf(b, c)[1].kind \notin {"MULTISHOT_ACCEPT", "EVENT"}
    \/ v = ECANCELED /\ Stopped(b, c)

LEMMA LoneRequest ==
  ASSUME NEW x
  PROVE  Len(<<x>>) = 1 /\ <<x>>[1] = x /\ DOMAIN <<x>> = {1} /\ <<x>> # <<>>
  OBVIOUS

\* The pipe of fiber state s that context c drains does not end before it is closed.
PipeGives(s, c, v) ==
    s.pc = "await" /\ s.op = "double_splice" /\ s.aux = c /\ s.ctx # NoCtx => v # 0

LEMMA ResultTypes ==
  ASSUME NEW q \in Requests, NEW v \in Results(q)
  PROVE  v \in Outcomes /\ v # ECANCELED /\ q.kind # "EVENT" /\ v \in Int
<1>1. q.kind \in Kinds /\ q.len \in Int /\ q.len <= BufLen /\ BufLen \in Nat /\ BufLen >= 1
  BY BackendAssumption DEF Requests, Lengths
<1>2. q.kind # "EVENT"
  BY <1>1 DEF Results
<1>3. v \in {ERROR} \cup (0..q.len) \cup {0, 1}
  <2>1. CASE q.kind \in {"READ", "RECV", "RECVMSG", "SPLICE", "DRAIN"}
    BY <2>1 DEF Results
  <2>2. CASE q.kind \in {"WRITE", "WRITEV", "SEND", "SENDMSG"}
    BY <2>2, <1>1 DEF Results
  <2>3. CASE q.kind \in {"CONNECT", "CLOSE"}
    BY <2>3 DEF Results
  <2>4. CASE q.kind \in {"ACCEPT", "MULTISHOT_ACCEPT"}
    BY <2>4 DEF Results
  <2>5. CASE q.kind = "POLL"
    BY <2>5 DEF Results
  <2>6. CASE q.kind = "CHUNK"
    BY <2>6 DEF Results
  <2>7. CASE q.kind = "TIMEOUT"
    BY <2>7 DEF Results
  <2>8. QED
    BY <1>1, <1>2, <2>1, <2>2, <2>3, <2>4, <2>5, <2>6, <2>7 DEF Kinds
<1>4. QED
  BY <1>1, <1>2, <1>3 DEF Outcomes, ECANCELED, ERROR

\* The first completion is taken off the completion queue; it is one of c.
AnswersShrink(b, b2, c) ==
    /\ \A d \in Contexts : d # c => Moved(b, b2, d, 1)
    /\ Done(b, c) = Done(b2, c) + 1
    /\ 1 \in Answers(b, c)
    /\ \A j \in Answers(b2, c) : j \in Int /\ j + 1 \in Answers(b, c) /\ b2.cq[j] = b.cq[j + 1]
    /\ \A i \in Answers(b, c) : i # 1 => i > 1 /\ i - 1 \in Answers(b2, c)

TakenOff(b, b2) == b.cq # <<>> /\ b2.cq = Tail(b.cq)

LEMMA Shrinking ==
  ASSUME NEW b \in Backends, NEW b2 \in Backends, TakenOff(b, b2), NEW c, c = b.cq[1].ctx
  PROVE  AnswersShrink(b, b2, c)
<1> DEFINE n == Len(b.cq)
           S == Answers(b, c)
           T == Answers(b2, c)
           R == S \ {1}
<1>1. b.cq \in Seq(Completions) /\ b.cq # <<>> /\ b2.cq = Tail(b.cq)
  BY BackendFields DEF TakenOff
<1>2. /\ n \in Nat /\ n >= 1 /\ DOMAIN b.cq = 1..n /\ DOMAIN b2.cq = 1..(n - 1)
      /\ \A i \in 1..(n - 1) : b2.cq[i] = b.cq[i + 1]
  BY <1>1
<1> HIDE DEF n
<1>3. \A d, i : i \in Answers(b, d) <=> i \in 1..n /\ b.cq[i].ctx = d
  BY <1>2 DEF Answers
<1>4. \A d, j : j \in Answers(b2, d) <=> j \in 1..(n - 1) /\ b.cq[j + 1].ctx = d
  BY <1>2 DEF Answers
<1>5. 1 \in S
  BY <1>2, <1>3
<1>6. \A j \in 1..(n - 1) : j \in Int /\ j + 1 \in 1..n /\ j + 1 # 1
  BY <1>2
<1>7. \A i \in 1..n : i # 1 => i > 1 /\ i - 1 \in 1..(n - 1) /\ (i - 1) + 1 = i
  BY <1>2
<1>8. ASSUME NEW d
      PROVE  /\ \A j \in Answers(b2, d) : j \in Int /\ j + 1 \in Answers(b, d) /\ j + 1 # 1
                                          /\ b2.cq[j] = b.cq[j + 1]
             /\ \A i \in Answers(b, d) : i # 1 => /\ i > 1 /\ i - 1 \in Answers(b2, d)
                                                  /\ b2.cq[i - 1] = b.cq[i]
  BY <1>2, <1>3, <1>4, <1>6, <1>7
<1>9. \A d \in Contexts : d # c => Moved(b, b2, d, 1)
  <2>1. SUFFICES ASSUME NEW d \in Contexts, d # c PROVE Moved(b, b2, d, 1)
    OBVIOUS
  <2>2. \A i \in Answers(b, d) : i # 1
    BY <1>3, <2>1
  <2>3. QED
    BY <1>8, <2>2 DEF Moved
<1>10. IsFiniteSet(S) /\ Cardinality(S) \in Nat /\ IsFiniteSet(T) /\ Cardinality(T) \in Nat
  BY AnswersFinite DEF Done
<1>11. IsFiniteSet(R) /\ Cardinality(R) = Cardinality(S) - 1
  BY <1>5, <1>10, FS_RemoveElement
<1>12. Cardinality(R) = Cardinality(T)
  <2> DEFINE m == [i \in R |-> i - 1]
  <2>1. R \subseteq Int /\ \A i \in R : i - 1 \in T
    BY <1>3, <1>8
  <2>2. \A j \in T : j \in Int /\ j + 1 \in R
    BY <1>8
  <2> HIDE DEF R, T
  <2>3. m \in [R -> T]
    BY <2>1
  <2>4. \A j \in T : m[j + 1] = j
    BY <2>2
  <2>5. m \in Surjection(R, T)
    BY <2>2, <2>3, <2>4 DEF Surjection
  <2>6. m \in Injection(R, T)
    BY <2>1, <2>3 DEF Injection, IsInjective
  <2>7. ExistsBijection(R, T)
    BY <2>5, <2>6 DEF ExistsBijection, Bijection
  <2>8. QED
    BY <1>11, <2>7, FS_Bijection
<1>13. Done(b, c) = Done(b2, c) + 1
  BY <1>10, <1>11, <1>12 DEF Done
<1>14. QED
  BY <1>5, <1>8, <1>9, <1>13 DEF AnswersShrink

\* The head of the completion queue becomes the result of its context.
ResultSet(b, b1, c, e) ==
    /\ Wf(b1) /\ TakenOff(b, b1) /\ \A d \in Contexts : d # c => b1.ctx[d] = b.ctx[d]
    /\ SameButResult(b.ctx[c], b1.ctx[c]) /\ b1.ctx[c].result = e.res
    /\ b1.event = b.event /\ b1.sq = b.sq /\ b1.pending = b.pending /\ b1.sched = b.sched
    /\ b1.acceptq = b.acceptq /\ b1.queues = b.queues
    /\ \A d \in Contexts : SameChain(b, b1, d)

LEMMA ResultStep ==
  ASSUME NEW b, Wf(b), b.cq # <<>>, NEW e, e = Head(b.cq), NEW c, c = e.ctx,
         NEW b0, b0 = [b EXCEPT !.cq = Tail(@)], NEW b1, b1 = [b0 EXCEPT !.ctx[c].result = e.res]
  PROVE  /\ c \in Contexts /\ e \in Completions /\ b.cq[1] = e
         /\ ResultSet(b, b1, c, e)
<1>1. b \in Backends /\ OneChain(b) /\ StoreOK(b) /\ Shaped(b) /\ b.cq \in Seq(Completions)
  BY BackendFields, ShapedBackend DEF Wf
<1>2. e \in Completions /\ b.cq[1] = e /\ Tail(b.cq) \in Seq(Completions)
  BY <1>1
<1>3. c \in Contexts /\ e.res \in Outcomes
  BY <1>2 DEF Completions
<1> DEFINE t == Tail(b.cq)
<1>4. b0 = [b EXCEPT !.cq = t] /\ t \in Seq(Completions)
  BY <1>2
<1> HIDE DEF t
<1>5. /\ Shaped(b0) /\ b0.cq = t /\ SameContexts(b, b0) /\ b0.sq = b.sq /\ b0.kern = b.kern
      /\ b0.pending = b.pending /\ b0.sched = b.sched /\ b0.acceptq = b.acceptq
      /\ b0.queues = b.queues
  BY <1>1, <1>4 DEF Shaped, SameContexts
<1>6. b0 \in Backends
  <2>1. /\ b.ctx \in [Contexts -> ContextRecords] /\ b.avail \in Seq(Contexts)
        /\ b.made \in Counts /\ b.sq \in Seq(Entries) /\ b.pending \in Nat
        /\ b.kern \in SUBSET Chains
        /\ b.sched \in [Fibers -> Values \cup {NoValue}]
        /\ b.event \in Contexts \cup {NoCtx} /\ b.acceptq \in Fibers \cup {NoFiber}
        /\ b.queues \in [Fibers -> AcceptQueues]
    BY <1>1, BackendFields, Zenon
  <2>2. QED
    BY <1>4, <1>5, <2>1, Rebuilt DEF SameContexts
<1>7. OneChain(b0) /\ \A d \in Contexts : SameChain(b, b0, d)
  BY <1>1, <1>5, <1>6, ChainsKept
<1>8. Wf(b0) /\ b0.ctx = b.ctx /\ b0.event = b.event
  BY <1>1, <1>5, <1>6, <1>7, StoreKept DEF Wf, SameContexts
<1> DEFINE y == [b0.ctx[c] EXCEPT !.result = e.res]
<1>9. b0.ctx[c] \in ContextRecords
  BY <1>3, <1>6, ContextFields
<1>10. y \in ContextRecords /\ SameButResult(b0.ctx[c], y) /\ y.result = e.res
  BY <1>3, <1>9 DEF ContextRecords, SameButResult
<1>11. IsPut(b0, b1, c, y)
  BY DEF IsPut
<1> HIDE DEF y
<1>12. FreeAlike(b0.ctx[c], y)
  BY <1>10 DEF FreeAlike, SameButResult
<1>13. PutKeeps(b0, b1, c, y)
  BY <1>3, <1>8, <1>10, <1>11, <1>12, WithRecord
<1>14. /\ Wf(b1) /\ SameRest(b0, b1) /\ (\A d \in Contexts : d # c => b1.ctx[d] = b0.ctx[d])
       /\ b1.ctx[c] = y /\ b1.event = b0.event /\ b1.sq = b0.sq /\ b1.pending = b0.pending
       /\ \A d \in Contexts : SameChain(b0, b1, d)
  BY <1>13 DEF PutKeeps, OthersKept
<1>15. \A d \in Contexts : SameChain(b, b1, d)
  BY <1>7, <1>14 DEF SameChain, SameAsked
<1>16. TakenOff(b, b1)
  BY <1>5, <1>14 DEF TakenOff, SameRest, t
<1>17. ResultSet(b, b1, c, e)
  <2>1. SameButResult(b.ctx[c], b1.ctx[c]) /\ b1.ctx[c].result = e.res
    BY <1>8, <1>10, <1>14, Zenon
  <2>2. \A d \in Contexts : d # c => b1.ctx[d] = b.ctx[d]
    BY <1>8, <1>14, Zenon
  <2>3. /\ b1.event = b.event /\ b1.sq = b.sq /\ b1.pending = b.pending /\ b1.sched = b.sched
        /\ b1.acceptq = b.acceptq /\ b1.queues = b.queues
    BY <1>5, <1>8, <1>14, Zenon DEF SameRest
  <2>4. QED
    BY <1>14, <1>15, <1>16, <2>1, <2>2, <2>3, Zenon DEF ResultSet
<1>18. QED
  BY <1>2, <1>3, <1>17

\* The completion at the head of the queue, with result v, is handled: context c
\* loses a reference, and fiber f is scheduled if that was the last of its requests.
Drops(b, b2, c, v) ==
    /\ Wf(b2) /\ TakenOff(b, b2) /\ b2.event = b.event
    /\ \A d \in Contexts : d # c => b2.ctx[d] = b.ctx[d]
    /\ \A d \in Contexts : SameChain(b, b2, d)
    /\ b.ctx[c].ref = 1 =>
          b2.ctx[c].ref = 0 /\ b2.ctx[c].type = "NONE" /\ b2.ctx[c].resume = "nil"
    /\ b.ctx[c].ref # 1 =>
          /\ b2.ctx[c].ref = b.ctx[c].ref - 1 /\ b2.ctx[c].result = v
          /\ b2.ctx[c].type = b.ctx[c].type /\ b2.ctx[c].fiber = b.ctx[c].fiber
          /\ b2.ctx[c].resume = b.ctx[c].resume /\ b2.ctx[c].buffers = b.ctx[c].buffers
Wakens(b, b2, c, f, v) ==
    /\ \A g \in Fibers : g # f => b2.sched[g] = b.sched[g]
    /\ b2.sched[f] = b.sched[f] \/ (b.ctx[c].ref = 2 /\ b2.sched[f] = b.ctx[c].resume)
    /\ b2.sched[f] = NoValue => b.sched[f] = NoValue /\ (b.ctx[c].ref # 2 \/ v = ECANCELED)

\* The completion at the head of the queue.
HeadIs(b, c, v) == b.cq[1].ctx = c /\ b.cq[1].res = v

\* A completion of a multishot accept: the last one says that it was cancelled, and
\* the others that there are more.
ShotKnown(b, c, n, v) ==
    /\ n = 0 \/ (GoesOn(b, c) /\ ~Doomed(b, c))
    /\ v = ECANCELED => HasEnded(b, c) /\ Answers(b, c) = {1} /\ n = 0
    /\ v # ECANCELED => b.cq[1].more

LEMMA ShotAnswered ==
  ASSUME NEW b \in Backends, NEW c \in Contexts, NEW n, MultishotOK(b, c, n),
         1 \in Answers(b, c), NEW v, HeadIs(b, c, v)
  PROVE  ShotKnown(b, c, n, v)
<1>1. GoesOn(b, c) \/ HasEnded(b, c)
  BY DEF MultishotOK
<1>2. n = 0 \/ (GoesOn(b, c) /\ ~Doomed(b, c))
  BY DEF MultishotOK
<1>3. GoesOn(b, c) => v # ECANCELED /\ b.cq[1].more
  BY DEF GoesOn, HeadIs
<1>4. ASSUME HasEnded(b, c)
      PROVE  (v = ECANCELED => Answers(b, c) = {1}) /\ (v # ECANCELED => b.cq[1].more)
  <2>1. PICK i \in Answers(b, c) :
          /\ ~b.cq[i].more /\ b.cq[i].res = ECANCELED
          /\ \A j \in Answers(b, c) : j # i => j < i /\ b.cq[j].more /\ b.cq[j].res # ECANCELED
    BY <1>4 DEF HasEnded
  <2>2. v # ECANCELED => b.cq[1].more
    BY <2>1 DEF HeadIs
  <2>3. ASSUME v = ECANCELED PROVE Answers(b, c) = {1}
    <3>1. i = 1
      BY <2>1, <2>3 DEF HeadIs
    <3>2. Answers(b, c) \subseteq 1..Len(b.cq) /\ Len(b.cq) \in Nat
      BY AnswersFinite
    <3>3. ASSUME NEW j \in Answers(b, c) PROVE j = 1
      BY <2>1, <3>1, <3>2, <3>3
    <3>4. QED
      BY <3>3
  <2>4. QED
    BY <2>2, <2>3
<1>5. v = ECANCELED => HasEnded(b, c) /\ ~GoesOn(b, c)
  BY <1>1, <1>3
<1>6. QED
  BY <1>1, <1>2, <1>3, <1>4, <1>5 DEF ShotKnown

\* The last completion of a multishot accept: its context is free.
Closes(b, b2, c) ==
    /\ Wf(b2) /\ TakenOff(b, b2) /\ b2.event = b.event /\ b2.sched = b.sched
    /\ \A d \in Contexts : d # c => b2.ctx[d] = b.ctx[d]
    /\ \A d \in Contexts : SameChain(b, b2, d)
    /\ b2.ctx[c].ref = 0 /\ b2.ctx[c].type = "NONE" /\ b2.ctx[c].resume = "nil"

\* The others leave it as it is.
LEMMA ShotGoesOn ==
  ASSUME NEW b \in Backends, NEW b2 \in Backends, NEW c \in Contexts, NEW n,
         MultishotOK(b, c, n), NEW v, v # ECANCELED, HeadIs(b, c, v), AnswersShrink(b, b2, c),
         SameChain(b, b2, c), b2.ctx[c].type = b.ctx[c].type
  PROVE  MultishotOK(b2, c, n)
<1>1. ReqsOf(b2, c) = ReqsOf(b, c) /\ (Doomed(b2, c) => Doomed(b, c))
  BY DEF SameChain
<1>2. \A j \in Answers(b2, c) : j \in Int /\ j + 1 \in Answers(b, c) /\ b2.cq[j] = b.cq[j + 1]
  BY DEF AnswersShrink
<1>3. ASSUME GoesOn(b, c) PROVE GoesOn(b2, c)
  BY <1>1, <1>2, <1>3 DEF GoesOn
<1>4. ASSUME HasEnded(b, c) PROVE HasEnded(b2, c)
  <2>1. PICK i \in Answers(b, c) :
          /\ ~b.cq[i].more /\ b.cq[i].res = ECANCELED
          /\ \A j \in Answers(b, c) : j # i => j < i /\ b.cq[j].more /\ b.cq[j].res # ECANCELED
    BY <1>4 DEF HasEnded
  <2>2. i # 1
    BY <2>1 DEF HeadIs
  <2>3. i > 1 /\ i - 1 \in Answers(b2, c) /\ i \in Int
    <3>1. i \in 1..Len(b.cq) /\ Len(b.cq) \in Nat
      BY AnswersFinite
    <3>2. QED
      BY <2>2, <3>1 DEF AnswersShrink
  <2>4. b2.cq[i - 1] = b.cq[i]
    <3>1. b2.cq[i - 1] = b.cq[(i - 1) + 1] /\ (i - 1) + 1 = i
      BY <1>2, <2>3
    <3>2. QED
      BY <3>1
  <2>5. ASSUME NEW j \in Answers(b2, c), j # i - 1
        PROVE  j < i - 1 /\ b2.cq[j].more /\ b2.cq[j].res # ECANCELED
    <3>1. j \in Int /\ j + 1 \in Answers(b, c) /\ b2.cq[j] = b.cq[j + 1] /\ j + 1 # i
      BY <1>2, <2>3, <2>5
    <3>2. j + 1 < i /\ b.cq[j + 1].more /\ b.cq[j + 1].res # ECANCELED
      BY <2>1, <3>1
    <3>3. QED
      BY <2>3, <3>1, <3>2
  <2>6. ReqsOf(b2, c) = <<>>
    BY <1>1, <1>4 DEF HasEnded
  <2> DEFINE k == i - 1
  <2>7. /\ k \in Answers(b2, c) /\ ~b2.cq[k].more /\ b2.cq[k].res = ECANCELED
        /\ \A j \in Answers(b2, c) : j # k => j < k /\ b2.cq[j].more /\ b2.cq[j].res # ECANCELED
    BY <2>1, <2>3, <2>4, <2>5
  <2> HIDE DEF k
  <2>8. QED
    BY <2>6, <2>7 DEF HasEnded
<1>5. QED
  BY <1>1, <1>3, <1>4 DEF MultishotOK

\* io_uring_backend_handle_completion, of a context that counts its references.
LEMMA HandleCounted ==
  ASSUME NEW b, NEW c \in Contexts, NEW e, NEW b1, ResultSet(b, b1, c, e), Wf(b),
         b.ctx[c].ref \notin {0, MULTISHOT_REFCOUNT}, NEW f \in Fibers, Mine(b, f, c),
         NEW b3, b3 = (IF Wakes(b1.ctx[c]) THEN Fiber_make_runnable(b1, f, b1.ctx[c].resume)
                       ELSE b1),
         NEW b2, b2 = context_store_release(b3, c)
  PROVE  Drops(b, b2, c, e.res) /\ Wakens(b, b2, c, f, e.res) /\ b2.sq = b.sq
         /\ b2.pending = b.pending
<1> DEFINE x == b.ctx[c]
           y == b1.ctx[c]
<1>1. /\ Wf(b1) /\ b1 \in Backends /\ TakenOff(b, b1) /\ b1.event = b.event /\ b1.sq = b.sq
      /\ b1.pending = b.pending /\ b1.sched = b.sched
      /\ \A d \in Contexts : d # c => b1.ctx[d] = b.ctx[d]
      /\ \A d \in Contexts : SameChain(b, b1, d)
  BY DEF ResultSet, Wf
<1>2. /\ y.type = x.type /\ y.fiber = x.fiber /\ y.ref = x.ref /\ y.resume = x.resume
      /\ y.buffers = x.buffers /\ y.result = e.res
  BY DEF ResultSet, SameButResult
<1>3. y.resume \in Values /\ b1.sched[f] \in Values \cup {NoValue}
  BY <1>1, ContextFields, BackendFields
<1>4. /\ SameUring(b1, b3) /\ \A g \in Fibers : g # f => b3.sched[g] = b1.sched[g]
      /\ b3.sched[f] = b1.sched[f] \/ (y.ref = 2 /\ b3.sched[f] = y.resume)
      /\ b3.sched[f] = NoValue => b1.sched[f] = NoValue /\ (y.ref # 2 \/ y.result = ECANCELED)
  <2>1. CASE Wakes(y)
    <3> DEFINE v == IF IS_EXCEPTION(b1.sched[f]) /\ ~IS_EXCEPTION(y.resume) THEN b1.sched[f]
                    ELSE y.resume
    <3>1. v \in Values /\ v # NoValue /\ v \in {b1.sched[f], y.resume}
      BY <1>3 DEF IS_EXCEPTION, Values, NoValue
    <3>2. IsSched(b1, b3, f, v)
      BY <2>1 DEF IsSched, Fiber_make_runnable
    <3> HIDE DEF v
    <3>3. SchedAs(b1, b3, f, v)
      BY <1>1, <3>1, <3>2, SchedSame
    <3>4. y.ref = 2
      BY <2>1 DEF Wakes
    <3>5. QED
      BY <3>1, <3>3, <3>4 DEF SchedAs
  <2>2. CASE ~Wakes(y)
    <3>1. b3 = b1
      BY <2>2
    <3>2. SameUring(b1, b3)
      BY <1>1, <3>1 DEF SameUring, SameContexts
    <3>3. y.ref # 2 \/ y.result = ECANCELED
      BY <2>2 DEF Wakes
    <3>4. QED
      BY <3>1, <3>2, <3>3
  <2>3. QED
    BY <2>1, <2>2
<1> HIDE DEF y
<1>5. Wf(b3) /\ \A d \in Contexts : Untouched(b1, b3, d)
  BY <1>1, <1>4, SameUringUntouched
<1>6. b3.ctx = b1.ctx /\ b3.event = b1.event /\ b3.cq = b1.cq /\ b3.sq = b1.sq
      /\ b3.pending = b1.pending
  BY <1>4 DEF SameUring, SameContexts
<1>7. b3.ctx[c] = y
  BY <1>6 DEF y
<1>8. y.ref # 0 /\ y.ref # MULTISHOT_REFCOUNT
  BY <1>2
<1>9. /\ Wf(b2) /\ OthersKept(b3, b2, c) /\ b2.event = b3.event
      /\ b2.sq = b3.sq /\ b2.pending = b3.pending
      /\ \A d \in Contexts : SameChain(b3, b2, d)
      /\ LastReference(y) => b2.ctx[c] = Freed
      /\ ~LastReference(y) =>
            /\ b2.ctx[c].ref = y.ref - 1
            /\ b2.ctx[c].fiber = y.fiber /\ b2.ctx[c].type = y.type
            /\ b2.ctx[c].result = y.result /\ b2.ctx[c].resume = y.resume
            /\ b2.ctx[c].buffers = y.buffers
  BY <1>5, <1>7, <1>8, Released
<1>10. LastReference(y) <=> x.ref = 1
  BY <1>2, <1>8 DEF LastReference
<1>11. Freed.ref = 0 /\ Freed.type = "NONE" /\ Freed.resume = "nil"
  BY DEF Freed, NewContext
<1>12. b2.cq = b3.cq /\ b2.sched = b3.sched /\ \A d \in Contexts : d # c => b2.ctx[d] = b3.ctx[d]
  BY <1>9 DEF OthersKept, SameRest
<1>13. \A d \in Contexts : SameChain(b, b2, d)
  <2>1. SUFFICES ASSUME NEW d \in Contexts PROVE SameChain(b, b2, d)
    OBVIOUS
  <2>2. SameChain(b, b1, d) /\ SameChain(b1, b3, d) /\ SameChain(b3, b2, d)
    BY <1>1, <1>5, <1>9, <2>1 DEF Untouched
  <2>3. QED
    BY <2>2 DEF SameChain, SameAsked
<1>14. Drops(b, b2, c, e.res)
  <2>1. TakenOff(b, b2)
    BY <1>1, <1>6, <1>12 DEF TakenOff
  <2>2. \A d \in Contexts : d # c => b2.ctx[d] = b.ctx[d]
    BY <1>1, <1>6, <1>12, Zenon
  <2>3. x.ref = 1 => b2.ctx[c].ref = 0 /\ b2.ctx[c].type = "NONE" /\ b2.ctx[c].resume = "nil"
    BY <1>9, <1>10, <1>11
  <2>4. x.ref # 1 =>
          /\ b2.ctx[c].ref = x.ref - 1 /\ b2.ctx[c].result = e.res
          /\ b2.ctx[c].type = x.type /\ b2.ctx[c].fiber = x.fiber
          /\ b2.ctx[c].resume = x.resume /\ b2.ctx[c].buffers = x.buffers
    BY <1>2, <1>9, <1>10
  <2>5. Wf(b2) /\ b2.event = b.event
    BY <1>1, <1>6, <1>9
  <2> DEFINE v == e.res
  <2>6. x.ref # 1 =>
          /\ b2.ctx[c].ref = x.ref - 1 /\ b2.ctx[c].result = v
          /\ b2.ctx[c].type = x.type /\ b2.ctx[c].fiber = x.fiber
          /\ b2.ctx[c].resume = x.resume /\ b2.ctx[c].buffers = x.buffers
    BY <2>4
  <2> HIDE DEF v
  <2>7. Drops(b, b2, c, v)
    BY <1>13, <2>1, <2>2, <2>3, <2>5, <2>6, Zenon DEF Drops
  <2>8. QED
    BY <2>7 DEF v
<1>15. Wakens(b, b2, c, f, e.res)
  BY <1>1, <1>2, <1>4, <1>12 DEF Wakens
<1>16. QED
  BY <1>1, <1>6, <1>9, <1>14, <1>15

\* The properties are stated of the queues themselves; they count what Out counts.
LEMMA CancellationIs ==
  ASSUME NEW c \in Contexts, NEW r \in Entries, r.ctx = c, r.reqs = <<>>
  PROVE  r = Cancellation(c)
BY DEF Entries, Cancellation, Chain

\* What the completion of context c says or, once it is handled, its result.
Shows(b, c, r) ==
    \/ Answers(b, c) = {} /\ r = b.ctx[c].result
    \/ \E i \in Answers(b, c) : r = b.cq[i].res
Positive(r) == IF r > 0 THEN r ELSE 0
LEMMA ShowsMoved ==
  ASSUME NEW b, NEW b2, NEW c, NEW k \in Nat, Moved(b, b2, c, k), b2.ctx[c] = b.ctx[c],
         Answers(b2, c) \subseteq Int, NEW r, Shows(b2, c, r)
  PROVE  Shows(b, c, r)
<1>1. CASE Answers(b2, c) = {}
  BY <1>1 DEF Shows, Moved
<1>2. CASE Answers(b2, c) # {}
  <2>1. PICK j \in Answers(b2, c) : r = b2.cq[j].res
    BY <1>2 DEF Shows
  <2>2. j + k \in Answers(b, c) /\ (j + k) - k = j
    BY <2>1 DEF Moved
  <2>3. b2.cq[j] = b.cq[j + k]
    BY <2>2 DEF Moved
  <2>4. QED
    BY <2>1, <2>2, <2>3 DEF Shows
<1>3. QED
  BY <1>1, <1>2

=============================================================================
