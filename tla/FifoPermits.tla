---------------------------- MODULE FifoPermits ----------------------------
(***************************************************************************)
(* asyncio.Lock and asyncio.Semaphore as the program uses them: a bounded  *)
(* number of permits and a first-come-first-served line.  Both classes     *)
(* hand a released permit to the head of the line: a newcomer that arrives *)
(* before the woken waiter runs finds the line non-empty and joins it.     *)
(* The value is a record [holders, queue]; a lock is the case of capacity  *)
(* one.  A waiter that is cancelled leaves the line, and one that is       *)
(* cancelled after it was handed the permit passes it on.                  *)
(***************************************************************************)
EXTENDS Naturals, Sequences, FiniteSets

\* The type of a permit pool whose users come from P.
PermitPool(P) == [holders : SUBSET P, queue : Seq(P)]

\* Nobody holds a permit and nobody waits.
AllFree == [holders |-> {}, queue |-> <<>>]

\* acquire() returns without suspending.
CanEnter(pool, capacity) ==
    /\ pool.queue = <<>>
    /\ Cardinality(pool.holders) < capacity

\* acquire(): take a permit or join the line.
Join(pool, p, capacity) ==
    IF CanEnter(pool, capacity)
    THEN [holders |-> pool.holders \cup {p}, queue |-> pool.queue]
    ELSE [holders |-> pool.holders, queue |-> Append(pool.queue, p)]

\* The line without the place of p.
StepOut(queue, p) ==
    IF \E i \in 1 .. Len(queue) : queue[i] = p
    THEN LET i == CHOOSE j \in 1 .. Len(queue) : queue[j] = p
         IN  SubSeq(queue, 1, i - 1) \o SubSeq(queue, i + 1, Len(queue))
    ELSE queue

\* release() by a holder: the permit goes to the head of the line, if any.
Release(pool, p) ==
    IF pool.queue = <<>>
    THEN [holders |-> pool.holders \ {p}, queue |-> <<>>]
    ELSE [holders |-> (pool.holders \ {p}) \cup {Head(pool.queue)},
          queue   |-> Tail(pool.queue)]

\* A holder releases; a waiter that is cancelled gives up its place.
Leave(pool, p) ==
    IF p \in pool.holders
    THEN Release(pool, p)
    ELSE [holders |-> pool.holders, queue |-> StepOut(pool.queue, p)]
=============================================================================
