---------------------------- MODULE StreamSlots ----------------------------
(***************************************************************************)
(* The streams of several sessions and the semaphore they share            *)
(* (server/app.py, _throttled_stream around _raw_event_stream).  A request *)
(* waits for a slot before its generator looks at the lock of its session, *)
(* so the rejection of a busy session has to wait as well.                 *)
(*                                                                         *)
(*   new -> waiting -> entered -> streaming -> closing -> over             *)
(*                          \---> rejected --/                             *)
(*                                                                         *)
(* A client that goes away while its response is being sent leaves both    *)
(* generators suspended at a yield; they are closed one after the other    *)
(* when they are collected, the outer one with the slot first:             *)
(*                                                                         *)
(*   streaming or rejected -> abandoned -> loose -> over                   *)
(*                                                                         *)
(* What a stream does in between is ChatStream's; here it may take as long *)
(* as it likes, a question to the user included.                           *)
(***************************************************************************)
EXTENDS FifoPermits

CONSTANTS
  MaxStreams,    \* bound of the model: requests, numbered as they come
  SlotSessions,
  MaxStreaming   \* _sse_semaphore, 5

ASSUME SlotsAssumption == MaxStreams \in Nat /\ MaxStreaming \in Nat \ {0}

SlotStreams == 1..MaxStreams

VARIABLES
  slotPlace,   \* where the generator of each request is
  slotSession, \* the session of each request
  slotPool,    \* _sse_semaphore
  slotLocks    \* the locks of the sessions

slotVars == <<slotPlace, slotSession, slotPool, slotLocks>>

SlotPlaces == {"new", "waiting", "entered", "streaming", "rejected", "closing",
               "abandoned", "loose", "over"}

SlotTypeOK ==
  /\ slotPlace \in [SlotStreams -> SlotPlaces] /\ slotSession \in [SlotStreams -> SlotSessions]
  /\ slotPool \in PermitPool(SlotStreams) /\ slotLocks \in [SlotSessions -> BOOLEAN]

SlotInit ==
  /\ slotPlace = [s \in SlotStreams |-> "new"] /\ slotSession \in [SlotStreams -> SlotSessions]
  /\ slotPool = AllFree /\ slotLocks = [x \in SlotSessions |-> FALSE]
-----------------------------------------------------------------------------
StreamAt(s, place) == slotPlace' = [slotPlace EXCEPT ![s] = place]
SetLock(s, held)   == slotLocks' = [slotLocks EXCEPT ![slotSession[s]] = held]
GiveSlot(s)        == slotPool' = Leave(slotPool, s)

\* A response starts to iterate: async with _sse_semaphore.
AskForSlot(s) ==
  /\ slotPlace[s] = "new" /\ \A t \in 1..s - 1 : slotPlace[t] # "new"
  /\ StreamAt(s, "waiting") /\ slotPool' = Join(slotPool, s, MaxStreaming)
  /\ UNCHANGED <<slotSession, slotLocks>>

\* The slot is the request's: it loads the session.
EnterSlot(s) ==
  /\ slotPlace[s] = "waiting" /\ s \in slotPool.holders
  /\ StreamAt(s, "entered")
  /\ UNCHANGED <<slotSession, slotPool, slotLocks>>

\* The session is loaded; nothing suspends between that and try_lock.
LockOrReject(s) ==
  /\ slotPlace[s] = "entered"
  /\ IF slotLocks[slotSession[s]] THEN StreamAt(s, "rejected") /\ UNCHANGED slotLocks
                                  ELSE StreamAt(s, "streaming") /\ SetLock(s, TRUE)
  /\ UNCHANGED <<slotSession, slotPool>>

\* The stream is over, fails or is cancelled: its finally block unlocks the
\* session, whoever has locked it, and then waits for the agent.
CloseStream(s) ==
  /\ slotPlace[s] \in {"streaming", "rejected"}
  /\ StreamAt(s, "closing") /\ SetLock(s, FALSE)
  /\ UNCHANGED <<slotSession, slotPool>>

LeaveSlot(s) ==
  /\ slotPlace[s] = "closing"
  /\ StreamAt(s, "over") /\ GiveSlot(s)
  /\ UNCHANGED <<slotSession, slotLocks>>

\* The client is gone before the session is loaded: the finally block finds
\* session_v2 not set and unlocks nothing.
GoneEarly(s) ==
  /\ slotPlace[s] \in {"waiting", "entered"}
  /\ StreamAt(s, "over") /\ GiveSlot(s)
  /\ UNCHANGED <<slotSession, slotLocks>>

\* The client is gone while the response sends what the stream has yielded.
Abandon(s) ==
  /\ slotPlace[s] \in {"streaming", "rejected"}
  /\ StreamAt(s, "abandoned")
  /\ UNCHANGED <<slotSession, slotPool, slotLocks>>

CloseOuter(s) ==
  /\ slotPlace[s] = "abandoned"
  /\ StreamAt(s, "loose") /\ GiveSlot(s)
  /\ UNCHANGED <<slotSession, slotLocks>>

CloseInner(s) ==
  /\ slotPlace[s] = "loose"
  /\ StreamAt(s, "over") /\ SetLock(s, FALSE)
  /\ UNCHANGED <<slotSession, slotPool>>

SlotNext == \E s \in SlotStreams :
  \/ AskForSlot(s) \/ EnterSlot(s) \/ LockOrReject(s) \/ CloseStream(s) \/ LeaveSlot(s)
  \/ GoneEarly(s) \/ Abandon(s) \/ CloseOuter(s) \/ CloseInner(s)

SlotSpec == SlotInit /\ [][SlotNext]_slotVars
-----------------------------------------------------------------------------
HasSlot(s) == slotPlace[s] \in {"entered", "streaming", "rejected", "closing", "abandoned"}

(***************************************************************************)
(* A request waits only while as many others as there are slots have not   *)
(* given theirs back, all of them requests that came before it; a client   *)
(* that goes away, in whatever place, takes no slot with it.               *)
(***************************************************************************)
SlotsAreServed ==
  \A i \in 1..Len(slotPool.queue) : LET s == slotPool.queue[i] IN
    Cardinality({t \in 1..s - 1 : t \in slotPool.holders /\ slotPlace[t] # "over"}) = MaxStreaming

(***************************************************************************)
(* No lock outlives the streams of its session: while it is held there is  *)
(* a stream of the session that will unlock it, and when none is left the  *)
(* session can be used; so can the slots.                                  *)
(***************************************************************************)
NothingStaysHeld ==
  /\ \A x \in SlotSessions : slotLocks[x] =>
       \E s \in SlotStreams : slotSession[s] = x /\ slotPlace[s] \in {"streaming", "abandoned", "loose"}
  /\ \A s \in slotPool.holders : HasSlot(s) \/ slotPlace[s] = "waiting"
  /\ Cardinality({s \in SlotStreams : HasSlot(s)}) <= MaxStreaming
=============================================================================
