------------------------------ MODULE BuildGate ------------------------------
(***************************************************************************)
(* The build gate of the server: jobs/gate.rs (BuildGate::acquire), called *)
(* through server.rs (CompactMcp::acquire_gate), which races it against    *)
(* the call's cancellation token.                                          *)
(*                                                                         *)
(* The gate is a counting semaphore plus an atomic counter of queued       *)
(* calls.  The server runs on a multi-threaded runtime, so every atomic    *)
(* operation of `acquire` is a step of its own and other calls move        *)
(* between two of them.  A call can be cancelled or dropped only where the *)
(* code awaits: before the first poll and while parked in the semaphore.   *)
(*                                                                         *)
(* The semaphore itself is tokio's.  What src/ relies on is modelled here: *)
(* first come first served waiters, a permit that is handed to the oldest  *)
(* waiter by whoever returns it, and a permit handed to a waiter that goes *)
(* away before it looks being passed on.                                   *)
(***************************************************************************)
EXTENDS Naturals, FiniteSets, Sequences, SequencesExt

CONSTANTS Calls,          \* the tool calls that may be in flight at once
          MaxConcurrent,  \* the configured max_concurrent_builds
          MaxQueued       \* the configured max_queued_builds

ASSUME GateAssumption ==
  /\ IsFiniteSet(Calls)
  /\ MaxConcurrent \in Nat
  /\ MaxQueued \in Nat

\* Seeded fault: the configured number as it comes.
Permits_Unclamped == MaxConcurrent

\* BuildGate::new: a configured zero still leaves one permit.
Permits == IF MaxConcurrent = 0 THEN 1 ELSE MaxConcurrent

VARIABLES
  pc,       \* where each call is inside acquire_gate, see PcTypes
  avail,    \* permits the semaphore holds
  waiters,  \* calls parked in the semaphore, oldest first
  queued,   \* BuildGate.queued, the atomic counter
  fired     \* calls whose cancellation token has fired

gateVars == <<pc, avail, waiters, queued, fired>>

\* idle      no call, or one that is not in the gate
\* arriving  acquire_gate called, its future not polled yet
\* counting  try_acquire_owned failed, fetch_add comes next
\* over      fetch_add met a full counter, fetch_sub comes next
\* admitted  guard built, acquire_owned not polled yet
\* parked    waiting in the semaphore
\* granted   a permit is assigned to the waiter, which has not been polled
\* resumed   acquire_owned returned the permit, the guard is still alive
\* leaving   acquire_owned was dropped, the guard is still alive
\* holding   acquire returned Ok, the call owns the permit
PcTypes == {"idle", "arriving", "counting", "over", "admitted", "parked",
            "granted", "resumed", "leaving", "holding"}

\* The calls that fetch_add counted and no fetch_sub has discounted.
CountedPcs == {"over", "admitted", "parked", "granted", "resumed", "leaving"}
\* The calls a permit is out to.
PermitPcs == {"granted", "resumed", "holding"}

In(pcs) == {c \in Calls : pc[c] \in pcs}

-----------------------------------------------------------------------------
Init ==
  /\ pc = [c \in Calls |-> "idle"]
  /\ avail = Permits
  /\ waiters = <<>>
  /\ queued = 0
  /\ fired = {}

Goto(c, next) == pc' = [pc EXCEPT ![c] = next]

\* The call is over: the slot `c` may be used by another one, with a new token.
Forget(c) == fired' = fired \ {c}

\* A tool handler calls acquire_gate.
Begin(c) ==
  /\ pc[c] = "idle"
  /\ Goto(c, "arriving")
  /\ UNCHANGED <<avail, waiters, queued, fired>>

\* tasks/cancel fires the token of a call that is on its way.
Fire(c) ==
  /\ pc[c] # "idle"
  /\ c \notin fired
  /\ fired' = fired \cup {c}
  /\ UNCHANGED <<pc, avail, waiters, queued>>

\* `biased`: a token that fired before the first poll wins over the gate.
CancelEarly(c) ==
  /\ pc[c] = "arriving"
  /\ c \in fired
  /\ Goto(c, "idle")
  /\ Forget(c)
  /\ UNCHANGED <<avail, waiters, queued>>

\* Seeded fault: a call that the fast path serves is discounted as well.
TryAcquire_Discounts(c) ==
  /\ pc[c] = "arriving"
  /\ c \notin fired
  /\ \/ avail > 0 /\ avail' = avail - 1 /\ queued' = queued - 1 /\ Goto(c, "holding")
     \/ avail = 0 /\ Goto(c, "counting") /\ UNCHANGED <<avail, queued>>
  /\ UNCHANGED <<waiters, fired>>

\* The fast path: try_acquire_owned.
TryAcquire(c) ==
  /\ pc[c] = "arriving"
  /\ c \notin fired
  /\ \/ /\ avail > 0
        /\ avail' = avail - 1
        /\ Goto(c, "holding")
     \/ /\ avail = 0
        /\ Goto(c, "counting")
        /\ UNCHANGED avail
  /\ UNCHANGED <<waiters, queued, fired>>

\* Seeded fault: the off-by-one of `>` for `>=`.
Count_OffByOne(c) ==
  /\ pc[c] = "counting"
  /\ queued' = queued + 1
  /\ \/ queued > MaxQueued /\ Goto(c, "over")
     \/ queued <= MaxQueued /\ Goto(c, "admitted")
  /\ UNCHANGED <<avail, waiters, fired>>

\* queued.fetch_add(1) compared with max_queued.
Count(c) ==
  /\ pc[c] = "counting"
  /\ queued' = queued + 1
  /\ \/ queued >= MaxQueued /\ Goto(c, "over")
     \/ queued < MaxQueued /\ Goto(c, "admitted")
  /\ UNCHANGED <<avail, waiters, fired>>

\* The reject path's own fetch_sub, then Err(QueueFull).
Reject(c) ==
  /\ pc[c] = "over"
  /\ queued' = queued - 1
  /\ Goto(c, "idle")
  /\ Forget(c)
  /\ UNCHANGED <<avail, waiters>>

\* Seeded fault: the semaphore is looked at once, before the admission check.
Park_Blind(c) ==
  /\ pc[c] = "admitted"
  /\ waiters' = Append(waiters, c)
  /\ Goto(c, "parked")
  /\ UNCHANGED <<avail, queued, fired>>

\* The first poll of acquire_owned: take a permit, or join the line.
Park(c) ==
  /\ pc[c] = "admitted"
  /\ \/ /\ avail > 0
        /\ avail' = avail - 1
        /\ Goto(c, "resumed")
        /\ UNCHANGED waiters
     \/ /\ avail = 0
        /\ waiters' = Append(waiters, c)
        /\ Goto(c, "parked")
        /\ UNCHANGED avail
  /\ UNCHANGED <<queued, fired>>

\* Seeded fault: the select! without `biased`.
Resume_Unbiased(c) ==
  /\ pc[c] = "granted"
  /\ Goto(c, "resumed")
  /\ UNCHANGED <<avail, waiters, queued, fired>>

\* The poll that finds the assigned permit, unless the token wins.
Resume(c) ==
  /\ pc[c] = "granted"
  /\ c \notin fired
  /\ Goto(c, "resumed")
  /\ UNCHANGED <<avail, waiters, queued, fired>>

\* QueuedGuard::drop on the way out of acquire with a permit.
Uncount(c) ==
  /\ pc[c] = "resumed"
  /\ queued' = queued - 1
  /\ Goto(c, "holding")
  /\ UNCHANGED <<avail, waiters, fired>>

\* Seeded fault: a permit wakes the newest waiter.
ReturnPermit_Newest(c, next) ==
  \/ waiters = <<>> /\ avail' = avail + 1 /\ Goto(c, next) /\ UNCHANGED waiters
  \/ /\ waiters # <<>>
     /\ pc' = [pc EXCEPT ![c] = next, ![Last(waiters)] = "granted"]
     /\ waiters' = Front(waiters)
     /\ UNCHANGED avail

\* A permit comes back: to the oldest waiter, or to the semaphore.
ReturnPermit(c, next) ==
  \/ /\ waiters = <<>>
     /\ avail' = avail + 1
     /\ Goto(c, next)
     /\ UNCHANGED waiters
  \/ /\ waiters # <<>>
     /\ pc' = [pc EXCEPT ![c] = next, ![Head(waiters)] = "granted"]
     /\ waiters' = Tail(waiters)
     /\ UNCHANGED avail

\* Seeded fault: a permit assigned to a waiter is lost when the waiter goes.
Abandon_LosesPermit(c) ==
  /\ \/ /\ pc[c] = "parked"
        /\ \E i \in 1..Len(waiters) :
             waiters[i] = c /\ waiters' = RemoveAt(waiters, i)
     \/ pc[c] = "granted" /\ UNCHANGED waiters
  /\ Goto(c, "leaving")
  /\ UNCHANGED <<avail, queued, fired>>

\* The acquire_owned future is dropped, parked or with its permit assigned.
Abandon(c) ==
  /\ \/ /\ pc[c] = "parked"
        /\ \E i \in 1..Len(waiters) :
             waiters[i] = c /\ waiters' = RemoveAt(waiters, i)
        /\ Goto(c, "leaving")
        /\ UNCHANGED avail
     \/ /\ pc[c] = "granted"
        /\ ReturnPermit(c, "leaving")
  /\ UNCHANGED <<queued, fired>>

\* Seeded fault: the token is looked at again only when the permit arrives.
CancelQueued_OnTurn(c) == c \in fired /\ pc[c] = "granted" /\ Abandon(c)

\* The token fired while the call was queued.
CancelQueued(c) == c \in fired /\ Abandon(c)

\* The whole call is dropped while queued: a client went away.  Only plain
\* calls are dropped, and only tasks have a token that fires.
DropQueued(c) == c \notin fired /\ Abandon(c)

\* Seeded fault: the plain fetch_sub after the await, which a cancelled call
\* never reaches.
Leave_Leaks(c) ==
  /\ pc[c] = "leaving"
  /\ Goto(c, "idle")
  /\ Forget(c)
  /\ UNCHANGED <<avail, waiters, queued>>

\* QueuedGuard::drop on the way out without a permit.
Leave(c) ==
  /\ pc[c] = "leaving"
  /\ queued' = queued - 1
  /\ Goto(c, "idle")
  /\ Forget(c)
  /\ UNCHANGED <<avail, waiters>>

\* The call is done, or dropped, and its permit drops with it.
Release(c) ==
  /\ pc[c] = "holding"
  /\ ReturnPermit(c, "idle")
  /\ Forget(c)
  /\ UNCHANGED queued

\* What a call does by being polled, without help from anyone.
Poll(c) ==
  \/ CancelEarly(c)
  \/ TryAcquire(c)
  \/ Count(c)
  \/ Reject(c)
  \/ Park(c)
  \/ Resume(c)
  \/ Uncount(c)
  \/ CancelQueued(c)
  \/ Leave(c)

Next ==
  \E c \in Calls : Begin(c) \/ Fire(c) \/ Poll(c) \/ DropQueued(c) \/ Release(c)

Spec == Init /\ [][Next]_gateVars

\* A woken future is polled again.
PolledSpec == Spec /\ \A c \in Calls : WF_gateVars(Poll(c))

\* A holder gives its permit back: every subprocess has a timeout.
HoldersRelease == \A c \in Calls : WF_gateVars(Release(c))

-----------------------------------------------------------------------------
(* Properties *)

\* The gate's variables have their types.
TypeOK ==
  /\ pc \in [Calls -> PcTypes]
  /\ avail \in Nat
  /\ waiters \in Seq(Calls)
  /\ queued \in Nat
  /\ fired \in SUBSET Calls

\* The counter of gate.rs is exactly the number of calls between their
\* fetch_add and their fetch_sub: no way out of acquire, cancellation while
\* parked and rejection included, leaks a queue slot or gives one back twice.
CounterExact == queued = Cardinality(In(CountedPcs))

\* No permit is lost or minted: a permit assigned to a waiter that is
\* cancelled before it looks goes to the next waiter or back.
PermitsConserved == avail + Cardinality(In(PermitPcs)) = Permits

\* Never more calls in the queue than max_queued, although the bound is
\* enforced by a fetch_add and a separate fetch_sub of racing calls.
QueueBounded == Cardinality(In(CountedPcs \ {"over"})) <= MaxQueued

\* A free permit and a parked call never coexist: no wakeup is lost when a
\* permit comes back while calls arrive, park and leave.
NoIdlePermit == waiters # <<>> => avail = 0

\* Once its token fires, a call still queued never gets to run, even when a
\* permit has already been assigned to it (`biased` in acquire_gate).
CancelWins ==
  [][\A c \in fired : pc[c] \in {"arriving", "parked", "granted"} =>
       pc'[c] \notin {"resumed", "holding"}]_gateVars

\* The gate keeps the promise of BuildSlots: a bounded number of calls run,
\* a bounded line waits and is served in order, the fast path and a late first
\* poll never overtake it, and no slot idles beside a parked call.
Slots == INSTANCE BuildSlots
           WITH running <- In(PermitPcs), line <- waiters,
                Slots <- Permits, Places <- MaxQueued

ImplementsSlots == Slots!Spec

\* gate.rs:8, "only an over-full queue rejects": a call turned away meets
\* max_queued other calls that are waiting for a permit.
OnlyFullQueueRejects ==
  [][\A c \in Calls : pc[c] = "counting" /\ pc'[c] = "over" =>
       Cardinality(In({"admitted", "parked"})) >= MaxQueued]_gateVars

\* A cancelled call leaves the queue without waiting for its turn: no holder
\* has to release for it.
CancelFreesSlot ==
  \A c \in Calls : (c \in fired /\ pc[c] = "parked") ~> (pc[c] = "idle")

\* A parked call is served or leaves: no call starves while others come and
\* go on the fast path, as long as those who hold permits release them.
ParkedIsServed ==
  HoldersRelease =>
    \A c \in Calls : pc[c] = "parked" ~> pc[c] \in {"holding", "idle"}
=============================================================================
