------------------------------ MODULE TaskStore ------------------------------
(***************************************************************************)
(* The in-memory task registry, jobs/mod.rs (TaskStore): a mutex around a  *)
(* map of records, so every method is one step.  Any client may call any   *)
(* method at any time here; TaskRunner restricts the callers to the code's.*)
(*                                                                         *)
(* Time is SystemTime, a clock that may be set back.  finish, cancel and   *)
(* set_status read it under the lock.  create reads it before it takes the *)
(* lock and gc is handed a reading, so both work with a time `at` that may *)
(* lie before or, after the clock was set back, behind the clock.          *)
(***************************************************************************)
EXTENDS Naturals, FiniteSets

CONSTANTS TaskIds,     \* the ids uuid::Uuid::new_v4 hands out, never twice
          Ttls,        \* the ttls a client may request
          Unset,       \* the request that names no ttl
          DefaultTtl, MaxTtl, MaxTasks,  \* the store's configuration
          Payloads,    \* what finish may be called with
          NoResult,    \* the absence of one
          NoTask,      \* the absence of a record
          MaxTime      \* bound: the clock's last value

TaskStates == {"Working", "Completed", "Failed", "Cancelled"}
Messages == {"queued", "running", "completed", "failed", "cancelled"}
Times == 0..MaxTime

Record == [state : TaskStates, msg : Messages, updated : Times, ttl : 0..MaxTtl,
           result : Payloads \cup {NoResult}, token : BOOLEAN, chan : TaskStates]

ASSUME StoreAssumption ==
  /\ IsFiniteSet(TaskIds)
  /\ Ttls \subseteq Nat /\ Unset \notin Nat
  /\ DefaultTtl \in Nat /\ MaxTtl \in Nat /\ MaxTasks \in Nat /\ MaxTime \in Nat
  /\ NoResult \notin Payloads
  /\ NoTask \notin Record

\* TaskStore::new: a zero cap still leaves room for one task.
Capacity == IF MaxTasks = 0 THEN 1 ELSE MaxTasks

VARIABLES tasks,  \* the map: the record of each id, or NoTask
          clock   \* SystemTime

storeVars == <<tasks, clock>>

Live == {t \in TaskIds : tasks[t] # NoTask}
IsTerminal(state) == state # "Working"
Terminal(t) == t \in Live /\ IsTerminal(tasks[t].state)
Working(t) == t \in Live /\ ~IsTerminal(tasks[t].state)

\* is_expired: terminal, and the retention window, which opens with the last
\* update, has closed.  A reading from before the update closes nothing.
IsExpired(r, at) ==
  /\ IsTerminal(r.state)
  /\ at >= r.updated
  /\ at - r.updated >= r.ttl

Expired(at) == {t \in Live : IsExpired(tasks[t], at)}

\* Seeded fault: a requested ttl is taken as it comes.
Clamp_Uncapped(req) == IF req = Unset THEN DefaultTtl ELSE req

Clamp(req) ==
  LET wanted == IF req = Unset THEN DefaultTtl ELSE req
  IN  IF wanted < MaxTtl THEN wanted ELSE MaxTtl

-----------------------------------------------------------------------------
Init == tasks = [t \in TaskIds |-> NoTask] /\ clock = 0

Retain(kept) == [t \in TaskIds |-> IF t \in kept THEN tasks[t] ELSE NoTask]

Fresh(req, at) ==
  [state |-> "Working", msg |-> "queued", updated |-> at, ttl |-> Clamp(req),
   result |-> NoResult, token |-> FALSE, chan |-> "Working"]

\* Seeded fault: the sweep runs only once the cap is exceeded.
Remaining_Lazy(at) ==
  IF Cardinality(Live) > Capacity THEN Live \ Expired(at) ELSE Live

\* create sweeps the expired tasks out only when the map is at the cap.
Remaining(at) ==
  IF Cardinality(Live) >= Capacity THEN Live \ Expired(at) ELSE Live

\* Seeded fault: the off-by-one of `>` for `>=`.
Admit_OffByOne(t, req, at) ==
  /\ t \notin Live
  /\ Cardinality(Remaining(at)) <= Capacity
  /\ tasks' = [Retain(Remaining(at)) EXCEPT ![t] = Fresh(req, at)]
  /\ UNCHANGED clock

\* create that finds room: a record is inserted under a fresh id.
Admit(t, req, at) ==
  /\ t \notin Live
  /\ Cardinality(Remaining(at)) < Capacity
  /\ tasks' = [Retain(Remaining(at)) EXCEPT ![t] = Fresh(req, at)]
  /\ UNCHANGED clock

\* create that finds none: Err(TaskStoreFull).
Refuse(at) ==
  /\ Cardinality(Remaining(at)) >= Capacity
  /\ tasks' = Retain(Remaining(at))
  /\ UNCHANGED clock

\* Seeded fault: a heartbeat that comes late is taken.
SetStatus_Late(t, msg) ==
  /\ \/ t \in Live /\ tasks' = [tasks EXCEPT ![t].msg = msg, ![t].updated = clock]
     \/ t \notin Live /\ UNCHANGED tasks
  /\ UNCHANGED clock

\* set_status, which an evicted or terminal task ignores.
SetStatus(t, msg) ==
  /\ \/ /\ Working(t)
        /\ tasks' = [tasks EXCEPT ![t].msg = msg, ![t].updated = clock]
     \/ ~Working(t) /\ UNCHANGED tasks
  /\ UNCHANGED clock

\* Seeded fault: retention runs from the last heartbeat.
FinishedRecord_Undated(r, payload, failed) ==
  LET end == IF failed THEN "Failed" ELSE "Completed"
  IN  [r EXCEPT !.state = end, !.msg = IF failed THEN "failed" ELSE "completed",
                !.result = payload, !.chan = end]

\* Seeded fault: `send` to a channel nobody listens to leaves it as it was.
FinishedRecord_Unsent(r, payload, failed) ==
  [r EXCEPT !.state = IF failed THEN "Failed" ELSE "Completed",
            !.msg = IF failed THEN "failed" ELSE "completed",
            !.updated = clock, !.result = payload]

FinishedRecord(r, payload, failed) ==
  [r EXCEPT !.state = IF failed THEN "Failed" ELSE "Completed",
            !.msg = IF failed THEN "failed" ELSE "completed",
            !.updated = clock,
            !.result = payload,
            !.chan = IF failed THEN "Failed" ELSE "Completed"]

\* finish, which an evicted or terminal task ignores.
Finish(t, payload, failed) ==
  /\ \/ /\ Working(t)
        /\ tasks' = [tasks EXCEPT ![t] = FinishedRecord(tasks[t], payload, failed)]
     \/ ~Working(t) /\ UNCHANGED tasks
  /\ UNCHANGED clock

CancelledRecord(r) ==
  [r EXCEPT !.state = "Cancelled", !.msg = "cancelled", !.updated = clock,
            !.token = TRUE, !.chan = "Cancelled"]

\* Seeded fault: a task that has finished can still be cancelled.
Cancel_Late(t) ==
  /\ t \in Live
  /\ tasks' = [tasks EXCEPT ![t] = CancelledRecord(tasks[t])]
  /\ UNCHANGED clock

\* cancel that is obeyed: it returns the snapshot.  On an unknown or terminal
\* task it returns an error and changes nothing.
Cancel(t) ==
  /\ Working(t)
  /\ tasks' = [tasks EXCEPT ![t] = CancelledRecord(tasks[t])]
  /\ UNCHANGED clock

\* gc(at)
Gc(at) == tasks' = Retain(Live \ Expired(at)) /\ UNCHANGED clock

Tick == clock < MaxTime /\ clock' = clock + 1 /\ UNCHANGED tasks

\* The system's clock is set back.
SetBack == clock' \in {now \in Times : now < clock} /\ UNCHANGED tasks

Next ==
  \/ \E t \in TaskIds :
       \/ \E req \in Ttls \cup {Unset}, at \in Times : Admit(t, req, at)
       \/ SetStatus(t, "running")
       \/ \E payload \in Payloads, failed \in BOOLEAN : Finish(t, payload, failed)
       \/ Cancel(t)
  \/ \E at \in Times : Refuse(at) \/ Gc(at)
  \/ Tick
  \/ SetBack

Spec == Init /\ [][Next]_storeVars

-----------------------------------------------------------------------------
(* Properties *)

\* The map holds records, within the store's configuration.
StoreTypeOK == tasks \in [TaskIds -> Record \cup {NoTask}] /\ clock \in Times

\* The fields of a record agree, whatever order finish, cancel, late heartbeats
\* and the drop guard come in: a payload exactly when the work ended, a fired
\* token exactly when the task was cancelled, and a channel that shows a late
\* subscriber the true state.
RecordCoherent ==
  \A t \in Live :
    /\ tasks[t].chan = tasks[t].state
    /\ tasks[t].token <=> tasks[t].state = "Cancelled"
    /\ tasks[t].result # NoResult <=> tasks[t].state \in {"Completed", "Failed"}
    /\ tasks[t].state = "Working" <=> tasks[t].msg \in {"queued", "running"}

\* No call changes a terminal task any more, its retention clock included: it
\* keeps its first outcome until it is evicted.
TerminalFrozen ==
  [][\A t \in TaskIds : Terminal(t) => tasks'[t] \in {tasks[t], NoTask}]_storeVars

\* The store keeps the promise of TaskLife: bounded, settled once, and no
\* running task evicted, however the clock jumps.
Life == INSTANCE TaskLife
          WITH phase <- [t \in TaskIds |->
                           IF tasks[t] = NoTask THEN "absent" ELSE tasks[t].state]

ImplementsTaskLife == Life!Spec
=============================================================================
