------------------------------ MODULE TaskRunner ------------------------------
(***************************************************************************)
(* Task-augmented tool calls: tasks.rs of the server over the registry of  *)
(* TaskStore, with the eviction loop of main.rs.  Per task there is the    *)
(* request that enqueues it and the spawned worker that runs the tool;     *)
(* `tasks/result` requests wait for tasks, and clients cancel them.  They  *)
(* all run on several threads, so the calls of one are spread between the  *)
(* calls of the others; SystemTime only moves forward here.                *)
(*                                                                         *)
(* enqueue_task_impl has no await, so it cannot be dropped half way.  What *)
(* the tool does, its waiting for a build slot included, is one step with  *)
(* a chosen outcome.                                                       *)
(***************************************************************************)
EXTENDS TaskStore

CONSTANTS Waiters   \* the tasks/result requests that may be open at once

\* What call_tool may return: a result, or a result with isError or an error.
Outcomes == {"ok", "error"}
\* What a tasks/result request may be answered.
Answers == Payloads \cup {"notFound", "cancelled"}

ASSUME RunnerAssumption ==
  /\ Outcomes \cup {"unfinished"} \subseteq Payloads
  /\ {"notFound", "cancelled", "none"} \cap Payloads = {}
  /\ NoResult \notin {"notFound", "cancelled", "none"}

VARIABLES
  enq,     \* the request that enqueues each task, see EnqPcs
  stamp,   \* the time it read before it took the store's lock, 0 outside of that
  worker,  \* the spawned future of each task, see WorkerPcs
  waiter,  \* each tasks/result request: where it is, its task, its answer
  final    \* history: each task's record as it settled, with the true time

runVars == <<tasks, clock, enq, stamp, worker, waiter, final>>

\* idle      not called
\* stamped   create has read the time and waits for the lock
\* created   the record is in the map
\* spawned   the worker is spawned
\* reported  the client was answered with the task
\* lost      the client was answered TaskNotFound
\* refused   the client was answered TaskStoreFull
EnqPcs == {"idle", "stamped", "created", "spawned", "reported", "lost", "refused"}

\* none      not spawned
\* spawned   not polled yet
\* running   in call_tool, with the guard built
\* guard     past finish, or unwinding; the guard drops next
\* done
WorkerPcs == {"none", "spawned", "running", "guard", "done"}

\* idle, waiting for the channel, woken by it, told the answer
WaiterPcs == {"idle", "waiting", "woken", "told"}

Idle == [pc |-> "idle", on |-> NoTask, answer |-> "none"]

RunnerInit ==
  /\ Init
  /\ enq = [t \in TaskIds |-> "idle"]
  /\ stamp = [t \in TaskIds |-> 0]
  /\ worker = [t \in TaskIds |-> "none"]
  /\ waiter = [w \in Waiters |-> Idle]
  /\ final = [t \in TaskIds |-> NoTask]

-----------------------------------------------------------------------------
(* enqueue_task_impl *)

EnqGoto(t, from, to) == enq[t] = from /\ enq' = [enq EXCEPT ![t] = to]

\* create draws an id and reads the time.
Stamp(t) ==
  /\ EnqGoto(t, "idle", "stamped")
  /\ stamp' = [stamp EXCEPT ![t] = clock]
  /\ UNCHANGED <<tasks, clock, worker, waiter>>

\* create under the lock.
Create(t) ==
  /\ \/ /\ EnqGoto(t, "stamped", "created")
        /\ \E req \in Ttls \cup {Unset} : Admit(t, req, stamp[t])
     \/ /\ EnqGoto(t, "stamped", "refused")
        /\ Refuse(stamp[t])
  /\ stamp' = [stamp EXCEPT ![t] = 0]
  /\ UNCHANGED <<worker, waiter>>

\* tokio::spawn
Spawn(t) ==
  /\ EnqGoto(t, "created", "spawned")
  /\ worker' = [worker EXCEPT ![t] = "spawned"]
  /\ UNCHANGED <<tasks, clock, stamp, waiter>>

\* get, whose snapshot is the answer.
Report(t) ==
  /\ \/ t \in Live /\ EnqGoto(t, "spawned", "reported")
     \/ t \notin Live /\ EnqGoto(t, "spawned", "lost")
  /\ UNCHANGED <<tasks, clock, stamp, worker, waiter>>

-----------------------------------------------------------------------------
(* The spawned worker *)

WorkerGoto(t, from, to) == worker[t] = from /\ worker' = [worker EXCEPT ![t] = to]

\* The first poll builds the guard, sets the status and enters the tool.
Start(t) ==
  /\ WorkerGoto(t, "spawned", "running")
  /\ SetStatus(t, "running")
  /\ UNCHANGED <<enq, stamp, waiter>>

\* call_tool returned, and its outcome is stored.
Conclude(t, out) ==
  /\ WorkerGoto(t, "running", "guard")
  /\ Finish(t, out, out # "ok")
  /\ UNCHANGED <<enq, stamp, waiter>>

\* Seeded fault: no guard, the panic ends the worker.
Unwind_Unguarded(t) ==
  /\ WorkerGoto(t, "running", "done")
  /\ UNCHANGED <<tasks, clock, enq, stamp, waiter>>

\* The tool panics.
Unwind(t) ==
  /\ WorkerGoto(t, "running", "guard")
  /\ UNCHANGED <<tasks, clock, enq, stamp, waiter>>

\* FinishGuard::drop
DropGuard(t) ==
  /\ WorkerGoto(t, "guard", "done")
  /\ Finish(t, "unfinished", TRUE)
  /\ UNCHANGED <<enq, stamp, waiter>>

Work(t) ==
  \/ Start(t)
  \/ \E out \in Outcomes : Conclude(t, out)
  \/ Unwind(t)
  \/ DropGuard(t)

-----------------------------------------------------------------------------
(* get_task_result_impl *)

\* subscribe.  On an unknown task it is an error and the request ends.
Subscribe(w, t) ==
  /\ waiter[w].pc = "idle"
  /\ t \in Live
  /\ waiter' = [waiter EXCEPT ![w] = [pc |-> "waiting", on |-> t, answer |-> "none"]]
  /\ UNCHANGED <<tasks, clock, enq, stamp, worker>>

\* Seeded fault: any change of the channel ends the wait.
Wake_Once(w) ==
  /\ waiter[w].pc = "waiting"
  /\ waiter' = [waiter EXCEPT ![w].pc = "woken"]
  /\ UNCHANGED <<tasks, clock, enq, stamp, worker>>

\* The loop ends: the channel shows a terminal state, or its sender is gone
\* with the record.
Wake(w) ==
  /\ waiter[w].pc = "waiting"
  /\ waiter[w].on \in Live => IsTerminal(tasks[waiter[w].on].chan)
  /\ waiter' = [waiter EXCEPT ![w].pc = "woken"]
  /\ UNCHANGED <<tasks, clock, enq, stamp, worker>>

\* What `result` and the stand-in for a missing payload make of a task.
Answer(t) ==
  IF t \notin Live THEN "notFound"
  ELSE IF tasks[t].result = NoResult THEN "cancelled" ELSE tasks[t].result

\* Seeded fault: no stand-in for a missing payload.
Collect_Bare(w) ==
  LET t == waiter[w].on
  IN  /\ waiter[w].pc = "woken"
      /\ waiter' = [waiter EXCEPT
           ![w].pc = "told",
           ![w].answer = IF t \in Live THEN tasks[t].result ELSE "notFound"]
      /\ UNCHANGED <<tasks, clock, enq, stamp, worker>>

\* The request is answered.
Collect(w) ==
  /\ waiter[w].pc = "woken"
  /\ waiter' = [waiter EXCEPT ![w].pc = "told",
                              ![w].answer = Answer(waiter[w].on)]
  /\ UNCHANGED <<tasks, clock, enq, stamp, worker>>

\* The answer is sent, or the client went away while it waited.
Hangup(w) ==
  /\ waiter[w].pc \in {"waiting", "told"}
  /\ waiter' = [waiter EXCEPT ![w] = Idle]
  /\ UNCHANGED <<tasks, clock, enq, stamp, worker>>

-----------------------------------------------------------------------------
(* cancel_task_impl, the loop of main.rs, and time *)

CancelTask(t) == Cancel(t) /\ UNCHANGED <<enq, stamp, worker, waiter>>

\* The loop's reading of the time may be old by the time gc has the lock.
GcLoop == (\E at \in 0..clock : Gc(at)) /\ UNCHANGED <<enq, stamp, worker, waiter>>

TimePasses == Tick /\ UNCHANGED <<enq, stamp, worker, waiter>>

\* The history variable keeps the record of a task at the step that settles it.
Remember ==
  final' = [t \in TaskIds |->
              IF Working(t) /\ Terminal(t)' THEN [tasks'[t] EXCEPT !.updated = clock]
              ELSE final[t]]

RunnerStep ==
  \/ \E t \in TaskIds :
       Stamp(t) \/ Create(t) \/ Spawn(t) \/ Report(t) \/ Work(t) \/ CancelTask(t)
  \/ \E w \in Waiters :
       Wake(w) \/ Collect(w) \/ Hangup(w) \/ \E t \in TaskIds : Subscribe(w, t)
  \/ GcLoop
  \/ TimePasses

RunnerNext == RunnerStep /\ Remember

RunnerSpec == RunnerInit /\ [][RunnerNext]_runVars

\* The runtime polls what is ready, tools end (every subprocess has a timeout),
\* and woken requests are polled.  Nothing is promised of clients or the loop.
ScheduledSpec ==
  /\ RunnerSpec
  /\ \A t \in TaskIds : WF_runVars(Spawn(t) /\ Remember) /\ WF_runVars(Work(t) /\ Remember)
  /\ \A w \in Waiters : WF_runVars(Wake(w) /\ Remember) /\ WF_runVars(Collect(w) /\ Remember)

-----------------------------------------------------------------------------
(* Properties *)

\* The runner's own variables have their types; an answer is a payload or one
\* of the two stand-ins, never an absent result.
RunnerTypeOK ==
  /\ enq \in [TaskIds -> EnqPcs]
  /\ stamp \in [TaskIds -> Times]
  /\ worker \in [TaskIds -> WorkerPcs]
  /\ waiter \in [Waiters -> [pc : WaiterPcs, on : TaskIds \cup {NoTask},
                              answer : Answers \cup {"none"}]]
  /\ final \in [TaskIds -> Record \cup {NoTask}]

\* A task that shows Working has somebody who will settle it, a panicking tool
\* included: an orphan would never be evicted and its waiters never return.
WorkingHasWorker ==
  \A t \in TaskIds : Working(t) =>
    enq[t] = "created" \/ worker[t] \in {"spawned", "running", "guard"}

\* A tasks/result request is answered with the one outcome the task settled on:
\* its payload, `cancelled` only if it was cancelled, and TaskNotFound only
\* after the retention window of a task that did settle.
AnswersAreFinal ==
  \A w \in Waiters : waiter[w].pc = "told" =>
    LET end == final[waiter[w].on]
        answer == waiter[w].answer
    IN  /\ end # NoTask
        /\ answer = "notFound" => clock >= end.updated + end.ttl
        /\ answer = "cancelled" => end.state = "Cancelled"
        /\ answer \in Payloads => end.result = answer

\* A record leaves the map only when its task settled at least its ttl ago,
\* whether gc or a full store's create evicts it, with whatever old reading.
RetentionKept ==
  [][\A t \in TaskIds : t \in Live /\ tasks'[t] = NoTask =>
       final[t] # NoTask /\ clock >= final[t].updated + final[t].ttl]_runVars

\* A new task is refused only while the map is full of tasks that, as of the
\* time create read, run or are retained.
RefusedOnlyWhenFull ==
  [][\A t \in TaskIds : enq[t] = "stamped" /\ enq'[t] = "refused" =>
       Cardinality(Live \ Expired(stamp[t])) >= Capacity]_runVars

\* A tasks/result request returns, also one that subscribes after the end.
WaiterReturns ==
  \A w \in Waiters : waiter[w].pc = "waiting" ~> waiter[w].pc \in {"told", "idle"}

\* jobs/mod.rs:103-104, the actual ttl "the caller MUST report back to the
\* client": an enqueued task is reported to its creator.
EnqueueReports == \A t \in TaskIds : enq[t] # "lost"
=============================================================================
