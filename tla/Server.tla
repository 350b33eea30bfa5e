------------------------------- MODULE Server -------------------------------
(***************************************************************************)
(* The server as a whole: tool calls run as tasks (tasks.rs) beside plain  *)
(* ones, all under one build gate, with one registry that records how the  *)
(* tasks end.  This composes ToolCall, whose calls they are, with          *)
(* TaskStore, whose methods the workers call, and shows what each promises *)
(* of the other: what a task's state says about its permit and processes,  *)
(* and that every task settles although all wait for the same permits.     *)
(*                                                                         *)
(* enqueue_task_impl inserts the record and spawns the worker in one step  *)
(* here; between the two nothing can happen to a task that may not happen  *)
(* before its worker is polled first.  TaskRunner has them apart, with the *)
(* tasks/result requests, which only read.                                 *)
(***************************************************************************)
EXTENDS ToolCall

CONSTANTS
  Tasks,       \* the calls that are task-augmented, by their task's id
  Ttls, Unset, DefaultTtl, MaxTtl, MaxTasks, NoResult, NoTask, MaxTime

Outcomes == {"ok", "error"}
Payloads == Outcomes \cup {"unfinished"}

VARIABLES
  tasks, clock,  \* the registry, see TaskStore
  worker         \* the spawned future of each task, see WorkerPcs

Store == INSTANCE TaskStore WITH TaskIds <- Tasks

serverVars == <<running, line, pc, fired, runs, alive, reap, tasks, clock, worker>>

ASSUME ServerAssumption ==
  /\ Tasks \subseteq Calls
  /\ Ttls \subseteq Nat /\ Unset \notin Nat
  /\ DefaultTtl \in Nat /\ MaxTtl \in Nat /\ MaxTime \in Nat
  /\ NoTask \notin Store!Record

\* none      no task
\* spawned   enqueued, not polled yet
\* running   in the tool, with the guard built
\* guard     past finish, or unwinding; the guard drops next
\* done
WorkerPcs == {"none", "spawned", "running", "guard", "done"}

\* CompactMcp::with_config: one gate and one registry for all calls.
ServerInit ==
  /\ CallInit
  /\ Store!Init
  /\ worker = [t \in Tasks |-> "none"]

WorkerGoto(t, from, to) == worker[t] = from /\ worker' = [worker EXCEPT ![t] = to]

-----------------------------------------------------------------------------
(* The task protocol *)

\* enqueue_task_impl that finds room.
Enqueue(t) ==
  /\ WorkerGoto(t, "none", "spawned")
  /\ \E req \in Ttls \cup {Unset}, at \in 0..clock : Store!Admit(t, req, at)
  /\ UNCHANGED callVars

\* enqueue_task_impl that finds none.
TurnAway ==
  /\ \E at \in 0..clock : Store!Refuse(at)
  /\ UNCHANGED worker /\ UNCHANGED callVars

\* The first poll sets the status and enters the tool with the task's token.
EnterTool(t) ==
  /\ WorkerGoto(t, "spawned", "running")
  /\ Store!SetStatus(t, "running")
  /\ UNCHANGED callVars

\* cancel_task_impl: one token for the record and the tool.
CancelTask(t) == Store!Cancel(t) /\ Fire(t) /\ UNCHANGED worker

\* The eviction loop of main.rs.
GcLoop ==
  /\ \E at \in 0..clock : Store!Gc(at)
  /\ UNCHANGED worker /\ UNCHANGED callVars

-----------------------------------------------------------------------------
(* The worker *)

\* The tool errs before it has a permit: read_input refuses its argument, its
\* token has fired, or the queue is full.
TurnedDown(t) == pc[t] = "idle" /\ Store!Finish(t, "error", TRUE)

\* The tool returns what it makes of its runs.
Answered(t) ==
  /\ pc[t] = "returned"
  /\ \E out \in Outcomes : Store!Finish(t, out, out # "ok")

\* call_tool is over, and its outcome is stored.
Conclude(t) ==
  /\ WorkerGoto(t, "running", "guard")
  /\ TurnedDown(t) \/ Answered(t)
  /\ UNCHANGED callVars

\* The tool panics, outside of its select!; a permit it owns drops.
Unwind(t) ==
  /\ WorkerGoto(t, "running", "guard")
  /\ \/ pc[t] \in {"idle", "returned"} /\ UNCHANGED callVars
     \/ GiveUp(t)
  /\ UNCHANGED <<tasks, clock>>

\* FinishGuard::drop
DropGuard(t) ==
  /\ WorkerGoto(t, "guard", "done")
  /\ Store!Finish(t, "unfinished", TRUE)
  /\ UNCHANGED callVars

\* The id of an evicted task whose worker is done stands for a new one.
Recycle(t) ==
  /\ WorkerGoto(t, "done", "none")
  /\ t \notin Store!Live
  /\ Forget(t) \/ (pc[t] = "idle" /\ t \notin fired /\ UNCHANGED callVars)
  /\ UNCHANGED <<tasks, clock>>

Work(t) == EnterTool(t) \/ Conclude(t) \/ DropGuard(t)

-----------------------------------------------------------------------------
(* The calls *)

CallOnly == UNCHANGED <<tasks, clock, worker>>

\* A task's call begins in its worker; it is not forgotten while that runs.
AskGate(c) == (c \in Tasks => worker[c] = "running") /\ Ask(c) /\ CallOnly

\* What is the same for tasks and plain calls.
CallGoes(c) == (Proceed(c) \/ Arm(c) \/ Pool(c) \/ Fork(c) \/ Exit(c)) /\ CallOnly

\* The future of a plain call is dropped when its client goes away; that of a
\* task belongs to the server.
PlainEnds(c) ==
  /\ c \notin Tasks
  /\ DropQueued(c) \/ DropSelecting(c) \/ DropReaping(c) \/ Forget(c)
  /\ CallOnly

ServerNext ==
  \/ \E t \in Tasks :
       Enqueue(t) \/ CancelTask(t) \/ Work(t) \/ Unwind(t) \/ Recycle(t)
  \/ \E c \in Calls : AskGate(c) \/ CallGoes(c) \/ PlainEnds(c)
  \/ TurnAway
  \/ GcLoop
  \/ Store!Tick /\ UNCHANGED worker /\ UNCHANGED callVars

ServerSpec == ServerInit /\ [][ServerNext]_serverVars

\* The runtime polls what is ready, a select! resolves by its timeout at the
\* latest, the pool runs what it was given.  Clients promise nothing, processes
\* need not end, and the eviction loop need not run.
ServerTimedSpec ==
  /\ ServerSpec
  /\ \A t \in Tasks :
       /\ WF_serverVars(EnterTool(t))
       /\ WF_serverVars(AskGate(t) \/ Conclude(t))
       /\ WF_serverVars(DropGuard(t))
  /\ \A c \in Calls :
       /\ WF_serverVars(Proceed(c) /\ CallOnly)
       /\ WF_serverVars(Arm(c) /\ CallOnly)
       /\ WF_serverVars(Pool(c) /\ CallOnly)

-----------------------------------------------------------------------------
(* Properties *)

\* A task that shows Completed or Failed is really over: its permit and its
\* place in the queue are given back and every process of its group is dead,
\* whatever way its tool ended.
EndedHoldsNothing ==
  \A t \in Store!Live : tasks[t].state \in {"Completed", "Failed"} =>
    /\ t \notin running /\ (\A i \in 1..Len(line) : line[i] # t)
    /\ alive[t] = {}

\* The runs of a task that were begun, counting the one whose look at the token
\* is over and whose subprocess is still to be spawned.
Begun(t) == runs[t] + (IF pc[t] = "spawning" THEN 1 ELSE 0)

\* A task that shows Cancelled begins no run any more, wherever its call was
\* when the token fired.  A run that had looked at the token just before may
\* still spawn; like any that was running it ends in the kill of its group, and
\* its output is not taken.
CancelledBeginsNothing ==
  [][\A t \in Tasks : t \in Store!Live /\ tasks[t].state = "Cancelled" =>
       /\ Begun(t)' <= Begun(t)
       /\ pc[t] = "selecting" /\ pc'[t] # "selecting" =>
            pc'[t] = "reaping" /\ reap'[t] = "queued"]_serverVars

\* Every task settles, although all tasks and plain calls wait for the same
\* permits and no process need ever exit.
TasksSettle == \A t \in Tasks : Store!Working(t) ~> ~Store!Working(t)
=============================================================================
