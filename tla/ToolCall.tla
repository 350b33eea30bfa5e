------------------------------- MODULE ToolCall -------------------------------
(***************************************************************************)
(* A tool call that runs `compact` subprocesses: toolchain/compile.rs      *)
(* (Toolchain::compile) and toolchain/mod.rs (Toolchain::run), which share *)
(* one select!, over toolchain/proc.rs (spawn_group, kill_group and the    *)
(* guard KillGroupOnDrop), under the permit of the build gate.             *)
(*                                                                         *)
(* The gate is BuildSlots, which BuildGate implements.  A call runs one    *)
(* subprocess after the other under one permit.  A subprocess is a process *)
(* group: the wrapper `compact`, our direct child, and the worker it       *)
(* forks.  kill_group runs on the blocking pool.  A call's future can be   *)
(* dropped (its client went away) wherever it awaits.                      *)
(***************************************************************************)
EXTENDS BuildSlots

CONSTANT MaxRuns   \* bound: subprocesses of one call (`versions` has five)

ASSUME CallAssumption ==
  /\ IsFiniteSet(Calls)
  /\ Slots \in Nat \ {0} /\ Places \in Nat
  /\ MaxRuns \in Nat \ {0}

Procs == {"wrapper", "worker"}

VARIABLES
  pc,     \* where each call is, see CallPcs
  fired,  \* calls whose cancellation token has fired
  runs,   \* how many subprocesses each call has spawned
  alive,  \* the live processes of each call's last process group
  reap    \* that group's kill on the blocking pool, see ReapPcs

callVars == <<running, line, pc, fired, runs, alive, reap>>

\* idle       no call
\* queued     in the gate
\* holding    owns a permit, before the first run or after one
\* spawning   saw that its token has not fired, and is about to spawn
\* selecting  in the select!, the guard armed
\* reaping    guard disarmed, the kill awaited
\* returned   done, permit released
\* dropped    the future was dropped, permit released
CallPcs ==
  {"idle", "queued", "holding", "spawning", "selecting", "reaping", "returned", "dropped"}

\* none, queued on the pool, past its SIGTERM
ReapPcs == {"none", "queued", "termed"}

CallInit ==
  /\ Init
  /\ pc = [c \in Calls |-> "idle"]
  /\ fired = {}
  /\ runs = [c \in Calls |-> 0]
  /\ alive = [c \in Calls |-> {}]
  /\ reap = [c \in Calls |-> "none"]

Goto(c, from, to) == pc[c] \in from /\ pc' = [pc EXCEPT ![c] = to]

-----------------------------------------------------------------------------
(* The gate *)

\* acquire_gate, which looks at the token first; a token that has fired and a
\* full queue are errors and leave nothing behind.
Ask(c) ==
  /\ c \notin fired
  /\ \/ Goto(c, {"idle"}, "holding") /\ Start(c)
     \/ Goto(c, {"idle"}, "queued") /\ Join(c)
  /\ UNCHANGED <<fired, runs, alive, reap>>

\* The permit came.
Served(c) ==
  /\ Goto(c, {"queued"}, "holding")
  /\ c \in running
  /\ c \notin fired
  /\ UNCHANGED <<running, line, fired, runs, alive, reap>>

LeaveQueue(c, to) ==
  /\ Goto(c, {"queued"}, to)
  /\ Quit(c) \/ Finish(c)
  /\ UNCHANGED <<fired, runs, alive, reap>>

\* Cancelled, or dropped, while queued; a permit that just came is returned.
\* Only plain calls are dropped, and only tasks have a token that fires.
CancelQueued(c) == c \in fired /\ LeaveQueue(c, "returned")
DropQueued(c) == c \notin fired /\ LeaveQueue(c, "dropped")

\* tasks/cancel, of a task: before its tool asks for a permit, and until the
\* worker has stored what the tool returned.
Fire(c) ==
  /\ pc[c] # "dropped"
  /\ fired' = fired \cup {c}
  /\ UNCHANGED <<running, line, pc, runs, alive, reap>>

-----------------------------------------------------------------------------
(* The call.  Between the permit and the first poll of the select! there is
   no await, so a call that is holding or spawning cannot be dropped; but it
   holds no lock either, and its token may fire on another thread between any
   two of its steps. *)

\* The call returns, with a result or an error, and its permit drops.
Return(c, from) ==
  /\ Goto(c, from, "returned")
  /\ Finish(c)
  /\ UNCHANGED <<fired, runs, alive, reap>>

\* The check finds that the token has fired, or the last run's output was the
\* last one needed; past the check, the target directory was swapped or the
\* spawn failed.
GiveUp(c) == Return(c, {"holding", "spawning"})

\* Seeded fault: the token is not looked at.
PassCheck_Blind(c) ==
  /\ Goto(c, {"holding"}, "spawning")
  /\ runs[c] < MaxRuns
  /\ UNCHANGED <<running, line, fired, runs, alive, reap>>

\* The one look at the token before a run.
PassCheck(c) ==
  /\ Goto(c, {"holding"}, "spawning")
  /\ c \notin fired
  /\ runs[c] < MaxRuns
  /\ UNCHANGED <<running, line, fired, runs, alive, reap>>

\* spawn_group, and the guard is armed; whether the token has fired since the
\* check is for the select! to see.
Launch(c) ==
  /\ Goto(c, {"spawning"}, "selecting")
  /\ runs' = [runs EXCEPT ![c] = @ + 1]
  /\ alive' = [alive EXCEPT ![c] = {"wrapper"}]
  /\ UNCHANGED <<running, line, fired, reap>>

\* An arm that kills: select! has dropped the child, and kill_on_drop takes the
\* wrapper; the guard is disarmed and the kill is put on the pool and awaited.
KillArm(c) ==
  /\ Goto(c, {"selecting"}, "reaping")
  /\ alive' = [alive EXCEPT ![c] = @ \ {"wrapper"}]
  /\ reap' = [reap EXCEPT ![c] = "queued"]
  /\ UNCHANGED <<running, line, fired, runs>>

\* Seeded fault: the kill is put on the pool and not awaited.
CancelArm_Detached(c) ==
  /\ c \in fired
  /\ Goto(c, {"selecting"}, "returned")
  /\ Finish(c)
  /\ alive' = [alive EXCEPT ![c] = @ \ {"wrapper"}]
  /\ reap' = [reap EXCEPT ![c] = "queued"]
  /\ UNCHANGED <<fired, runs>>

CancelArm(c) == c \in fired /\ KillArm(c)

\* Seeded fault: a select! without its sleep.
TimeoutArm_Unset(c) == FALSE /\ KillArm(c)

\* `biased`: the token goes first.
TimeoutArm(c) == c \notin fired /\ KillArm(c)

\* Seeded fault: the guard stays armed and fires when the function returns.
OutputArm_Armed(c) ==
  /\ c \notin fired
  /\ alive[c] = {}
  /\ Goto(c, {"selecting"}, "holding")
  /\ reap' = [reap EXCEPT ![c] = "queued"]
  /\ UNCHANGED <<running, line, fired, runs, alive>>

\* wait_with_capped_output resolves when the wrapper is waited for and both
\* pipes, which the worker inherits, are at their end.  The guard is disarmed.
OutputArm(c) ==
  /\ c \notin fired
  /\ alive[c] = {}
  /\ Goto(c, {"selecting"}, "holding")
  /\ UNCHANGED <<running, line, fired, runs, alive, reap>>

\* Seeded fault: the call does not wait for the end of the kill.
Reaped_Early(c) == reap[c] # "queued" /\ Return(c, {"reaping"})

\* The awaited kill is over: Err(Cancelled) or Err(Timeout).
Reaped(c) == reap[c] = "none" /\ Return(c, {"reaping"})

\* Seeded fault: no guard, kill_on_drop alone.
DropSelecting_Unguarded(c) ==
  /\ c \notin fired
  /\ Goto(c, {"selecting"}, "dropped")
  /\ alive' = [alive EXCEPT ![c] = @ \ {"wrapper"}]
  /\ Finish(c)
  /\ UNCHANGED <<fired, runs, reap>>

\* The future is dropped in the select!: the child goes, then the guard, which
\* is armed and puts the kill on the pool, then the permit.
DropSelecting(c) ==
  /\ c \notin fired
  /\ Goto(c, {"selecting"}, "dropped")
  /\ alive' = [alive EXCEPT ![c] = @ \ {"wrapper"}]
  /\ reap' = [reap EXCEPT ![c] = "queued"]
  /\ Finish(c)
  /\ UNCHANGED <<fired, runs>>

\* The future is dropped while it awaits the kill, which stays on the pool.
DropReaping(c) ==
  /\ c \notin fired
  /\ Goto(c, {"reaping"}, "dropped")
  /\ Finish(c)
  /\ UNCHANGED <<fired, runs, alive, reap>>

-----------------------------------------------------------------------------
(* The pool and the processes *)

CallKept == UNCHANGED <<running, line, pc, fired, runs>>

\* kill_group: SIGTERM, which any process of the group may survive ...
Term(c) ==
  /\ reap[c] = "queued"
  /\ reap' = [reap EXCEPT ![c] = "termed"]
  /\ \E left \in SUBSET alive[c] : alive' = [alive EXCEPT ![c] = left]
  /\ CallKept

\* Seeded fault: SIGTERM once more.
Kill_Softly(c) ==
  /\ reap[c] = "termed"
  /\ reap' = [reap EXCEPT ![c] = "none"]
  /\ UNCHANGED alive
  /\ CallKept

\* ... and after the grace SIGKILL, which none does.
Kill(c) ==
  /\ reap[c] = "termed"
  /\ reap' = [reap EXCEPT ![c] = "none"]
  /\ alive' = [alive EXCEPT ![c] = {}]
  /\ CallKept

\* The wrapper forks the worker.
Fork(c) ==
  /\ alive[c] = {"wrapper"}
  /\ alive' = [alive EXCEPT ![c] = Procs]
  /\ UNCHANGED <<reap>> /\ CallKept

\* A process ends by itself, a crashing wrapper before its worker.
Exit(c) ==
  /\ \E p \in alive[c] : alive' = [alive EXCEPT ![c] = @ \ {p}]
  /\ UNCHANGED <<reap>> /\ CallKept

\* The id of a call that left nothing behind stands for a new one.
Forget(c) ==
  /\ Goto(c, {"idle", "returned", "dropped"}, "idle")
  /\ pc[c] = "idle" => c \in fired
  /\ alive[c] = {} /\ reap[c] = "none"
  /\ fired' = fired \ {c}
  /\ runs' = [runs EXCEPT ![c] = 0]
  /\ UNCHANGED <<running, line, alive, reap>>

Arm(c) == CancelArm(c) \/ TimeoutArm(c) \/ OutputArm(c)
Proceed(c) ==
  Served(c) \/ CancelQueued(c) \/ GiveUp(c) \/ PassCheck(c) \/ Launch(c) \/ Reaped(c)
Pool(c) == Term(c) \/ Kill(c)

CallNext ==
  \E c \in Calls :
    \/ Ask(c) \/ Fire(c) \/ Proceed(c) \/ Arm(c) \/ Pool(c)
    \/ DropQueued(c) \/ DropSelecting(c) \/ DropReaping(c)
    \/ Fork(c) \/ Exit(c) \/ Forget(c)

CallSpec == CallInit /\ [][CallNext]_callVars

\* The runtime polls what is ready, a select! resolves by its timeout at the
\* latest, the pool runs what it was given.  A subprocess need not ever end.
TimedSpec ==
  /\ CallSpec
  /\ \A c \in Calls :
       WF_callVars(Proceed(c)) /\ WF_callVars(Arm(c)) /\ WF_callVars(Pool(c))

-----------------------------------------------------------------------------
(* Properties *)

\* The variables have their types, and no group is larger than fork makes it.
CallTypeOK ==
  /\ running \in SUBSET Calls
  /\ line \in Seq(Calls)
  /\ pc \in [Calls -> CallPcs]
  /\ fired \in SUBSET Calls
  /\ runs \in [Calls -> 0..MaxRuns]
  /\ alive \in [Calls -> SUBSET Procs]
  /\ reap \in [Calls -> ReapPcs]

\* While a process of a call lives, the call owns a permit, unless its future
\* was dropped: cancellation and timeout keep the permit until the whole group
\* is dead, not only until the direct child is.
PermitCoversGroup ==
  \A c \in Calls : alive[c] # {} /\ pc[c] # "dropped" => c \in running

\* A process that outlives its call's select! has a kill on the pool: no path
\* out of the call, dropped futures included, leaves an orphan.
NoOrphan ==
  \A c \in Calls : alive[c] # {} => pc[c] = "selecting" \/ reap[c] # "none"

\* Nobody kills twice: a kill is pending only for a group whose call was
\* cancelled, timed out or was dropped, never once its output was taken, when
\* the group's id may belong to somebody else.
NoStrayKill ==
  \A c \in Calls : reap[c] # "none" => pc[c] \in {"reaping", "dropped"}

\* Every group ends, although a process may ignore SIGTERM and never exit.
GroupEnds == \A c \in Calls : alive[c] # {} ~> alive[c] = {}

\* Every permit comes back: what the gate's own progress rests on.
PermitReturns == \A c \in Calls : c \in running ~> c \notin running

\* server.rs:119-120, "`max_concurrent_builds` is a real GLOBAL ceiling on
\* concurrent `compact` processes".
GlobalCeiling == Cardinality({c \in Calls : alive[c] # {}}) <= Slots
=============================================================================
