----------------------------- MODULE ServerProofs -----------------------------
(***************************************************************************)
(* Proofs about Server, for any finite set of calls, any part of them      *)
(* tasks, any number of permits, places and subprocesses, and any          *)
(* configuration of the registry: the whole is a ToolCall on one side and  *)
(* a TaskStore on the other, a task that shows Completed or Failed holds   *)
(* nothing, and one that shows Cancelled begins no run any more.           *)
(***************************************************************************)
EXTENDS Server, ToolCallProofs

Busy == {"queued", "holding", "spawning", "selecting", "reaping"}

\* Who is in the gate: the permits belong to calls that are under way, and the
\* line holds queued calls without one, each once.
GateSound ==
  /\ \A c \in running : pc[c] \in Busy
  /\ \A i \in 1..Len(line) : pc[line[i]] = "queued" /\ line[i] \notin running
  /\ \A i, j \in 1..Len(line) : line[i] = line[j] => i = j

-----------------------------------------------------------------------------
(* The gate *)

\* The call c asks and starts, or asks and waits.
LEMMA AskSound ==
  ASSUME CallTypeOK, GateSound, NEW c \in Calls, Ask(c)
  PROVE  GateSound'
<1>1. CASE Goto(c, {"idle"}, "holding") /\ Start(c)
  BY <1>1 DEF Goto, Start, GateSound, CallTypeOK, Busy
<1>2. CASE Goto(c, {"idle"}, "queued") /\ Join(c)
  <2>1. /\ line' = Append(line, c) /\ running' = running /\ c \notin running
        /\ \A i \in 1..Len(line) : line[i] # c
        /\ pc' = [pc EXCEPT ![c] = "queued"]
    BY <1>2 DEF Goto, Join
  <2>2. /\ Len(line') = Len(line) + 1 /\ Len(line) \in Nat
        /\ \A i \in 1..Len(line) : line'[i] = line[i]
        /\ line'[Len(line) + 1] = c
    BY <2>1, AppendProperties, LenProperties DEF CallTypeOK
  <2>3. \A i \in 1..Len(line') : line'[i] = c \/ i \in 1..Len(line)
    BY <2>2
  <2>4. \A d \in Calls : pc'[d] = IF d = c THEN "queued" ELSE pc[d]
    BY <2>1 DEF CallTypeOK
  <2>5. \A i \in 1..Len(line) : line[i] \in Calls
    BY ElementOfSeq DEF CallTypeOK
  <2>6. \A d \in running' : pc'[d] \in Busy
    BY <2>1, <2>4 DEF GateSound, CallTypeOK, Busy
  <2>7. \A i \in 1..Len(line') : pc'[line'[i]] = "queued" /\ line'[i] \notin running'
    BY <2>1, <2>2, <2>3, <2>4, <2>5 DEF GateSound
  <2>8. \A i, j \in 1..Len(line') : line'[i] = line'[j] => i = j
    BY <2>1, <2>2 DEF GateSound
  <2> QED
    BY <2>6, <2>7, <2>8 DEF GateSound
<1> QED
  BY <1>1, <1>2 DEF Ask

\* The call c gives up its permit, and the first in line has it.
LEMMA FinishSound ==
  ASSUME CallTypeOK, GateSound, NEW c \in Calls, Finish(c),
         NEW to \in {"returned", "dropped"}, pc' = [pc EXCEPT ![c] = to]
  PROVE  GateSound'
<1>1. \A d \in Calls : pc'[d] = IF d = c THEN to ELSE pc[d]
  BY DEF CallTypeOK
<1>2. \A i \in 1..Len(line) : line[i] \in Calls /\ line[i] # c
  BY ElementOfSeq DEF CallTypeOK, GateSound, Finish
<1>3. CASE line = <<>>
  BY <1>1, <1>3 DEF Finish, GateSound, CallTypeOK
<1>4. CASE line # <<>>
  <2>1. /\ running' = (running \ {c}) \cup {Head(line)} /\ line' = Tail(line)
    BY <1>4 DEF Finish
  <2>2. /\ Head(line) = line[1] /\ Len(line') = Len(line) - 1
        /\ Len(line) \in Nat /\ Len(line) > 0
        /\ \A i \in 1..Len(line') : line'[i] = line[i + 1]
    BY <1>4, <2>1, HeadTailProperties, EmptySeq, LenProperties DEF CallTypeOK
  <2>3. \A d \in running' : pc'[d] \in Busy
    BY <1>1, <1>2, <2>1, <2>2 DEF GateSound, CallTypeOK, Busy
  <2>4. \A i \in 1..Len(line') :
          i + 1 \in 1..Len(line) /\ line'[i] = line[i + 1] /\ line'[i] # line[1]
    BY <2>2 DEF GateSound
  <2>5. \A i \in 1..Len(line') : pc'[line'[i]] = "queued" /\ line'[i] \notin running'
    BY <1>1, <1>2, <2>1, <2>2, <2>4 DEF GateSound
  <2>6. \A i, j \in 1..Len(line') : line'[i] = line'[j] => i = j
    BY <2>2, <2>4 DEF GateSound
  <2> QED
    BY <2>3, <2>5, <2>6 DEF GateSound
<1> QED
  BY <1>3, <1>4

\* The call c leaves the line.
LEMMA QuitSound ==
  ASSUME CallTypeOK, GateSound, NEW c \in Calls, Quit(c),
         NEW to \in {"returned", "dropped"}, pc' = [pc EXCEPT ![c] = to]
  PROVE  GateSound'
<1>1. \A d \in Calls : pc'[d] = IF d = c THEN to ELSE pc[d]
  BY DEF CallTypeOK
<1>2. PICK k \in 1..Len(line) : line[k] = c /\ line' = RemoveAt(line, k)
  BY DEF Quit
<1>3. running' = running /\ Len(line) \in Nat
  BY LenProperties DEF Quit, CallTypeOK
<1>4. /\ Len(line') = Len(line) - 1
      /\ \A j \in 1..(Len(line) - 1) : line'[j] = IF j < k THEN line[j] ELSE line[j + 1]
  BY <1>2, RemoveAtProperties DEF CallTypeOK
<1>5. \A i \in 1..Len(line) : line[i] \in Calls
  BY ElementOfSeq DEF CallTypeOK
<1>6. \A i \in 1..Len(line') : line'[i] # c
  BY <1>2, <1>3, <1>4 DEF GateSound
<1>7. \A i \in 1..Len(line') : \E j \in 1..Len(line) : line'[i] = line[j]
  BY <1>3, <1>4
<1>8. \A d \in running' : pc'[d] \in Busy
  BY <1>1, <1>2, <1>3 DEF GateSound, CallTypeOK
<1>9. \A i \in 1..Len(line') : pc'[line'[i]] = "queued" /\ line'[i] \notin running'
  BY <1>1, <1>3, <1>5, <1>6, <1>7 DEF GateSound
<1>10. \A i, j \in 1..Len(line') : line'[i] = line'[j] => i = j
  BY <1>3, <1>4 DEF GateSound
<1> QED
  BY <1>8, <1>9, <1>10 DEF GateSound

\* The gate stays as it is, and the call c is where its permit allows.
LEMMA StaySound ==
  ASSUME CallTypeOK, GateSound, NEW c \in Calls, UNCHANGED <<running, line>>,
         \/ pc' = pc
         \/ /\ \E to \in Busy : pc' = [pc EXCEPT ![c] = to]
            /\ pc[c] # "queued" \/ c \in running
         \/ /\ pc' = [pc EXCEPT ![c] = "idle"]
            /\ pc[c] \in {"idle", "returned", "dropped"}
  PROVE  GateSound'
<1>1. \A i \in 1..Len(line) : line[i] \in Calls
  BY ElementOfSeq DEF CallTypeOK
<1> QED
  BY <1>1 DEF GateSound, CallTypeOK, Busy

LEMMA CallStepSound == IInv /\ GateSound /\ [CallNext]_callVars => GateSound'
<1> SUFFICES ASSUME IInv, GateSound, [CallNext]_callVars PROVE GateSound'
  OBVIOUS
<1>1. CallTypeOK
  BY DEF IInv
<1>2. ASSUME NEW c \in Calls, NEW from, Return(c, from)
      PROVE  GateSound'
  BY <1>1, <1>2, FinishSound DEF Return, Goto
<1>3. ASSUME NEW c \in Calls, NEW to \in {"returned", "dropped"}, LeaveQueue(c, to)
      PROVE  GateSound'
  BY <1>1, <1>3, FinishSound, QuitSound DEF LeaveQueue, Goto
<1>4. ASSUME NEW c \in Calls, Proceed(c)
      PROVE  GateSound'
  <2>1. CASE Served(c) \/ PassCheck(c) \/ Launch(c)
    BY <1>1, <2>1, StaySound DEF Served, PassCheck, Launch, Goto, Busy
  <2> QED
    BY <1>2, <1>3, <1>4, <2>1 DEF Proceed, CancelQueued, GiveUp, Reaped
<1>5. ASSUME NEW c \in Calls, Arm(c)
      PROVE  GateSound'
  BY <1>1, <1>5, StaySound DEF Arm, CancelArm, TimeoutArm, KillArm, OutputArm, Goto, Busy
<1>6. ASSUME NEW c \in Calls, DropQueued(c) \/ DropSelecting(c) \/ DropReaping(c)
      PROVE  GateSound'
  BY <1>1, <1>3, <1>6, FinishSound DEF DropQueued, DropSelecting, DropReaping, Goto
<1>7. ASSUME NEW c \in Calls, Fire(c) \/ Pool(c) \/ Fork(c) \/ Exit(c)
      PROVE  GateSound'
  BY <1>1, <1>7, StaySound DEF Fire, Pool, Term, Kill, Fork, Exit, CallKept
<1>8. ASSUME NEW c \in Calls, Forget(c)
      PROVE  GateSound'
  BY <1>1, <1>8, StaySound DEF Forget, Goto
<1>9. CASE CallNext
  BY <1>1, <1>4, <1>5, <1>6, <1>7, <1>8, <1>9, AskSound DEF CallNext
<1>10. CASE UNCHANGED callVars
  BY <1>10 DEF callVars, GateSound
<1> QED
  BY <1>9, <1>10

-----------------------------------------------------------------------------
(* The whole is a ToolCall *)

LEMMA StepIsCallStep == [ServerNext]_serverVars => [CallNext]_callVars
<1> SUFFICES ASSUME [ServerNext]_serverVars PROVE [CallNext]_callVars
  OBVIOUS
<1>1. ASSUME NEW t \in Tasks,
             Enqueue(t) \/ CancelTask(t) \/ Work(t) \/ Unwind(t) \/ Recycle(t)
      PROVE  [CallNext]_callVars
  BY <1>1, ServerAssumption
  DEF Enqueue, CancelTask, Work, EnterTool, Conclude, DropGuard, Unwind, Recycle,
      CallNext, Proceed
<1>2. ASSUME NEW c \in Calls, AskGate(c) \/ CallGoes(c) \/ PlainEnds(c)
      PROVE  [CallNext]_callVars
  BY <1>2 DEF AskGate, CallGoes, PlainEnds, CallNext
<1>3. CASE TurnAway \/ GcLoop \/ (Store!Tick /\ UNCHANGED worker /\ UNCHANGED callVars)
  BY <1>3 DEF TurnAway, GcLoop
<1>4. CASE UNCHANGED serverVars
  BY <1>4 DEF serverVars, callVars
<1> QED
  BY <1>1, <1>2, <1>3, <1>4 DEF ServerNext

\* Tasks, workers and the registry change nothing for the gate, the process
\* groups and the kills: everything proved of ToolCall holds of the server.
THEOREM ServerImplementsCalls == ServerSpec => CallSpec
<1>1. ServerInit => CallInit
  BY DEF ServerInit
<1> QED
  BY <1>1, StepIsCallStep, PTL DEF ServerSpec, CallSpec

-----------------------------------------------------------------------------
(* The registry *)

Ended(r) == r # NoTask /\ r.state \in {"Completed", "Failed"}
Stopped(r) == r # NoTask /\ r.state = "Cancelled"

\* One entry of the map in a step that settles nothing.
SettlesNot(old, new) ==
  /\ Ended(new) => Ended(old)
  /\ Stopped(new) => Stopped(old)

\* The map in a step that settles no task but, if it is one, t.
OnlySettles(t) == \A u \in Tasks \ {t} : SettlesNot(tasks[u], tasks'[u])
NothingSettles == \A u \in Tasks : SettlesNot(tasks[u], tasks'[u])

LEMMA FreshIsRecord ==
  ASSUME NEW req \in Ttls \cup {Unset}, NEW at \in Store!Times
  PROVE  Store!Fresh(req, at) \in Store!Record /\ Store!Fresh(req, at).state = "Working"
<1> DEFINE T == Store!Clamp(req)
<1>1. T \in 0..MaxTtl
  BY ServerAssumption DEF Store!Clamp
<1> HIDE DEF T
<1>2. Store!Fresh(req, at) = [state |-> "Working", msg |-> "queued", updated |-> at,
         ttl |-> T, result |-> NoResult, token |-> FALSE, chan |-> "Working"]
  BY DEF Store!Fresh, T
<1> QED
  BY <1>1, <1>2 DEF Store!Record, Store!TaskStates, Store!Messages

\* A sweep settles nothing.
LEMMA SweepSettlesNot ==
  ASSUME Store!StoreTypeOK, NEW kept, tasks' = Store!Retain(kept)
  PROVE  /\ tasks' \in [Tasks -> Store!Record \cup {NoTask}]
         /\ NothingSettles
  BY DEF Store!StoreTypeOK, Store!Retain, NothingSettles, SettlesNot, Ended, Stopped

LEMMA AdmitSettlesNot ==
  ASSUME Store!StoreTypeOK, NEW t \in Tasks, NEW req \in Ttls \cup {Unset},
         NEW at \in Store!Times, Store!Admit(t, req, at)
  PROVE  Store!StoreTypeOK' /\ NothingSettles
<1> DEFINE kept == Store!Retain(Store!Remaining(at))
           r == Store!Fresh(req, at)
<1>1. r \in Store!Record /\ r.state = "Working"
  BY FreshIsRecord
<1>2. kept \in [Tasks -> Store!Record \cup {NoTask}]
      /\ \A u \in Tasks : kept[u] = tasks[u] \/ kept[u] = NoTask
  BY DEF Store!StoreTypeOK, Store!Retain
<1>3. tasks' = [kept EXCEPT ![t] = r] /\ clock' = clock
  BY DEF Store!Admit
<1> HIDE DEF kept, r
<1>4. \A u \in Tasks : tasks'[u] = r \/ tasks'[u] = tasks[u] \/ tasks'[u] = NoTask
  BY <1>2, <1>3
<1> QED
  BY <1>1, <1>2, <1>3, <1>4
  DEF Store!StoreTypeOK, NothingSettles, SettlesNot, Ended, Stopped

LEMMA RefuseSettlesNot ==
  ASSUME Store!StoreTypeOK, NEW at, Store!Refuse(at) \/ Store!Gc(at)
  PROVE  Store!StoreTypeOK' /\ NothingSettles
  BY SweepSettlesNot DEF Store!Refuse, Store!Gc, Store!StoreTypeOK

LEMMA SetStatusSettlesNot ==
  ASSUME Store!StoreTypeOK, NEW t \in Tasks, Store!SetStatus(t, "running")
  PROVE  Store!StoreTypeOK' /\ NothingSettles
<1>1. CASE Store!Working(t)
  <2> DEFINE r == [tasks[t] EXCEPT !.msg = "running", !.updated = clock]
  <2>1. tasks[t] \in Store!Record /\ tasks[t].state = "Working"
    BY <1>1 DEF Store!StoreTypeOK, Store!Working, Store!Live, Store!IsTerminal
  <2>2. r \in Store!Record /\ r.state = "Working"
    BY <2>1 DEF Store!StoreTypeOK, Store!Record, Store!Messages
  <2>3. tasks' = [tasks EXCEPT ![t] = r] /\ clock' = clock
    BY <1>1 DEF Store!SetStatus, Store!StoreTypeOK
  <2> HIDE DEF r
  <2> QED
    BY <2>2, <2>3 DEF Store!StoreTypeOK, NothingSettles, SettlesNot, Ended, Stopped
<1>2. CASE ~Store!Working(t)
  BY <1>2 DEF Store!SetStatus, Store!StoreTypeOK, NothingSettles, SettlesNot
<1> QED
  BY <1>1, <1>2

LEMMA FinishSettles ==
  ASSUME Store!StoreTypeOK, NEW t \in Tasks, NEW payload \in Payloads, NEW failed \in BOOLEAN,
         Store!Finish(t, payload, failed)
  PROVE  /\ Store!StoreTypeOK'
         /\ OnlySettles(t)
         /\ Stopped(tasks'[t]) => Stopped(tasks[t])
<1>1. CASE Store!Working(t)
  <2> DEFINE r == Store!FinishedRecord(tasks[t], payload, failed)
  <2>1. tasks[t] \in Store!Record
    BY <1>1 DEF Store!StoreTypeOK, Store!Working, Store!Live
  <2>2. r \in Store!Record /\ r.state \in {"Completed", "Failed"}
    <3>1. CASE failed
      BY <2>1, <3>1
      DEF Store!StoreTypeOK, Store!FinishedRecord, Store!Record, Store!Messages, Store!TaskStates
    <3>2. CASE ~failed
      BY <2>1, <3>2
      DEF Store!StoreTypeOK, Store!FinishedRecord, Store!Record, Store!Messages, Store!TaskStates
    <3> QED
      BY <3>1, <3>2
  <2>3. tasks' = [tasks EXCEPT ![t] = r] /\ clock' = clock
    BY <1>1 DEF Store!Finish
  <2> HIDE DEF r
  <2> QED
    BY <2>2, <2>3 DEF Store!StoreTypeOK, OnlySettles, SettlesNot, Ended, Stopped
<1>2. CASE ~Store!Working(t)
  BY <1>2 DEF Store!Finish, Store!StoreTypeOK, OnlySettles, SettlesNot
<1> QED
  BY <1>1, <1>2

LEMMA CancelSettles ==
  ASSUME Store!StoreTypeOK, NEW t \in Tasks, Store!Cancel(t)
  PROVE  /\ Store!StoreTypeOK'
         /\ OnlySettles(t)
         /\ ~Ended(tasks'[t])
<1> DEFINE r == Store!CancelledRecord(tasks[t])
<1>1. tasks[t] \in Store!Record
  BY DEF Store!StoreTypeOK, Store!Cancel, Store!Working, Store!Live
<1>2. r \in Store!Record /\ r.state = "Cancelled"
  BY <1>1 DEF Store!StoreTypeOK, Store!CancelledRecord, Store!Record, Store!Messages, Store!TaskStates
<1>3. tasks' = [tasks EXCEPT ![t] = r] /\ clock' = clock
  BY DEF Store!Cancel
<1> HIDE DEF r
<1> QED
  BY <1>2, <1>3 DEF Store!StoreTypeOK, OnlySettles, SettlesNot, Ended, Stopped

-----------------------------------------------------------------------------
(* The workers *)

\* A task's worker w, its call's place p, its record r, and whether its token
\* has fired: the call is under way only while the tool runs, an end is stored
\* only after it, and a cancelled task has a token that fired.
Attended(w, p, r, f) ==
  /\ w \in {"none", "spawned"} => p = "idle"
  /\ w \in {"guard", "done"} => p \in {"idle", "returned"}
  /\ Ended(r) => w \in {"guard", "done"}
  /\ Stopped(r) => f

AllAttended == \A t \in Tasks : Attended(worker[t], pc[t], tasks[t], t \in fired)

WorkersTyped == worker \in [Tasks -> WorkerPcs]

SInv == IInv /\ GateSound /\ Store!StoreTypeOK /\ WorkersTyped /\ AllAttended

\* The calls of other tasks than t stay where they are, and their tokens fired.
CallsStay(t) ==
  \A u \in Tasks \ {t} : pc'[u] = pc[u] /\ (u \in fired => u \in fired')

\* A step of one task leaves the others attended.
LEMMA AttendedElsewhere ==
  ASSUME AllAttended, WorkersTyped, NEW t \in Tasks, CallsStay(t), OnlySettles(t),
         \A u \in Tasks \ {t} : worker'[u] = worker[u],
         Attended(worker'[t], pc'[t], tasks'[t], t \in fired')
  PROVE  AllAttended'
<1> SUFFICES ASSUME NEW u \in Tasks
             PROVE  Attended(worker'[u], pc'[u], tasks'[u], u \in fired')
  BY DEF AllAttended
<1>1. CASE u = t
  BY <1>1
<1>2. CASE u # t
  <2>1. Attended(worker[u], pc[u], tasks[u], u \in fired)
    BY DEF AllAttended
  <2>2. /\ worker'[u] = worker[u] /\ pc'[u] = pc[u] /\ (u \in fired => u \in fired')
        /\ SettlesNot(tasks[u], tasks'[u])
    BY <1>2 DEF CallsStay, OnlySettles
  <2> QED
    BY <2>1, <2>2 DEF Attended, SettlesNot
<1> QED
  BY <1>1, <1>2

\* A step of the registry alone that settles nothing leaves all attended.
LEMMA AttendedStill ==
  ASSUME AllAttended, NothingSettles, UNCHANGED <<worker, callVars>>
  PROVE  AllAttended'
  BY DEF AllAttended, NothingSettles, SettlesNot, Attended, callVars

\* What a step of the task t must establish.
Serves(t) ==
  /\ Store!StoreTypeOK' /\ WorkersTyped'
  /\ CallsStay(t) /\ OnlySettles(t)
  /\ \A u \in Tasks \ {t} : worker'[u] = worker[u]
  /\ Attended(worker'[t], pc'[t], tasks'[t], t \in fired')

LEMMA EnqueueServes ==
  ASSUME SInv, NEW t \in Tasks, Enqueue(t)
  PROVE  Serves(t)
<1>1. PICK req \in Ttls \cup {Unset}, at \in 0..clock : Store!Admit(t, req, at)
  BY DEF Enqueue
<1>2. at \in Store!Times
  BY ServerAssumption DEF SInv, Store!StoreTypeOK, Store!Times
<1>3. Store!StoreTypeOK' /\ NothingSettles
  BY <1>1, <1>2, AdmitSettlesNot DEF SInv
<1>4. Attended(worker[t], pc[t], tasks[t], t \in fired) /\ worker[t] = "none"
  BY DEF SInv, AllAttended, Enqueue, WorkerGoto
<1>5. worker' = [worker EXCEPT ![t] = "spawned"] /\ UNCHANGED callVars
  BY DEF Enqueue, WorkerGoto
<1>6. Attended(worker'[t], pc'[t], tasks'[t], t \in fired')
  BY <1>3, <1>4, <1>5
  DEF Attended, NothingSettles, SettlesNot, SInv, WorkersTyped, callVars
<1> QED
  BY <1>3, <1>5, <1>6
  DEF Serves, CallsStay, OnlySettles, NothingSettles, SInv, WorkersTyped, WorkerPcs, callVars

LEMMA EnterToolServes ==
  ASSUME SInv, NEW t \in Tasks, EnterTool(t)
  PROVE  Serves(t)
<1>1. Store!StoreTypeOK' /\ NothingSettles
  BY SetStatusSettlesNot DEF SInv, EnterTool
<1>2. Attended(worker[t], pc[t], tasks[t], t \in fired) /\ worker[t] = "spawned"
  BY DEF SInv, AllAttended, EnterTool, WorkerGoto
<1>3. worker' = [worker EXCEPT ![t] = "running"] /\ UNCHANGED callVars
  BY DEF EnterTool, WorkerGoto
<1>4. Attended(worker'[t], pc'[t], tasks'[t], t \in fired')
  BY <1>1, <1>2, <1>3
  DEF Attended, NothingSettles, SettlesNot, SInv, WorkersTyped, callVars
<1> QED
  BY <1>1, <1>3, <1>4
  DEF Serves, CallsStay, OnlySettles, NothingSettles, SInv, WorkersTyped, WorkerPcs, callVars

LEMMA CancelTaskServes ==
  ASSUME SInv, NEW t \in Tasks, CancelTask(t)
  PROVE  Serves(t)
<1>1. Store!StoreTypeOK' /\ OnlySettles(t) /\ ~Ended(tasks'[t])
  BY CancelSettles DEF SInv, CancelTask
<1>2. worker' = worker /\ pc' = pc /\ fired' = fired \cup {t}
  BY DEF CancelTask, Fire
<1>3. Attended(worker[t], pc[t], tasks[t], t \in fired)
  BY DEF SInv, AllAttended
<1>4. Attended(worker'[t], pc'[t], tasks'[t], t \in fired')
  BY <1>1, <1>2, <1>3 DEF Attended
<1> QED
  BY <1>1, <1>2, <1>4 DEF Serves, CallsStay, SInv, WorkersTyped

\* The tool returned or the guard drops: the worker is past the tool.
LEMMA FinishServes ==
  ASSUME SInv, NEW t \in Tasks, NEW payload \in Payloads, NEW failed \in BOOLEAN,
         Store!Finish(t, payload, failed), UNCHANGED callVars,
         NEW to \in {"guard", "done"}, worker' = [worker EXCEPT ![t] = to],
         pc[t] \in {"idle", "returned"}
  PROVE  Serves(t)
<1>1. /\ Store!StoreTypeOK' /\ OnlySettles(t)
      /\ Stopped(tasks'[t]) => Stopped(tasks[t])
  BY FinishSettles DEF SInv
<1>2. Attended(worker[t], pc[t], tasks[t], t \in fired)
  BY DEF SInv, AllAttended
<1>3. Attended(worker'[t], pc'[t], tasks'[t], t \in fired')
  BY <1>1, <1>2 DEF Attended, SInv, WorkersTyped, callVars
<1> QED
  BY <1>1, <1>3 DEF Serves, CallsStay, SInv, WorkersTyped, WorkerPcs, callVars

LEMMA ConcludeFinishes ==
  ASSUME NEW t \in Tasks, Conclude(t)
  PROVE  /\ pc[t] \in {"idle", "returned"}
         /\ \E payload \in Payloads, failed \in BOOLEAN : Store!Finish(t, payload, failed)
<1>1. CASE TurnedDown(t)
  BY <1>1 DEF TurnedDown, Payloads, Outcomes
<1>2. CASE Answered(t)
  <2>1. PICK out \in Outcomes : Store!Finish(t, out, out # "ok")
    BY <1>2 DEF Answered
  <2>2. out \in Payloads /\ (out # "ok") \in BOOLEAN
    BY DEF Payloads
  <2> QED
    BY <1>2, <2>1, <2>2 DEF Answered
<1> QED
  BY <1>1, <1>2 DEF Conclude

LEMMA EndServes ==
  ASSUME SInv, NEW t \in Tasks, Conclude(t) \/ DropGuard(t)
  PROVE  Serves(t)
<1>1. CASE Conclude(t)
  <2>1. /\ pc[t] \in {"idle", "returned"}
        /\ \E payload \in Payloads, failed \in BOOLEAN : Store!Finish(t, payload, failed)
    BY <1>1, ConcludeFinishes
  <2> QED
    BY <1>1, <2>1, FinishServes DEF Conclude, WorkerGoto
<1>2. CASE DropGuard(t)
  <2>1. pc[t] \in {"idle", "returned"}
    BY <1>2 DEF SInv, AllAttended, Attended, DropGuard, WorkerGoto
  <2>2. "unfinished" \in Payloads
    BY DEF Payloads
  <2> QED
    BY <1>2, <2>1, <2>2, FinishServes DEF DropGuard, WorkerGoto
<1> QED
  BY <1>1, <1>2

LEMMA UnwindServes ==
  ASSUME SInv, NEW t \in Tasks, Unwind(t)
  PROVE  Serves(t)
<1>1. /\ worker' = [worker EXCEPT ![t] = "guard"] /\ UNCHANGED <<tasks, clock, fired>>
      /\ \/ pc[t] \in {"idle", "returned"} /\ pc' = pc
         \/ pc' = [pc EXCEPT ![t] = "returned"]
  BY DEF Unwind, WorkerGoto, GiveUp, Return, Goto, callVars
<1>2. Attended(worker[t], pc[t], tasks[t], t \in fired)
  BY DEF SInv, AllAttended
<1>3. CallTypeOK /\ Tasks \subseteq Calls
  BY ServerAssumption DEF SInv, IInv
<1>4. Attended(worker'[t], pc'[t], tasks'[t], t \in fired')
  BY <1>1, <1>2, <1>3 DEF Attended, SInv, WorkersTyped, CallTypeOK
<1> QED
  BY <1>1, <1>3, <1>4
  DEF Serves, CallsStay, OnlySettles, SettlesNot, SInv, WorkersTyped, WorkerPcs,
      Store!StoreTypeOK, CallTypeOK

LEMMA RecycleServes ==
  ASSUME SInv, NEW t \in Tasks, Recycle(t)
  PROVE  Serves(t)
<1>1. /\ worker' = [worker EXCEPT ![t] = "none"] /\ UNCHANGED <<tasks, clock>>
      /\ tasks[t] = NoTask
      /\ \/ pc' = [pc EXCEPT ![t] = "idle"] /\ fired' = fired \ {t}
         \/ pc[t] = "idle" /\ pc' = pc /\ fired' = fired
  BY DEF Recycle, WorkerGoto, Forget, Goto, callVars, Store!Live
<1>2. CallTypeOK /\ Tasks \subseteq Calls
  BY ServerAssumption DEF SInv, IInv
<1>3. Attended(worker'[t], pc'[t], tasks'[t], t \in fired')
  BY <1>1, <1>2 DEF Attended, Ended, Stopped, SInv, WorkersTyped, CallTypeOK
<1> QED
  BY <1>1, <1>2, <1>3
  DEF Serves, CallsStay, OnlySettles, SettlesNot, SInv, WorkersTyped, WorkerPcs,
      Store!StoreTypeOK, CallTypeOK

\* The calls' own steps: one that is not under way stays where it is.
LEMMA CallAttended ==
  ASSUME SInv, NEW c \in Calls, AskGate(c) \/ CallGoes(c) \/ PlainEnds(c)
  PROVE  Store!StoreTypeOK' /\ WorkersTyped' /\ AllAttended'
<1>1. CallTypeOK /\ Tasks \subseteq Calls
  BY ServerAssumption DEF SInv, IInv
<1>2. UNCHANGED <<tasks, clock, worker>>
  BY DEF AskGate, CallGoes, PlainEnds, CallOnly
<1>3. CASE AskGate(c)
  <2>1. /\ c \in Tasks => worker[c] = "running"
        /\ \E to \in CallPcs : pc' = [pc EXCEPT ![c] = to]
        /\ fired' = fired
    BY <1>3 DEF AskGate, Ask, Goto, CallPcs
  <2> QED
    BY <1>1, <1>2, <2>1
    DEF SInv, AllAttended, Attended, WorkersTyped, Store!StoreTypeOK, CallTypeOK
<1>4. CASE CallGoes(c)
  <2>1. /\ fired' = fired
        /\ \/ pc' = pc
           \/ /\ \E to \in CallPcs : pc' = [pc EXCEPT ![c] = to]
              /\ pc[c] \notin {"idle", "returned"}
    BY <1>4
    DEF CallGoes, Proceed, Arm, Pool, Served, CancelQueued, LeaveQueue, GiveUp,
        PassCheck, Launch, Reaped, Return, CancelArm, TimeoutArm, OutputArm, KillArm, Term,
        Kill, Fork, Exit, CallKept, Goto, CallPcs
  <2> QED
    BY <1>1, <1>2, <2>1
    DEF SInv, AllAttended, Attended, WorkersTyped, Store!StoreTypeOK, CallTypeOK
<1>5. CASE PlainEnds(c)
  <2>1. /\ c \notin Tasks
        /\ \E to \in CallPcs : pc' = [pc EXCEPT ![c] = to]
        /\ fired' = fired \/ fired' = fired \ {c}
    BY <1>5
    DEF PlainEnds, DropQueued, LeaveQueue, DropSelecting, DropReaping, Forget, Goto, CallPcs
  <2> QED
    BY <1>1, <1>2, <2>1
    DEF SInv, AllAttended, Attended, WorkersTyped, Store!StoreTypeOK, CallTypeOK
<1> QED
  BY <1>3, <1>4, <1>5

-----------------------------------------------------------------------------
(* The invariant *)

LEMMA InitSInv == ServerInit => SInv
<1> SUFFICES ASSUME ServerInit PROVE SInv
  OBVIOUS
<1>1. IInv
  BY InitIInv DEF ServerInit
<1>2. GateSound
  BY EmptySeq DEF ServerInit, CallInit, Init, GateSound
<1>3. Store!StoreTypeOK
  BY ServerAssumption DEF ServerInit, Store!Init, Store!StoreTypeOK, Store!Times
<1>4. WorkersTyped
  BY DEF ServerInit, WorkersTyped, WorkerPcs
<1>5. AllAttended
  BY ServerAssumption
  DEF ServerInit, CallInit, Store!Init, AllAttended, Attended, Ended, Stopped
<1> QED
  BY <1>1, <1>2, <1>3, <1>4, <1>5 DEF SInv

LEMMA NextSInv == SInv /\ [ServerNext]_serverVars => SInv'
<1> SUFFICES ASSUME SInv, [ServerNext]_serverVars PROVE SInv'
  OBVIOUS
<1>1. IInv' /\ GateSound'
  BY StepIsCallStep, NextIInv, CallStepSound DEF SInv
<1>2. ASSUME NEW t \in Tasks, Serves(t)
      PROVE  Store!StoreTypeOK' /\ WorkersTyped' /\ AllAttended'
  BY <1>2, AttendedElsewhere DEF Serves, SInv
<1>3. ASSUME NEW t \in Tasks,
             Enqueue(t) \/ CancelTask(t) \/ Work(t) \/ Unwind(t) \/ Recycle(t)
      PROVE  Serves(t)
  BY <1>3, EnqueueServes, CancelTaskServes, EnterToolServes, EndServes, UnwindServes,
     RecycleServes
  DEF Work
<1>4. ASSUME TurnAway \/ GcLoop
      PROVE  Store!StoreTypeOK' /\ WorkersTyped' /\ AllAttended'
  <2>1. Store!StoreTypeOK' /\ NothingSettles
    BY <1>4, RefuseSettlesNot DEF TurnAway, GcLoop, SInv
  <2> QED
    BY <1>4, <2>1, AttendedStill DEF TurnAway, GcLoop, SInv, WorkersTyped
<1>5. ASSUME Store!Tick /\ UNCHANGED worker /\ UNCHANGED callVars
      PROVE  Store!StoreTypeOK' /\ WorkersTyped' /\ AllAttended'
  <2>1. Store!StoreTypeOK' /\ NothingSettles
    BY <1>5, ServerAssumption
    DEF Store!Tick, Store!StoreTypeOK, Store!Times, NothingSettles, SettlesNot, SInv
  <2> QED
    BY <1>5, <2>1, AttendedStill DEF SInv, WorkersTyped
<1>6. ASSUME UNCHANGED serverVars
      PROVE  Store!StoreTypeOK' /\ WorkersTyped' /\ AllAttended'
  <2>1. Store!StoreTypeOK' /\ NothingSettles /\ UNCHANGED <<worker, callVars>>
    BY <1>6 DEF serverVars, callVars, Store!StoreTypeOK, NothingSettles, SettlesNot, SInv
  <2> QED
    BY <2>1, AttendedStill DEF SInv, WorkersTyped
<1>7. Store!StoreTypeOK' /\ WorkersTyped' /\ AllAttended'
  BY <1>2, <1>3, <1>4, <1>5, <1>6, CallAttended DEF ServerNext
<1> QED
  BY <1>1, <1>7 DEF SInv

\* Each task's worker, call, record and token fit together.
THEOREM ServerInvariant == ServerSpec => []SInv
<1> QED
  BY InitSInv, NextSInv, PTL DEF ServerSpec

\* A task that shows Completed or Failed holds no permit, no place in the queue
\* and no process.
THEOREM EndedTasksHoldNothing == ServerSpec => []EndedHoldsNothing
<1>1. ASSUME SInv PROVE EndedHoldsNothing
  <2> SUFFICES ASSUME NEW t \in Store!Live, tasks[t].state \in {"Completed", "Failed"}
               PROVE  /\ t \notin running /\ (\A i \in 1..Len(line) : line[i] # t)
                      /\ alive[t] = {}
    BY DEF EndedHoldsNothing
  <2>1. t \in Tasks /\ t \in Calls /\ Ended(tasks[t])
    BY ServerAssumption DEF Store!Live, Ended
  <2>2. pc[t] \in {"idle", "returned"}
    BY <1>1, <2>1 DEF SInv, AllAttended, Attended
  <2>3. t \notin running /\ \A i \in 1..Len(line) : line[i] # t
    BY <1>1, <2>2 DEF SInv, GateSound, Busy
  <2>4. alive[t] = {}
    BY <1>1, <2>1, <2>2 DEF SInv, IInv, AllSound, Sound
  <2> QED
    BY <2>3, <2>4
<1> QED
  BY <1>1, ServerInvariant, PTL

\* A task that shows Cancelled begins no run any more, and the group of one that
\* it had begun is killed.
THEOREM CancelledTasksBeginNothing == ServerSpec => CancelledBeginsNothing
<1> DEFINE Kept == \A t \in Tasks : t \in Store!Live /\ tasks[t].state = "Cancelled" =>
                     /\ Begun(t)' <= Begun(t)
                     /\ pc[t] = "selecting" /\ pc'[t] # "selecting" =>
                          pc'[t] = "reaping" /\ reap'[t] = "queued"
<1>1. ASSUME SInv, [ServerNext]_serverVars
      PROVE  Kept
  <2> SUFFICES ASSUME NEW t \in Tasks, t \in Store!Live, tasks[t].state = "Cancelled"
               PROVE  /\ Begun(t)' <= Begun(t)
                      /\ pc[t] = "selecting" /\ pc'[t] # "selecting" =>
                           pc'[t] = "reaping" /\ reap'[t] = "queued"
    OBVIOUS
  <2>1. t \in fired /\ tasks[t] # NoTask
    BY <1>1 DEF SInv, AllAttended, Attended, Stopped, Store!Live
  <2>2. CallTypeOK /\ t \in Calls /\ runs[t] \in Nat
    BY <1>1, ServerAssumption, CallAssumption DEF SInv, IInv, CallTypeOK
  <2> DEFINE Stays == pc'[t] = pc[t] /\ runs'[t] = runs[t]
             Leaves == /\ pc[t] # "selecting" /\ pc'[t] # "spawning"
                       /\ runs'[t] = runs[t]
             Spawns == /\ pc[t] = "spawning" /\ pc'[t] = "selecting"
                       /\ runs'[t] = runs[t] + 1
             Kills == /\ pc[t] = "selecting" /\ pc'[t] = "reaping" /\ reap'[t] = "queued"
                      /\ runs'[t] = runs[t]
  <2>3. ASSUME Stays \/ Leaves \/ Spawns \/ Kills
        PROVE  /\ Begun(t)' <= Begun(t)
               /\ pc[t] = "selecting" /\ pc'[t] # "selecting" =>
                    pc'[t] = "reaping" /\ reap'[t] = "queued"
    BY <2>2, <2>3 DEF Begun
  <2>4. ASSUME NEW u \in Tasks,
               Enqueue(u) \/ CancelTask(u) \/ Work(u) \/ Unwind(u) \/ Recycle(u)
        PROVE  Stays \/ Leaves
    <3>1. CASE Recycle(u)
      <4>1. u # t
        BY <2>1, <3>1 DEF Recycle, Store!Live
      <4> QED
        BY <2>2, <3>1, <4>1 DEF Recycle, Forget, Goto, CallTypeOK, callVars
    <3>2. CASE Unwind(u)
      BY <2>2, <3>2 DEF Unwind, GiveUp, Return, Goto, CallTypeOK, callVars
    <3>3. CASE Enqueue(u) \/ CancelTask(u) \/ Work(u)
      BY <3>3 DEF Enqueue, CancelTask, Fire, Work, EnterTool, Conclude, DropGuard, callVars
    <3> QED
      BY <2>4, <3>1, <3>2, <3>3
  <2>5. ASSUME NEW c \in Calls, AskGate(c) \/ CallGoes(c)
        PROVE  Stays \/ Leaves \/ Spawns \/ Kills
    <3>1. CASE c = t /\ (AskGate(c) \/ Served(c) \/ CancelQueued(c) \/ GiveUp(c) \/ Reaped(c))
      BY <2>2, <3>1
      DEF AskGate, Ask, Served, CancelQueued, LeaveQueue, GiveUp, Reaped, Return, Goto,
          CallTypeOK
    <3>2. CASE c = t /\ (PassCheck(c) \/ Launch(c) \/ Arm(c))
      BY <2>1, <2>2, <3>2
      DEF PassCheck, Launch, Arm, CancelArm, TimeoutArm, OutputArm, KillArm, Goto, CallTypeOK
    <3>3. CASE c # t /\ (AskGate(c) \/ Proceed(c) \/ Arm(c))
      BY <2>2, <3>3
      DEF AskGate, Ask, Proceed, Served, CancelQueued, LeaveQueue, GiveUp, PassCheck,
          Launch, Reaped, Return, Arm, CancelArm, TimeoutArm, OutputArm, KillArm, Goto,
          CallTypeOK
    <3>4. CASE Pool(c) \/ Fork(c) \/ Exit(c)
      BY <3>4 DEF Pool, Term, Kill, Fork, Exit, CallKept
    <3> QED
      BY <2>5, <3>1, <3>2, <3>3, <3>4 DEF CallGoes, Proceed
  <2>6. ASSUME NEW c \in Calls, PlainEnds(c)
        PROVE  Stays
    BY <2>2, <2>6
    DEF PlainEnds, DropQueued, LeaveQueue, DropSelecting, DropReaping, Forget, Goto,
        CallTypeOK
  <2>7. ASSUME TurnAway \/ GcLoop \/ UNCHANGED callVars \/ UNCHANGED serverVars
        PROVE  Stays
    BY <2>7 DEF TurnAway, GcLoop, callVars, serverVars
  <2> HIDE DEF Stays, Leaves, Spawns, Kills
  <2> QED
    BY <1>1, <2>3, <2>4, <2>5, <2>6, <2>7 DEF ServerNext
<1>2. SInv /\ [ServerNext]_serverVars => [Kept]_serverVars
  BY <1>1
<1> QED
  BY <1>2, ServerInvariant, PTL DEF ServerSpec, CancelledBeginsNothing

\* Permits and processes change nothing for the registry: everything proved of
\* TaskStore holds of the server's.
THEOREM ServerImplementsStore == ServerSpec => Store!Spec
<1>1. ServerInit => Store!Init
  BY DEF ServerInit
<1>2. ASSUME SInv, [ServerNext]_serverVars
      PROVE  [Store!Next]_(Store!storeVars)
  <2>1. \A at \in 0..clock : at \in Store!Times
    BY <1>2, ServerAssumption DEF SInv, Store!StoreTypeOK, Store!Times
  <2>2. ASSUME NEW t \in Tasks,
               Enqueue(t) \/ CancelTask(t) \/ Work(t) \/ Unwind(t) \/ Recycle(t)
        PROVE  [Store!Next]_(Store!storeVars)
    <3>1. CASE Enqueue(t)
      BY <2>1, <3>1 DEF Enqueue, Store!Next
    <3>2. CASE CancelTask(t)
      BY <3>2 DEF CancelTask, Store!Next
    <3>3. CASE EnterTool(t)
      BY <3>3 DEF EnterTool, Store!Next
    <3>4. CASE Conclude(t)
      BY <3>4, ConcludeFinishes DEF Store!Next
    <3>5. CASE DropGuard(t)
      <4>1. "unfinished" \in Payloads
        BY DEF Payloads
      <4> QED
        BY <3>5, <4>1 DEF DropGuard, Store!Next
    <3>6. CASE Unwind(t) \/ Recycle(t)
      BY <3>6 DEF Unwind, Recycle, Store!storeVars
    <3> QED
      BY <2>2, <3>1, <3>2, <3>3, <3>4, <3>5, <3>6 DEF Work
  <2>3. CASE TurnAway \/ GcLoop
    BY <2>1, <2>3 DEF TurnAway, GcLoop, Store!Next
  <2>4. CASE Store!Tick
    BY <2>4 DEF Store!Next
  <2>5. ASSUME NEW c \in Calls, AskGate(c) \/ CallGoes(c) \/ PlainEnds(c)
        PROVE  [Store!Next]_(Store!storeVars)
    BY <2>5 DEF AskGate, CallGoes, PlainEnds, CallOnly, Store!storeVars
  <2>6. CASE UNCHANGED serverVars
    BY <2>6 DEF serverVars, Store!storeVars
  <2> QED
    BY <1>2, <2>2, <2>3, <2>4, <2>5, <2>6 DEF ServerNext
<1> QED
  BY <1>1, <1>2, ServerInvariant, PTL DEF ServerSpec, Store!Spec
=============================================================================
