------------------------------ MODULE TaskProofs ------------------------------
(***************************************************************************)
(* Proofs about TaskStore, for any set of ids, any configuration, any      *)
(* requested ttl and a clock that may be set back: records stay coherent,  *)
(* an outcome is final, the map is bounded, and the store implements       *)
(* TaskLife.  Every method moves each record the way Evolves says; the     *)
(* properties follow from that and from how many records create leaves.    *)
(*                                                                         *)
(* Then about TaskRunner, for any finite set of tasks, any requests that   *)
(* wait, any registry and any clock that moves forward: the runner uses    *)
(* the registry as TaskStore allows, a working task has somebody who       *)
(* settles it, answers are the final outcome, records outlive their ttl,   *)
(* and a task is refused only by a full map.  A step moves the entry of a  *)
(* task (Moves) and its request and worker (Goes) in few ways; the         *)
(* invariant of a task follows from these, and that of a waiter from the   *)
(* task's.                                                                 *)
(***************************************************************************)
EXTENDS TaskRunner, FiniteSetTheorems, TLAPS

\* The fields of one record agree.
Coherent(r) ==
  /\ r.chan = r.state
  /\ r.token <=> r.state = "Cancelled"
  /\ r.result # NoResult <=> r.state \in {"Completed", "Failed"}
  /\ r.state = "Working" <=> r.msg \in {"queued", "running"}

Entries == Record \cup {NoTask}

\* What one step may do to one entry of the map.
Evolves(old, new) ==
  \/ new = old
  \/ old = NoTask /\ new # NoTask /\ new.state = "Working"
  \/ old # NoTask /\ old.state # "Working" /\ new = NoTask
  \/ old # NoTask /\ old.state = "Working" /\ new # NoTask

\* The map holds no more records than the store admits.
Bounded == Cardinality(Live) <= Capacity

IInv == StoreTypeOK /\ RecordCoherent /\ Bounded

-----------------------------------------------------------------------------
(* Records *)

LEMMA ClampBound ==
  ASSUME NEW req \in Ttls \cup {Unset}
  PROVE  Clamp(req) \in 0..MaxTtl
  BY StoreAssumption DEF Clamp

LEMMA FreshRecord ==
  ASSUME NEW req \in Ttls \cup {Unset}, NEW at \in Times
  PROVE  /\ Fresh(req, at) \in Record
         /\ Fresh(req, at).state = "Working"
         /\ Coherent(Fresh(req, at))
<1> DEFINE T == Clamp(req)
<1>1. T \in 0..MaxTtl
  BY ClampBound
<1> HIDE DEF T
<1>2. Fresh(req, at) = [state |-> "Working", msg |-> "queued", updated |-> at,
         ttl |-> T, result |-> NoResult, token |-> FALSE, chan |-> "Working"]
  BY DEF Fresh, T
<1> QED
  BY <1>1, <1>2 DEF Record, Coherent, TaskStates, Messages

LEMMA FinishedIsRecord ==
  ASSUME NEW r \in Record, NEW payload \in Payloads, NEW failed \in BOOLEAN,
         clock \in Times, Coherent(r), r.state = "Working"
  PROVE  /\ FinishedRecord(r, payload, failed) \in Record
         /\ FinishedRecord(r, payload, failed).state \in {"Completed", "Failed"}
         /\ Coherent(FinishedRecord(r, payload, failed))
<1>1. CASE failed
  BY <1>1, StoreAssumption DEF FinishedRecord, Record, Coherent, TaskStates, Messages
<1>2. CASE ~failed
  BY <1>2, StoreAssumption DEF FinishedRecord, Record, Coherent, TaskStates, Messages
<1> QED
  BY <1>1, <1>2

LEMMA CancelledIsRecord ==
  ASSUME NEW r \in Record, clock \in Times, Coherent(r), r.state = "Working"
  PROVE  /\ CancelledRecord(r) \in Record
         /\ CancelledRecord(r).state = "Cancelled"
         /\ Coherent(CancelledRecord(r))
  BY DEF CancelledRecord, Record, Coherent, TaskStates, Messages

LEMMA BeatenIsRecord ==
  ASSUME NEW r \in Record, clock \in Times, Coherent(r), r.state = "Working"
  PROVE  LET new == [r EXCEPT !.msg = "running", !.updated = clock]
         IN  new \in Record /\ new.state = "Working" /\ Coherent(new)
  BY DEF Record, Coherent, TaskStates, Messages

\* A new map that differs from the old one in the entry of t only.
LEMMA OneEntry ==
  ASSUME StoreTypeOK, RecordCoherent, NEW t \in TaskIds, NEW r \in Record,
         Working(t), Coherent(r), tasks' = [tasks EXCEPT ![t] = r]
  PROVE  /\ tasks' \in [TaskIds -> Entries]
         /\ RecordCoherent'
         /\ Live' = Live
         /\ \A u \in TaskIds : Evolves(tasks[u], tasks'[u])
<1>1. /\ tasks' \in [TaskIds -> Entries]
      /\ \A u \in TaskIds : tasks'[u] = IF u = t THEN r ELSE tasks[u]
  BY DEF StoreTypeOK, Entries
<1>2. r # NoTask /\ tasks[t] # NoTask /\ tasks[t].state = "Working"
  BY StoreAssumption DEF Working, Live, IsTerminal
<1>3. Live' = Live
  BY <1>1, <1>2 DEF Live
<1>4. RecordCoherent'
  <2> SUFFICES ASSUME NEW u \in Live PROVE Coherent(tasks'[u])
    BY <1>3 DEF RecordCoherent, Coherent
  <2>1. Coherent(tasks[u]) /\ u \in TaskIds
    BY DEF RecordCoherent, Coherent, Live
  <2>2. tasks'[u] = r \/ tasks'[u] = tasks[u]
    BY <1>1, <2>1
  <2> QED
    BY <2>1, <2>2
<1>5. \A u \in TaskIds : Evolves(tasks[u], tasks'[u])
  BY <1>1, <1>2 DEF Evolves
<1> QED
  BY <1>1, <1>3, <1>4, <1>5

LEMMA Finite == IsFiniteSet(Live) /\ Cardinality(Live) \in Nat
  BY StoreAssumption, FS_Subset, FS_CardinalityType DEF Live

LEMMA CapacityType == Capacity \in Nat
  BY StoreAssumption DEF Capacity

-----------------------------------------------------------------------------
(* Sweeps *)

\* What a sweep at the time `at` may leave in the map.
Sweeps(kept) == \E at \in Times : kept \in {Live, Live \ Expired(at)}

\* A sweep keeps an entry as it is or removes a terminal record.
LEMMA RetainEntries ==
  ASSUME StoreTypeOK, NEW kept, Sweeps(kept)
  PROVE  /\ kept \subseteq Live
         /\ Retain(kept) \in [TaskIds -> Entries]
         /\ \A u \in TaskIds :
              /\ Retain(kept)[u] = IF u \in kept THEN tasks[u] ELSE NoTask
              /\ u \notin kept => tasks[u] = NoTask \/ tasks[u].state # "Working"
<1>1. kept \subseteq Live
  BY DEF Sweeps
<1>2. \A u \in TaskIds : u \notin kept => tasks[u] = NoTask \/ tasks[u].state # "Working"
  BY DEF Sweeps, Live, Expired, IsExpired, IsTerminal
<1> QED
  BY <1>1, <1>2 DEF Retain, StoreTypeOK, Entries

LEMMA SweepKeeps ==
  ASSUME StoreTypeOK, RecordCoherent, NEW kept, Sweeps(kept), tasks' = Retain(kept)
  PROVE  /\ tasks' \in [TaskIds -> Entries]
         /\ RecordCoherent'
         /\ Live' = kept
         /\ \A u \in TaskIds : Evolves(tasks[u], tasks'[u])
<1>1. /\ kept \subseteq Live
      /\ tasks' \in [TaskIds -> Entries]
      /\ \A u \in TaskIds :
           /\ tasks'[u] = IF u \in kept THEN tasks[u] ELSE NoTask
           /\ u \notin kept => tasks[u] = NoTask \/ tasks[u].state # "Working"
  BY RetainEntries
<1>2. Live' = kept
  BY <1>1 DEF Live
<1>3. RecordCoherent'
  <2> SUFFICES ASSUME NEW u \in Live' PROVE Coherent(tasks'[u])
    BY DEF RecordCoherent, Coherent
  <2>1. u \in kept /\ u \in Live /\ u \in TaskIds
    BY <1>1, <1>2 DEF Live
  <2>2. Coherent(tasks[u]) /\ tasks'[u] = tasks[u]
    BY <1>1, <2>1 DEF RecordCoherent, Coherent
  <2> QED
    BY <2>2
<1>4. \A u \in TaskIds : Evolves(tasks[u], tasks'[u])
  BY <1>1 DEF Evolves
<1> QED
  BY <1>1, <1>2, <1>3, <1>4

LEMMA RemainingSweeps ==
  ASSUME NEW at \in Times
  PROVE  Sweeps(Remaining(at)) /\ Sweeps(Live \ Expired(at))
  BY DEF Sweeps, Remaining

LEMMA AdmitKeeps ==
  ASSUME StoreTypeOK, RecordCoherent, NEW t \in TaskIds, NEW req \in Ttls \cup {Unset},
         NEW at \in Times, Admit(t, req, at)
  PROVE  /\ tasks' \in [TaskIds -> Entries]
         /\ RecordCoherent'
         /\ Live' = Remaining(at) \cup {t}
         /\ \A u \in TaskIds : Evolves(tasks[u], tasks'[u])
<1> DEFINE kept == Remaining(at)
           r == Fresh(req, at)
<1>1. /\ kept \subseteq Live
      /\ Retain(kept) \in [TaskIds -> Entries]
      /\ \A u \in TaskIds :
           /\ Retain(kept)[u] = IF u \in kept THEN tasks[u] ELSE NoTask
           /\ u \notin kept => tasks[u] = NoTask \/ tasks[u].state # "Working"
  BY RetainEntries, RemainingSweeps
<1>2. r \in Record /\ r.state = "Working" /\ Coherent(r) /\ r # NoTask
  BY FreshRecord, StoreAssumption
<1>3. tasks' = [Retain(kept) EXCEPT ![t] = r] /\ t \notin Live
  BY DEF Admit
<1> HIDE DEF kept, r
<1>4. /\ tasks' \in [TaskIds -> Entries]
      /\ \A u \in TaskIds : tasks'[u] = IF u = t THEN r
                                        ELSE IF u \in kept THEN tasks[u] ELSE NoTask
  BY <1>1, <1>2, <1>3 DEF Entries
<1>5. Live' = kept \cup {t}
  BY <1>1, <1>2, <1>4 DEF Live
<1>6. RecordCoherent'
  <2> SUFFICES ASSUME NEW u \in Live' PROVE Coherent(tasks'[u])
    BY DEF RecordCoherent, Coherent
  <2>1. u \in Live => Coherent(tasks[u])
    BY DEF RecordCoherent, Coherent
  <2>2. u \in TaskIds /\ (u = t \/ u \in kept)
    BY <1>5 DEF Live
  <2> QED
    BY <1>1, <1>2, <1>4, <2>1, <2>2
<1>7. \A u \in TaskIds : Evolves(tasks[u], tasks'[u])
  BY <1>1, <1>2, <1>3, <1>4 DEF Evolves, Live
<1> QED
  BY <1>4, <1>5, <1>6, <1>7 DEF kept

-----------------------------------------------------------------------------
(* Every step *)

\* What every step does to the map.
Keeps ==
  /\ tasks' \in [TaskIds -> Entries]
  /\ RecordCoherent'
  /\ \A u \in TaskIds : Evolves(tasks[u], tasks'[u])
  /\ \/ Live' = Live
     \/ \E kept \in SUBSET Live : Live' = kept
     \/ \E t \in TaskIds, kept \in SUBSET Live :
          Cardinality(kept) < Capacity /\ Live' = kept \cup {t}

LEMMA SetStatusKeeps ==
  ASSUME StoreTypeOK, RecordCoherent, NEW t \in TaskIds, SetStatus(t, "running")
  PROVE  Keeps
<1>1. CASE Working(t)
  <2> DEFINE r == [tasks[t] EXCEPT !.msg = "running", !.updated = clock]
  <2>1. tasks[t] \in Record /\ tasks[t].state = "Working" /\ Coherent(tasks[t])
        /\ clock \in Times
    BY <1>1 DEF StoreTypeOK, RecordCoherent, Coherent, Working, Live, IsTerminal
  <2>2. tasks' = [tasks EXCEPT ![t] = r]
    BY <1>1 DEF SetStatus
  <2>3. r \in Record /\ Coherent(r)
    BY <2>1, BeatenIsRecord
  <2> HIDE DEF r
  <2> QED
    BY <1>1, <2>2, <2>3, OneEntry DEF Keeps
<1>2. CASE ~Working(t)
  BY <1>2 DEF SetStatus, Keeps, StoreTypeOK, Entries, Evolves, RecordCoherent, Live
<1> QED
  BY <1>1, <1>2

LEMMA FinishKeeps ==
  ASSUME StoreTypeOK, RecordCoherent, NEW t \in TaskIds, NEW payload \in Payloads,
         NEW failed \in BOOLEAN, Finish(t, payload, failed)
  PROVE  Keeps
<1>1. CASE Working(t)
  <2>1. tasks[t] \in Record /\ tasks[t].state = "Working" /\ Coherent(tasks[t])
        /\ clock \in Times
    BY <1>1 DEF StoreTypeOK, RecordCoherent, Coherent, Working, Live, IsTerminal
  <2>2. tasks' = [tasks EXCEPT ![t] = FinishedRecord(tasks[t], payload, failed)]
    BY <1>1 DEF Finish
  <2> QED
    BY <1>1, <2>1, <2>2, FinishedIsRecord, OneEntry DEF Keeps
<1>2. CASE ~Working(t)
  BY <1>2 DEF Finish, Keeps, StoreTypeOK, Entries, Evolves, RecordCoherent, Live
<1> QED
  BY <1>1, <1>2

LEMMA CancelKeeps ==
  ASSUME StoreTypeOK, RecordCoherent, NEW t \in TaskIds, Cancel(t)
  PROVE  Keeps
<1>1. tasks[t] \in Record /\ tasks[t].state = "Working" /\ Coherent(tasks[t])
      /\ clock \in Times
  BY DEF Cancel, StoreTypeOK, RecordCoherent, Coherent, Working, Live, IsTerminal
<1>2. Working(t) /\ tasks' = [tasks EXCEPT ![t] = CancelledRecord(tasks[t])]
  BY DEF Cancel
<1> QED
  BY <1>1, <1>2, CancelledIsRecord, OneEntry DEF Keeps

LEMMA NextKeeps ==
  ASSUME StoreTypeOK, RecordCoherent, [Next]_storeVars
  PROVE  Keeps /\ clock' \in Times
<1>1. ASSUME NEW t \in TaskIds, NEW req \in Ttls \cup {Unset}, NEW at \in Times,
             Admit(t, req, at)
      PROVE  Keeps /\ clock' = clock
  <2>1. Cardinality(Remaining(at)) < Capacity /\ Remaining(at) \subseteq Live
        /\ clock' = clock
    BY <1>1 DEF Admit, Remaining
  <2> QED
    BY <1>1, <2>1, AdmitKeeps DEF Keeps
<1>2. ASSUME NEW at \in Times, Refuse(at)
      PROVE  Keeps /\ clock' = clock
  BY <1>2, RemainingSweeps, SweepKeeps DEF Refuse, Keeps, Remaining
<1>3. ASSUME NEW at \in Times, Gc(at)
      PROVE  Keeps /\ clock' = clock
  BY <1>3, RemainingSweeps, SweepKeeps DEF Gc, Keeps
<1>4. ASSUME UNCHANGED tasks
      PROVE  Keeps
  BY <1>4 DEF Keeps, StoreTypeOK, Entries, Evolves, RecordCoherent, Live
<1>5. ASSUME NEW t \in TaskIds, SetStatus(t, "running")
      PROVE  Keeps /\ clock' = clock
  BY <1>5, SetStatusKeeps DEF SetStatus
<1>6. ASSUME NEW t \in TaskIds, NEW payload \in Payloads, NEW failed \in BOOLEAN,
             Finish(t, payload, failed)
      PROVE  Keeps /\ clock' = clock
  BY <1>6, FinishKeeps DEF Finish
<1>7. ASSUME NEW t \in TaskIds, Cancel(t)
      PROVE  Keeps /\ clock' = clock
  BY <1>7, CancelKeeps DEF Cancel
<1>8. clock \in Times /\ (Tick => clock' \in Times) /\ (SetBack => clock' \in Times)
  BY StoreAssumption DEF StoreTypeOK, Tick, SetBack, Times
<1>9. CASE UNCHANGED storeVars
  BY <1>4, <1>8, <1>9 DEF storeVars
<1>10. CASE Next
  BY <1>1, <1>2, <1>3, <1>4, <1>5, <1>6, <1>7, <1>8, <1>10 DEF Next, Tick, SetBack
<1> QED
  BY <1>9, <1>10

-----------------------------------------------------------------------------
(* The invariant *)

LEMMA InitIInv == Init => IInv
<1> SUFFICES ASSUME Init PROVE IInv
  OBVIOUS
<1>1. StoreTypeOK
  BY StoreAssumption DEF Init, StoreTypeOK, Times
<1>2. Live = {}
  BY DEF Init, Live
<1>3. RecordCoherent
  BY <1>2 DEF RecordCoherent
<1>4. Bounded
  BY <1>2, FS_EmptySet, CapacityType DEF Bounded
<1> QED
  BY <1>1, <1>3, <1>4 DEF IInv

\* create leaves no more records than the cap: it inserts one where at least
\* one is missing.
LEMMA KeepsBounded ==
  ASSUME Bounded, Keeps
  PROVE  Bounded'
<1>1. IsFiniteSet(Live) /\ Cardinality(Live) \in Nat /\ Capacity \in Nat
  BY Finite, CapacityType
<1>2. ASSUME NEW kept \in SUBSET Live
      PROVE  IsFiniteSet(kept) /\ Cardinality(kept) \in Nat
             /\ Cardinality(kept) <= Cardinality(Live)
  BY <1>1, <1>2, FS_Subset, FS_CardinalityType
<1>3. ASSUME NEW t \in TaskIds, NEW kept \in SUBSET Live, Cardinality(kept) < Capacity
      PROVE  Cardinality(kept \cup {t}) <= Capacity
  <2>1. IsFiniteSet(kept) /\ Cardinality(kept) \in Nat
    BY <1>2
  <2>2. Cardinality(kept \cup {t}) <= Cardinality(kept) + 1
    BY <2>1, FS_AddElement
  <2>3. Cardinality(kept \cup {t}) \in Nat
    BY <2>1, FS_AddElement, FS_CardinalityType
  <2> QED
    BY <1>1, <1>3, <2>1, <2>2, <2>3
<1>4. Capacity' = Capacity
  BY DEF Capacity
<1>5. CASE Live' = Live
  BY <1>4, <1>5 DEF Bounded
<1>6. CASE \E kept \in SUBSET Live : Live' = kept
  BY <1>1, <1>2, <1>4, <1>6 DEF Bounded
<1>7. CASE \E t \in TaskIds, kept \in SUBSET Live :
             Cardinality(kept) < Capacity /\ Live' = kept \cup {t}
  BY <1>3, <1>4, <1>7 DEF Bounded
<1> QED
  BY <1>5, <1>6, <1>7 DEF Keeps

LEMMA NextIInv == IInv /\ [Next]_storeVars => IInv'
<1> SUFFICES ASSUME IInv, [Next]_storeVars PROVE IInv'
  OBVIOUS
<1>1. Keeps /\ clock' \in Times
  BY NextKeeps DEF IInv
<1>2. StoreTypeOK'
  BY <1>1 DEF Keeps, StoreTypeOK, Entries
<1> QED
  BY <1>1, <1>2, KeepsBounded DEF IInv, Keeps

\* The registry keeps its types, its records stay coherent and its size stays
\* within the cap, for every configuration and every order of calls.
THEOREM Invariant == Spec => []IInv
<1> QED
  BY InitIInv, NextIInv, PTL DEF Spec

\* The map holds records, within the configuration.
THEOREM TypeCorrect == Spec => []StoreTypeOK
<1>1. IInv => StoreTypeOK
  BY DEF IInv
<1> QED
  BY <1>1, Invariant, PTL

\* State, payload, token and channel of a record agree at all times.
THEOREM RecordsAreCoherent == Spec => []RecordCoherent
<1>1. IInv => RecordCoherent
  BY DEF IInv
<1> QED
  BY <1>1, Invariant, PTL

\* The number of records never exceeds max_tasks, or one if that is zero.
THEOREM StoreIsBounded == Spec => []Bounded
<1>1. IInv => Bounded
  BY DEF IInv
<1> QED
  BY <1>1, Invariant, PTL

-----------------------------------------------------------------------------
(* The life of a task *)

\* The instance counts as we do.
LEMMA LifeCount == \A S : Life!Cardinality(S) = Cardinality(S)
  BY Zenon DEF Life!Cardinality, Cardinality

\* The phase of a task as TaskLife sees it.
Phase == [t \in TaskIds |-> IF tasks[t] = NoTask THEN "absent" ELSE tasks[t].state]

LEMMA Known ==
  ASSUME StoreTypeOK
  PROVE  Life!Known = Live
  BY DEF Life!Known, Live, StoreTypeOK, Record, TaskStates

LEMMA LifeStutter ==
  ASSUME tasks' = tasks
  PROVE  UNCHANGED Phase
  BY DEF Phase

\* A record that is replaced by one in the state s moves its task to s.
LEMMA PhaseMoves ==
  ASSUME StoreTypeOK, NEW t \in TaskIds, NEW r, r # NoTask, tasks' = [tasks EXCEPT ![t] = r]
  PROVE  Phase' = [Phase EXCEPT ![t] = r.state]
  BY DEF Phase, StoreTypeOK

\* What a sweep removes may be forgotten.
LEMMA SweepForgets ==
  ASSUME StoreTypeOK, NEW kept, Sweeps(kept)
  PROVE  /\ Live \ kept \in Life!Forgettable
         /\ \A u \in TaskIds : Life!Without(Live \ kept)[u] =
              IF u \in kept THEN Phase[u] ELSE "absent"
         /\ Life!Known \ (Live \ kept) = kept
<1>1. kept \subseteq Live
  BY DEF Sweeps
<1>2. ASSUME NEW u \in Live \ kept
      PROVE  u \in TaskIds /\ tasks[u] # NoTask
             /\ tasks[u].state \in {"Completed", "Failed", "Cancelled"}
  <2>1. u \in TaskIds /\ tasks[u] \in Record /\ tasks[u] # NoTask
    BY <1>2 DEF Live, StoreTypeOK
  <2>2. tasks[u].state # "Working"
    BY <1>2, <2>1, RetainEntries
  <2> QED
    BY <2>1, <2>2 DEF Record, TaskStates
<1>3. Live \ kept \in Life!Forgettable
  BY <1>2 DEF Life!Forgettable, Life!Settled
<1>4. \A u \in TaskIds : Life!Without(Live \ kept)[u] =
        IF u \in kept THEN Phase[u] ELSE "absent"
  BY <1>1 DEF Life!Without, Phase, Live
<1> QED
  BY <1>1, <1>3, <1>4, Known

LEMMA LifeForget ==
  ASSUME StoreTypeOK, NEW kept, Sweeps(kept), tasks' = Retain(kept)
  PROVE  Life!Forget
<1>1. \A u \in TaskIds : Retain(kept)[u] = IF u \in kept THEN tasks[u] ELSE NoTask
  BY RetainEntries
<1>2. kept \subseteq Live
  BY DEF Sweeps
<1>3. Phase' = Life!Without(Live \ kept)
  BY <1>1, <1>2 DEF Phase, Life!Without, Live
<1> QED
  BY <1>3, SweepForgets DEF Life!Forget, Phase

LEMMA LifeAdmit ==
  ASSUME StoreTypeOK, NEW t \in TaskIds, NEW req \in Ttls \cup {Unset},
         NEW at \in Times, Admit(t, req, at)
  PROVE  Life!Admit(t)
<1> DEFINE kept == Remaining(at)
           gone == Live \ kept
           r == Fresh(req, at)
<1>1. /\ t \notin Live
      /\ Cardinality(kept) < Capacity
      /\ tasks' = [Retain(kept) EXCEPT ![t] = r]
  BY DEF Admit
<1>2. r # NoTask /\ r.state = "Working"
  BY FreshRecord, StoreAssumption
<1>3. Sweeps(kept)
  BY RemainingSweeps
<1> HIDE DEF kept, r
<1>4. Retain(kept) \in [TaskIds -> Entries] /\ kept \subseteq Live
      /\ \A u \in TaskIds : Retain(kept)[u] = IF u \in kept THEN tasks[u] ELSE NoTask
  BY <1>3, RetainEntries
<1>5. \A u \in TaskIds :
        tasks'[u] = IF u = t THEN r ELSE IF u \in kept THEN tasks[u] ELSE NoTask
  BY <1>1, <1>4
<1>6. Phase' = [Life!Without(gone) EXCEPT ![t] = "Working"]
  BY <1>2, <1>4, <1>5 DEF Phase, Life!Without, Live
<1>7. gone \in Life!Forgettable /\ Life!Known \ gone = kept
  BY <1>3, SweepForgets
<1>8. Phase[t] = "absent"
  BY <1>1 DEF Phase, Live
<1>9. Life!Cardinality(Life!Known \ gone) < Capacity
  BY <1>1, <1>7, LifeCount
<1> QED
  BY <1>6, <1>7, <1>8, <1>9 DEF Life!Admit, Phase

\* A working record replaced by a settled one settles the task.
LEMMA LifeSettle ==
  ASSUME StoreTypeOK, NEW t \in TaskIds, Working(t), NEW r, r # NoTask,
         r.state \in {"Completed", "Failed", "Cancelled"}, tasks' = [tasks EXCEPT ![t] = r]
  PROVE  Life!Settle(t)
<1>1. Phase' = [Phase EXCEPT ![t] = r.state]
  BY PhaseMoves
<1>2. Phase[t] = "Working"
  BY DEF Phase, Working, Live, IsTerminal
<1> QED
  BY <1>1, <1>2 DEF Life!Settle, Life!Settled, Phase

LEMMA LifeHeartbeat ==
  ASSUME StoreTypeOK, RecordCoherent, NEW t \in TaskIds, SetStatus(t, "running")
  PROVE  UNCHANGED Phase
<1>1. CASE Working(t)
  <2> DEFINE r == [tasks[t] EXCEPT !.msg = "running", !.updated = clock]
  <2>1. tasks[t] \in Record /\ tasks[t].state = "Working" /\ tasks[t] # NoTask
        /\ Coherent(tasks[t]) /\ clock \in Times
    BY <1>1 DEF StoreTypeOK, RecordCoherent, Coherent, Working, Live, IsTerminal
  <2>2. tasks' = [tasks EXCEPT ![t] = r]
    BY <1>1 DEF SetStatus
  <2>3. r \in Record /\ r # NoTask /\ r.state = "Working"
    BY <2>1, BeatenIsRecord, StoreAssumption
  <2> HIDE DEF r
  <2>4. Phase' = [Phase EXCEPT ![t] = "Working"]
    BY <2>2, <2>3, PhaseMoves
  <2>5. Phase[t] = "Working"
    BY <2>1 DEF Phase
  <2> QED
    BY <2>4, <2>5 DEF Phase
<1>2. CASE ~Working(t)
  BY <1>2, LifeStutter DEF SetStatus
<1> QED
  BY <1>1, <1>2

LEMMA LifeStep ==
  ASSUME StoreTypeOK, RecordCoherent, [Next]_storeVars
  PROVE  [Life!Next]_Phase
<1>1. ASSUME NEW t \in TaskIds, NEW req \in Ttls \cup {Unset}, NEW at \in Times,
             Admit(t, req, at)
      PROVE  Life!Next
  BY <1>1, LifeAdmit DEF Life!Next
<1>2. ASSUME NEW at \in Times, Refuse(at) \/ Gc(at)
      PROVE  Life!Next
  BY <1>2, RemainingSweeps, LifeForget DEF Refuse, Gc, Life!Next
<1>3. ASSUME NEW t \in TaskIds, SetStatus(t, "running")
      PROVE  UNCHANGED Phase
  BY <1>3, LifeHeartbeat
<1>4. ASSUME NEW t \in TaskIds, Working(t)
      PROVE  tasks[t] \in Record /\ tasks[t].state = "Working" /\ Coherent(tasks[t])
             /\ clock \in Times
  BY <1>4 DEF StoreTypeOK, RecordCoherent, Coherent, Working, Live, IsTerminal
<1>5. ASSUME NEW t \in TaskIds, NEW payload \in Payloads, NEW failed \in BOOLEAN,
             Finish(t, payload, failed)
      PROVE  [Life!Next]_Phase
  <2>1. CASE Working(t)
    <3> DEFINE r == FinishedRecord(tasks[t], payload, failed)
    <3>1. tasks' = [tasks EXCEPT ![t] = r]
      BY <1>5, <2>1 DEF Finish
    <3>2. r \in Record /\ r # NoTask /\ r.state \in {"Completed", "Failed"}
      BY <1>4, <2>1, FinishedIsRecord, StoreAssumption
    <3> HIDE DEF r
    <3>3. Life!Settle(t)
      BY <2>1, <3>1, <3>2, LifeSettle
    <3> QED
      BY <3>3 DEF Life!Next
  <2>2. CASE ~Working(t)
    BY <1>5, <2>2, LifeStutter DEF Finish
  <2> QED
    BY <2>1, <2>2
<1>6. ASSUME NEW t \in TaskIds, Cancel(t)
      PROVE  Life!Next
  <2> DEFINE r == CancelledRecord(tasks[t])
  <2>1. Working(t) /\ tasks' = [tasks EXCEPT ![t] = r]
    BY <1>6 DEF Cancel
  <2>2. r \in Record /\ r # NoTask /\ r.state = "Cancelled"
    BY <1>4, <2>1, CancelledIsRecord, StoreAssumption
  <2> HIDE DEF r
  <2>3. Life!Settle(t)
    BY <2>1, <2>2, LifeSettle
  <2> QED
    BY <2>3 DEF Life!Next
<1>7. CASE UNCHANGED tasks
  BY <1>7, LifeStutter
<1>8. CASE Next
  BY <1>1, <1>2, <1>3, <1>5, <1>6, <1>7, <1>8 DEF Next, Tick, SetBack
<1>9. CASE UNCHANGED storeVars
  BY <1>7, <1>9 DEF storeVars
<1> QED
  BY <1>8, <1>9

\* For every configuration and under a clock that may jump back, the registry
\* implements TaskLife: bounded, settled once, only settled tasks forgotten.
THEOREM StoreImplementsTaskLife == Spec => ImplementsTaskLife
<1>1. Init => Life!Init
  BY DEF Init, Life!Init
<1>2. IInv /\ [Next]_storeVars => [Life!Next]_Phase
  BY LifeStep DEF IInv
<1>3. Spec => []IInv
  BY Invariant
<1> QED
  BY <1>1, <1>2, <1>3, PTL DEF Spec, ImplementsTaskLife, Life!Spec, Phase

\* No call changes a terminal record: it stays as it is until it is evicted.
THEOREM TerminalIsFrozen == Spec => TerminalFrozen
<1>1. ASSUME IInv, [Next]_storeVars
      PROVE  \A t \in TaskIds : Terminal(t) => tasks'[t] \in {tasks[t], NoTask}
  <2>1. \A t \in TaskIds : Evolves(tasks[t], tasks'[t])
    BY <1>1, NextKeeps DEF IInv, Keeps
  <2> QED
    BY <2>1 DEF Evolves, Terminal, IsTerminal, Live
<1> QED
  BY <1>1, Invariant, PTL DEF Spec, TerminalFrozen

-----------------------------------------------------------------------------
(* The runner *)

\* No record was made for the task yet, or ever.
Early == {"idle", "stamped", "refused"}

Attended(t) == enq[t] = "created" \/ worker[t] \in {"spawned", "running", "guard"}

\* The end of a task whose record is gone.
Over(t) == final[t] # NoTask /\ clock >= final[t].updated + final[t].ttl

TaskInv(t) ==
  /\ stamp[t] <= clock
  /\ enq[t] \in Early => tasks[t] = NoTask /\ final[t] = NoTask
  /\ Working(t) => Attended(t) /\ final[t] = NoTask
  /\ Terminal(t) => final[t] = tasks[t]
  /\ enq[t] \notin Early /\ tasks[t] = NoTask => Over(t)

Requests == [pc : WaiterPcs, on : TaskIds \cup {NoTask}, answer : Answers \cup {"none"}]

\* What a request was told, against the end of its task.
True(r) ==
  LET end == final[r.on]
  IN  /\ end # NoTask
      /\ r.answer = "notFound" => clock >= end.updated + end.ttl
      /\ r.answer = "cancelled" => end.state = "Cancelled"
      /\ r.answer \in Payloads => end.result = r.answer

\* What a request has to rely on, by where it is.
Sound(r) ==
  /\ r.pc # "idle" => r.on \in TaskIds
  /\ r.pc = "waiting" => enq[r.on] \notin Early
  /\ r.pc = "woken" => final[r.on] # NoTask
  /\ r.pc = "told" => True(r)

WaiterInv(w) == Sound(waiter[w])

RInv ==
  /\ IInv
  /\ RunnerTypeOK
  /\ \A t \in TaskIds : TaskInv(t)
  /\ \A w \in Waiters : WaiterInv(w)

-----------------------------------------------------------------------------
(* What a step does *)

\* To the entry of a task.
Moves(t) ==
  /\ Evolves(tasks[t], tasks'[t])
  /\ t \in Live /\ tasks'[t] = NoTask => clock >= tasks[t].updated + tasks[t].ttl
  /\ Working(t) /\ tasks'[t].state # "Working" => tasks'[t].updated = clock
  /\ t \notin Live /\ tasks'[t] # NoTask => enq[t] = "stamped" /\ enq'[t] = "created"

\* To the request that enqueues it and to its worker.
Goes(t) ==
  \/ enq'[t] = enq[t] /\ worker'[t] = worker[t]
  \/ /\ worker'[t] = worker[t]
     /\ \/ enq[t] = "idle" /\ enq'[t] = "stamped"
        \/ enq[t] = "stamped" /\ enq'[t] = "created" /\ tasks'[t] # NoTask
        \/ enq[t] = "stamped" /\ enq'[t] = "refused"
        \/ enq[t] = "spawned" /\ enq'[t] \in {"reported", "lost"}
  \/ enq[t] = "created" /\ enq'[t] = "spawned" /\ worker'[t] = "spawned"
  \/ /\ enq'[t] = enq[t]
     /\ \/ worker[t] = "spawned" /\ worker'[t] = "running"
        \/ worker[t] = "running" /\ worker'[t] = "guard"
        \/ worker[t] = "guard" /\ worker'[t] = "done" /\ ~Working(t)'

\* The stamps stay behind the clock, and the runner's variables keep their types.
Types ==
  /\ enq' \in [TaskIds -> EnqPcs]
  /\ stamp' \in [TaskIds -> Times]
  /\ worker' \in [TaskIds -> WorkerPcs]
  /\ waiter' \in [Waiters -> Requests]
  /\ clock' \in Times /\ clock <= clock'
  /\ \A t \in TaskIds : stamp'[t] <= clock'

\* A step on the tasks, and one on the waiters.
TaskStep ==
  /\ [Next]_storeVars
  /\ UNCHANGED waiter
  /\ Types
  /\ \A t \in TaskIds : Moves(t) /\ Goes(t)

WaiterStep ==
  /\ UNCHANGED <<tasks, clock, enq, stamp, worker>>
  /\ \E w \in Waiters :
       Wake(w) \/ Collect(w) \/ Hangup(w) \/ \E t \in TaskIds : Subscribe(w, t)

\* All that a step of a task may assume.
Before == IInv /\ RunnerTypeOK /\ \A t \in TaskIds : stamp[t] <= clock

LEMMA ClockType == ASSUME Before PROVE clock \in Nat /\ clock \in Times /\ Times \subseteq Nat
  BY StoreAssumption DEF Before, IInv, StoreTypeOK, Times

\* The map stays as it is.
LEMMA MapStays ==
  ASSUME Before, UNCHANGED tasks, NEW t \in TaskIds
  PROVE  Moves(t)
  BY DEF Moves, Evolves, Live, Working, IsTerminal

\* A sweep with a reading that is not from the future evicts what is over.
LEMMA SweepMoves ==
  ASSUME Before, NEW at \in 0..clock, NEW kept \in {Live, Live \ Expired(at)},
         tasks' = Retain(kept), NEW t \in TaskIds
  PROVE  Moves(t)
<1>1. at \in Times /\ Sweeps(kept) /\ at \in Nat /\ at <= clock /\ clock \in Nat
  <2>1. at \in Times /\ at \in Nat /\ at <= clock /\ clock \in Nat
    BY ClockType, StoreAssumption DEF Times
  <2> QED
    BY <2>1 DEF Sweeps
<1>2. /\ tasks'[t] = IF t \in kept THEN tasks[t] ELSE NoTask
      /\ Evolves(tasks[t], tasks'[t])
  BY <1>1, SweepKeeps, RetainEntries DEF Before, IInv
<1>3. ASSUME t \in Live, t \notin kept
      PROVE  clock >= tasks[t].updated + tasks[t].ttl
  <2>1. tasks[t] \in Record /\ t \in Expired(at)
    BY <1>3 DEF Before, IInv, StoreTypeOK, Live
  <2>2. tasks[t].updated \in Nat /\ tasks[t].ttl \in Nat
    BY <2>1, StoreAssumption DEF Record, Times
  <2>3. at >= tasks[t].updated /\ at - tasks[t].updated >= tasks[t].ttl
    BY <2>1 DEF Expired, IsExpired
  <2> QED
    BY <1>1, <2>2, <2>3
<1>4. t \in Live <=> tasks[t] # NoTask
  BY DEF Live
<1> QED
  BY <1>2, <1>3, <1>4 DEF Moves, Working, IsTerminal, Evolves

LEMMA AdmitMoves ==
  ASSUME Before, NEW t \in TaskIds, NEW req \in Ttls \cup {Unset},
         enq[t] = "stamped", enq'[t] = "created", Admit(t, req, stamp[t]),
         NEW u \in TaskIds
  PROVE  Moves(u) /\ tasks'[t] # NoTask
<1> DEFINE kept == Remaining(stamp[t])
           r == Fresh(req, stamp[t])
<1>1. stamp[t] \in Times /\ stamp[t] \in 0..clock
  BY ClockType, StoreAssumption DEF Before, RunnerTypeOK, Times
<1>2. kept \in {Live, Live \ Expired(stamp[t])}
  BY DEF Remaining
<1>3. r \in Record /\ r.state = "Working" /\ r # NoTask
  BY <1>1, FreshRecord, StoreAssumption
<1>4. Evolves(tasks[u], tasks'[u])
  BY <1>1, AdmitKeeps DEF Before, IInv
<1>5. t \notin Live /\ tasks' = [Retain(kept) EXCEPT ![t] = r]
  BY DEF Admit
<1>6. Retain(kept) \in [TaskIds -> Entries]
  BY <1>1, RemainingSweeps, RetainEntries DEF Before, IInv
<1> HIDE DEF kept, r
<1>7. tasks'[t] = r /\ tasks'[u] = IF u = t THEN r ELSE Retain(kept)[u]
  BY <1>5, <1>6
<1>8. u \in kept \/ u \in Expired(stamp[t]) \/ u \notin Live
  BY <1>2
<1>9. u \in kept => u \in Live
  BY <1>2
<1>10. Retain(kept)[u] = IF u \in kept THEN tasks[u] ELSE NoTask
  BY DEF Retain
<1>11. ASSUME u \in Expired(stamp[t])
       PROVE  clock >= tasks[u].updated + tasks[u].ttl
  <2>1. tasks[u] \in Record
    BY <1>11 DEF Before, IInv, StoreTypeOK, Live, Expired
  <2>2. tasks[u].updated \in Nat /\ tasks[u].ttl \in Nat
    BY <2>1, StoreAssumption DEF Record, Times
  <2>3. stamp[t] >= tasks[u].updated /\ stamp[t] - tasks[u].updated >= tasks[u].ttl
    BY <1>11 DEF Expired, IsExpired
  <2>4. stamp[t] \in Nat /\ stamp[t] <= clock /\ clock \in Nat
    BY <1>1, ClockType
  <2> QED
    BY <2>2, <2>3, <2>4
<1>12. ASSUME u = t PROVE Moves(u)
  BY <1>3, <1>4, <1>5, <1>7, <1>12 DEF Moves, Working
<1>13. ASSUME u # t PROVE Moves(u)
  BY <1>4, <1>7, <1>8, <1>9, <1>10, <1>11, <1>13
     DEF Moves, Working, IsTerminal, Live, Evolves
<1> QED
  BY <1>3, <1>7, <1>12, <1>13

\* A record that is replaced: it stays one, and is dated if it settles.
LEMMA EntryMoves ==
  ASSUME Before, NEW t \in TaskIds, Working(t), NEW r \in Record,
         r.state # "Working" => r.updated = clock,
         tasks' = [tasks EXCEPT ![t] = r], NEW u \in TaskIds
  PROVE  Moves(u)
<1>1. tasks'[u] = IF u = t THEN r ELSE tasks[u]
  BY DEF Before, IInv, StoreTypeOK
<1>2. r # NoTask /\ tasks[t] # NoTask /\ tasks[t].state = "Working"
  BY StoreAssumption DEF Working, Live, IsTerminal
<1>3. u \in Live <=> tasks[u] # NoTask
  BY DEF Live
<1> QED
  BY <1>1, <1>2, <1>3 DEF Moves, Evolves, Working, IsTerminal

LEMMA SetStatusMoves ==
  ASSUME Before, NEW t \in TaskIds, SetStatus(t, "running"), NEW u \in TaskIds
  PROVE  Moves(u)
<1>1. CASE Working(t)
  <2> DEFINE r == [tasks[t] EXCEPT !.msg = "running", !.updated = clock]
  <2>1. tasks[t] \in Record /\ tasks[t].state = "Working" /\ Coherent(tasks[t])
        /\ clock \in Times
    BY <1>1 DEF Before, IInv, StoreTypeOK, RecordCoherent, Coherent, Working, Live, IsTerminal
  <2>2. tasks' = [tasks EXCEPT ![t] = r]
    BY <1>1 DEF SetStatus
  <2>3. r \in Record /\ r.state = "Working"
    BY <2>1, BeatenIsRecord
  <2> HIDE DEF r
  <2> QED
    BY <1>1, <2>2, <2>3, EntryMoves
<1>2. CASE ~Working(t)
  BY <1>2, MapStays DEF SetStatus
<1> QED
  BY <1>1, <1>2

LEMMA FinishMoves ==
  ASSUME Before, NEW t \in TaskIds, NEW payload \in Payloads, NEW failed \in BOOLEAN,
         Finish(t, payload, failed)
  PROVE  (\A u \in TaskIds : Moves(u)) /\ ~Working(t)'
<1>1. CASE Working(t)
  <2> DEFINE r == FinishedRecord(tasks[t], payload, failed)
  <2>1. tasks[t] \in Record /\ tasks[t].state = "Working" /\ Coherent(tasks[t])
        /\ clock \in Times
    BY <1>1 DEF Before, IInv, StoreTypeOK, RecordCoherent, Coherent, Working, Live, IsTerminal
  <2>2. tasks' = [tasks EXCEPT ![t] = r]
    BY <1>1 DEF Finish
  <2>3. r \in Record /\ r.state \in {"Completed", "Failed"}
    BY <2>1, FinishedIsRecord
  <2>4. r.updated = clock
    BY <2>1 DEF FinishedRecord, Record
  <2>5. tasks'[t] = r
    BY <2>2 DEF Before, IInv, StoreTypeOK
  <2> HIDE DEF r
  <2>6. \A u \in TaskIds : Moves(u)
    BY <1>1, <2>2, <2>3, <2>4, EntryMoves
  <2>7. ~Working(t)'
    BY <2>3, <2>5 DEF Working, IsTerminal
  <2> QED
    BY <2>6, <2>7
<1>2. CASE ~Working(t)
  <2>1. UNCHANGED tasks
    BY <1>2 DEF Finish
  <2> QED
    BY <1>2, <2>1, MapStays DEF Working, Live
<1> QED
  BY <1>1, <1>2

LEMMA CancelMoves ==
  ASSUME Before, NEW t \in TaskIds, Cancel(t), NEW u \in TaskIds
  PROVE  Moves(u)
<1> DEFINE r == CancelledRecord(tasks[t])
<1>1. Working(t) /\ tasks' = [tasks EXCEPT ![t] = r]
  BY DEF Cancel
<1>2. tasks[t] \in Record /\ tasks[t].state = "Working" /\ Coherent(tasks[t])
      /\ clock \in Times
  BY <1>1 DEF Before, IInv, StoreTypeOK, RecordCoherent, Coherent, Working, Live, IsTerminal
<1>3. r \in Record
  BY <1>2, CancelledIsRecord
<1>4. r.updated = clock
  BY <1>2 DEF CancelledRecord, Record
<1> HIDE DEF r
<1> QED
  BY <1>1, <1>3, <1>4, EntryMoves

-----------------------------------------------------------------------------
(* Every action on tasks *)

\* Actions that leave the map and the clock.
LEMMA QuietSteps ==
  ASSUME Before, NEW t \in TaskIds, Stamp(t) \/ Spawn(t) \/ Report(t) \/ Unwind(t)
  PROVE  TaskStep
<1>1. UNCHANGED storeVars /\ UNCHANGED waiter
  BY DEF Stamp, Spawn, Report, Unwind, storeVars
<1>2. \A u \in TaskIds : Moves(u)
  BY <1>1, MapStays DEF storeVars
<1>3. Types
  <2>1. CASE Stamp(t)
    BY <2>1, ClockType DEF Stamp, EnqGoto, Types, Requests, Before, RunnerTypeOK, EnqPcs
  <2>2. CASE Spawn(t)
    BY <2>2, ClockType DEF Spawn, EnqGoto, Types, Requests, Before, RunnerTypeOK, EnqPcs, WorkerPcs
  <2>3. CASE Report(t)
    BY <2>3, ClockType DEF Report, EnqGoto, Types, Requests, Before, RunnerTypeOK, EnqPcs
  <2>4. CASE Unwind(t)
    BY <2>4, ClockType DEF Unwind, WorkerGoto, Types, Requests, Before, RunnerTypeOK, WorkerPcs
  <2> QED
    BY <2>1, <2>2, <2>3, <2>4
<1>4. ASSUME NEW u \in TaskIds PROVE Goes(u)
  BY DEF Stamp, Spawn, Report, Unwind, EnqGoto, WorkerGoto, Goes, Before, RunnerTypeOK
<1> QED
  BY <1>1, <1>2, <1>3, <1>4 DEF TaskStep

LEMMA CreateStep ==
  ASSUME Before, NEW t \in TaskIds, Create(t)
  PROVE  TaskStep
<1>1. stamp[t] \in Times /\ stamp[t] \in 0..clock
  BY ClockType, StoreAssumption DEF Before, RunnerTypeOK, Times
<1>2. UNCHANGED <<clock, worker, waiter>> /\ stamp' = [stamp EXCEPT ![t] = 0]
  BY DEF Create, Admit, Refuse
<1>5. /\ stamp' \in [TaskIds -> Times] /\ clock \in Times
      /\ \A u \in TaskIds : stamp'[u] <= clock
  BY <1>2, ClockType, StoreAssumption DEF Before, RunnerTypeOK, Times
<1>3. CASE \E req \in Ttls \cup {Unset} :
             EnqGoto(t, "stamped", "created") /\ Admit(t, req, stamp[t])
  <2> PICK req \in Ttls \cup {Unset} :
             EnqGoto(t, "stamped", "created") /\ Admit(t, req, stamp[t])
    BY <1>3
  <2>1. enq[t] = "stamped" /\ enq' = [enq EXCEPT ![t] = "created"]
    BY DEF EnqGoto
  <2>2. enq'[t] = "created" /\ \A u \in TaskIds : u # t => enq'[u] = enq[u]
    BY <2>1 DEF Before, RunnerTypeOK
  <2>3. \A u \in TaskIds : Moves(u) /\ tasks'[t] # NoTask
    BY <2>1, <2>2, AdmitMoves
  <2>4. Next
    BY <1>1 DEF Next
  <2>5. Types
    BY <1>2, <1>5, <2>1, ClockType DEF Types, Requests, Before, RunnerTypeOK, EnqPcs
  <2>6. ASSUME NEW u \in TaskIds PROVE Goes(u)
    BY <1>2, <2>1, <2>2, <2>3 DEF Goes
  <2> QED
    BY <1>2, <2>3, <2>4, <2>5, <2>6 DEF TaskStep
<1>4. CASE EnqGoto(t, "stamped", "refused") /\ Refuse(stamp[t])
  <2>1. enq[t] = "stamped" /\ enq' = [enq EXCEPT ![t] = "refused"]
    BY <1>4 DEF EnqGoto
  <2>2. \A u \in TaskIds : Moves(u)
    BY <1>1, <1>4, SweepMoves DEF Refuse, Remaining
  <2>3. Next
    BY <1>1, <1>4 DEF Next
  <2>4. Types
    BY <1>2, <1>5, <2>1, ClockType DEF Types, Requests, Before, RunnerTypeOK, EnqPcs
  <2>5. ASSUME NEW u \in TaskIds PROVE Goes(u)
    BY <1>2, <2>1 DEF Goes, Before, RunnerTypeOK
  <2> QED
    BY <1>2, <2>2, <2>3, <2>4, <2>5 DEF TaskStep
<1> QED
  BY <1>3, <1>4 DEF Create

\* Polls of the worker that change the record.
LEMMA WorkSteps ==
  ASSUME Before, NEW t \in TaskIds,
         Start(t) \/ (\E out \in Outcomes : Conclude(t, out)) \/ DropGuard(t)
  PROVE  TaskStep
<1>1. UNCHANGED <<clock, enq, stamp, waiter>>
  BY DEF Start, Conclude, DropGuard, SetStatus, Finish
<1>2. \A from, to : WorkerGoto(t, from, to) /\ to \in WorkerPcs => Types
  BY <1>1, ClockType DEF WorkerGoto, Types, Requests, Before, RunnerTypeOK
<1>3. CASE Start(t)
  <2>1. SetStatus(t, "running") /\ WorkerGoto(t, "spawned", "running")
    BY <1>3 DEF Start
  <2>2. Next /\ Types
    BY <1>2, <2>1 DEF Next, WorkerPcs
  <2>3. ASSUME NEW u \in TaskIds PROVE Moves(u) /\ Goes(u)
    BY <1>1, <2>1, SetStatusMoves DEF Goes, WorkerGoto, Before, RunnerTypeOK
  <2> QED
    BY <1>1, <2>2, <2>3 DEF TaskStep
<1>4. ASSUME NEW out \in Outcomes, Conclude(t, out) PROVE TaskStep
  <2>1. /\ out \in Payloads /\ (out # "ok") \in BOOLEAN
        /\ Finish(t, out, out # "ok") /\ WorkerGoto(t, "running", "guard")
    BY <1>4, RunnerAssumption DEF Conclude
  <2>2. Next /\ Types
    BY <1>2, <2>1 DEF Next, WorkerPcs
  <2>3. ASSUME NEW u \in TaskIds PROVE Moves(u) /\ Goes(u)
    BY <1>1, <2>1, FinishMoves DEF Goes, WorkerGoto, Before, RunnerTypeOK
  <2> QED
    BY <1>1, <2>2, <2>3 DEF TaskStep
<1>5. CASE DropGuard(t)
  <2>1. /\ "unfinished" \in Payloads
        /\ Finish(t, "unfinished", TRUE) /\ WorkerGoto(t, "guard", "done")
    BY <1>5, RunnerAssumption DEF DropGuard
  <2>2. Next /\ Types
    BY <1>2, <2>1 DEF Next, WorkerPcs
  <2>3. (\A u \in TaskIds : Moves(u)) /\ ~Working(t)'
    BY <2>1, FinishMoves
  <2>4. ASSUME NEW u \in TaskIds PROVE Goes(u)
    BY <1>1, <2>1, <2>3 DEF Goes, WorkerGoto, Before, RunnerTypeOK
  <2> QED
    BY <1>1, <2>2, <2>3, <2>4 DEF TaskStep
<1> QED
  BY <1>3, <1>4, <1>5

LEMMA OtherSteps ==
  ASSUME Before, (\E t \in TaskIds : CancelTask(t)) \/ GcLoop \/ TimePasses
  PROVE  TaskStep
<1>1. UNCHANGED <<enq, stamp, worker, waiter>>
  BY DEF CancelTask, GcLoop, TimePasses
<1>2. \A u \in TaskIds : Goes(u)
  BY <1>1 DEF Goes
<1>3. clock' \in Times /\ clock <= clock' => Types
  BY <1>1, ClockType, StoreAssumption DEF Types, Requests, Before, RunnerTypeOK, Times
<1>4. ASSUME NEW t \in TaskIds, CancelTask(t) PROVE TaskStep
  <2>1. Cancel(t) /\ UNCHANGED clock
    BY <1>4 DEF CancelTask, Cancel
  <2>2. Next /\ Types
    BY <1>3, <2>1, ClockType DEF Next
  <2> QED
    BY <1>1, <1>2, <2>1, <2>2, CancelMoves DEF TaskStep
<1>5. CASE GcLoop
  <2> PICK at \in 0..clock : Gc(at)
    BY <1>5 DEF GcLoop
  <2>1. at \in Times /\ UNCHANGED clock
    BY ClockType, StoreAssumption DEF Gc, Times
  <2>2. Next /\ Types
    BY <1>3, <2>1, ClockType DEF Next
  <2> QED
    BY <1>1, <1>2, <2>2, SweepMoves DEF TaskStep, Gc
<1>6. CASE TimePasses
  <2>1. Tick
    BY <1>6 DEF TimePasses
  <2>2. clock' \in Times /\ clock <= clock' /\ Next
    BY <2>1, ClockType, StoreAssumption DEF Next, Tick, Times
  <2> QED
    BY <1>1, <1>2, <1>3, <2>1, <2>2, MapStays DEF TaskStep, Tick
<1> QED
  BY <1>4, <1>5, <1>6

LEMMA StepKinds == ASSUME Before, RunnerStep PROVE TaskStep \/ WaiterStep
<1>1. CASE \E w \in Waiters :
             Wake(w) \/ Collect(w) \/ Hangup(w) \/ \E t \in TaskIds : Subscribe(w, t)
  BY <1>1 DEF WaiterStep, Wake, Collect, Hangup, Subscribe
<1> QED
  BY <1>1, QuietSteps, CreateStep, WorkSteps, OtherSteps DEF RunnerStep, Work

-----------------------------------------------------------------------------
(* The invariant of the tasks *)

LEMMA Entry ==
  ASSUME StoreTypeOK, NEW t \in TaskIds
  PROVE  /\ tasks[t] \in Record \cup {NoTask}
         /\ t \in Live <=> tasks[t] # NoTask
         /\ Working(t) <=> tasks[t] # NoTask /\ tasks[t].state = "Working"
         /\ Terminal(t) <=> tasks[t] # NoTask /\ tasks[t].state # "Working"
  BY DEF StoreTypeOK, Live, Working, Terminal, IsTerminal

LEMMA EntryAfter ==
  ASSUME StoreTypeOK', NEW t \in TaskIds
  PROVE  /\ tasks'[t] \in Record \cup {NoTask}
         /\ Working(t)' <=> tasks'[t] # NoTask /\ tasks'[t].state = "Working"
         /\ Terminal(t)' <=> tasks'[t] # NoTask /\ tasks'[t].state # "Working"
  BY DEF StoreTypeOK, Live, Working, Terminal, IsTerminal

\* The history variable keeps the record itself: it is dated by the step.
LEMMA Remembered ==
  ASSUME StoreTypeOK, StoreTypeOK', NEW t \in TaskIds, Moves(t), Remember
  PROVE  final'[t] = IF Working(t) /\ Terminal(t)' THEN tasks'[t] ELSE final[t]
<1>1. ASSUME Working(t), Terminal(t)'
      PROVE  [tasks'[t] EXCEPT !.updated = clock] = tasks'[t]
  <2>1. tasks'[t] \in Record /\ tasks'[t].updated = clock
    BY <1>1, Entry, EntryAfter DEF Moves
  <2> QED
    BY <2>1 DEF Record
<1> QED
  BY <1>1 DEF Remember

\* What is over stays over.
LEMMA Dates ==
  ASSUME RInv, Types, NEW t \in TaskIds, final[t] # NoTask,
         clock >= final[t].updated + final[t].ttl
  PROVE  clock' >= final[t].updated + final[t].ttl
<1>1. final[t] \in Record
  BY DEF RInv, RunnerTypeOK
<1>2. final[t].updated \in Nat /\ final[t].ttl \in Nat
  BY <1>1, StoreAssumption DEF Record, Times
<1>3. clock \in Nat /\ clock' \in Nat /\ clock <= clock'
  BY StoreAssumption DEF RInv, IInv, StoreTypeOK, Types, Times
<1> QED
  BY <1>2, <1>3

LEMMA TaskInvStep ==
  ASSUME RInv, StoreTypeOK', TaskStep, Remember, NEW t \in TaskIds
  PROVE  /\ TaskInv(t)'
         /\ final[t] # NoTask => final'[t] = final[t]
         /\ enq[t] \notin Early => enq'[t] \notin Early
<1> DEFINE old == tasks[t]
           new == tasks'[t]
<1>1. StoreTypeOK /\ TaskInv(t) /\ Moves(t) /\ Goes(t) /\ clock <= clock' /\ stamp'[t] <= clock'
  BY DEF RInv, IInv, TaskStep, Types
<1>2. /\ old \in Record \cup {NoTask} /\ new \in Record \cup {NoTask}
      /\ t \in Live <=> old # NoTask
      /\ Working(t) <=> old # NoTask /\ old.state = "Working"
      /\ Terminal(t) <=> old # NoTask /\ old.state # "Working"
      /\ Working(t)' <=> new # NoTask /\ new.state = "Working"
      /\ Terminal(t)' <=> new # NoTask /\ new.state # "Working"
  BY <1>1, Entry, EntryAfter
<1>3. final'[t] = IF Working(t) /\ Terminal(t)' THEN new ELSE final[t]
  BY <1>1, Remembered
<1>4. /\ Evolves(old, new)
      /\ t \in Live /\ new = NoTask => clock >= old.updated + old.ttl
      /\ t \notin Live /\ new # NoTask => enq[t] = "stamped" /\ enq'[t] = "created"
  BY <1>1 DEF Moves
<1>5. /\ enq[t] \in Early => old = NoTask /\ final[t] = NoTask
      /\ Working(t) => Attended(t) /\ final[t] = NoTask
      /\ Terminal(t) => final[t] = old
      /\ enq[t] \notin Early /\ old = NoTask => Over(t)
  BY <1>1 DEF TaskInv
<1> HIDE DEF old, new
<1>6. enq'[t] \in Early => enq[t] \in Early
  BY <1>1 DEF Goes, Early
<1>7. final[t] # NoTask => final'[t] = final[t]
  BY <1>3, <1>5
<1>8. enq'[t] \in Early => new = NoTask /\ final'[t] = NoTask
  BY <1>2, <1>3, <1>4, <1>5, <1>6 DEF Early
<1>9. Working(t)' => Attended(t)' /\ final'[t] = NoTask
  <2> SUFFICES ASSUME Working(t)' PROVE Attended(t)' /\ final'[t] = NoTask
    OBVIOUS
  <2>1. CASE old = NoTask
    <3>1. enq[t] = "stamped" /\ enq'[t] = "created"
      BY <1>2, <1>4, <2>1
    <3> QED
      BY <1>2, <1>3, <1>5, <2>1, <3>1 DEF Attended, Early
  <2>2. CASE old # NoTask
    <3>1. Working(t)
      BY <1>2, <1>4, <2>2 DEF Evolves
    <3>2. Attended(t)'
      BY <1>1, <1>5, <3>1 DEF Attended, Goes
    <3> QED
      BY <1>2, <1>3, <1>5, <3>1, <3>2
  <2> QED
    BY <2>1, <2>2
<1>10. Terminal(t)' => final'[t] = new
  BY <1>2, <1>3, <1>4, <1>5 DEF Evolves
<1>11. ASSUME enq'[t] \notin Early, new = NoTask PROVE Over(t)'
  <2>1. final'[t] = final[t]
    BY <1>2, <1>3, <1>11
  <2>2. CASE old = NoTask
    <3>1. enq[t] \notin Early
      BY <1>1, <1>11 DEF Goes, Early, new
    <3>2. final[t] # NoTask /\ clock >= final[t].updated + final[t].ttl
      BY <1>5, <2>2, <3>1 DEF Over
    <3> QED
      BY <2>1, <3>2, Dates DEF Over, TaskStep
  <2>3. CASE old # NoTask
    <3>1. final[t] = old /\ clock >= old.updated + old.ttl
      BY <1>2, <1>4, <1>5, <1>11, <2>3 DEF Evolves
    <3> QED
      BY <2>1, <2>3, <3>1, Dates DEF Over, TaskStep
  <2> QED
    BY <2>2, <2>3
<1> QED
  BY <1>1, <1>6, <1>7, <1>8, <1>9, <1>10, <1>11 DEF TaskInv, new

-----------------------------------------------------------------------------
(* The invariant of the waiters *)

\* A step of the tasks leaves what a waiter knows true.
LEMMA WaiterInvTaskStep ==
  ASSUME RInv, StoreTypeOK', TaskStep, Remember, NEW w \in Waiters
  PROVE  WaiterInv(w)'
<1> DEFINE t == waiter[w].on
<1>1. WaiterInv(w) /\ waiter' = waiter /\ Types
  BY DEF RInv, TaskStep
<1>2. ASSUME t \in TaskIds
      PROVE  /\ final[t] # NoTask => final'[t] = final[t]
             /\ enq[t] \notin Early => enq'[t] \notin Early
  BY <1>2, TaskInvStep
<1>3. ASSUME True(waiter[w]), t \in TaskIds PROVE True(waiter[w])'
  <2>1. final[t] # NoTask /\ final'[t] = final[t]
    BY <1>2, <1>3 DEF True
  <2>2. clock >= final[t].updated + final[t].ttl => clock' >= final[t].updated + final[t].ttl
    BY <1>1, <1>3, <2>1, Dates
  <2> QED
    BY <1>1, <1>3, <2>1, <2>2 DEF True
<1> QED
  BY <1>1, <1>2, <1>3 DEF WaiterInv, Sound

\* What a request finds out about its task is true.
LEMMA AnswerIsTrue ==
  ASSUME RInv, NEW t \in TaskIds, final[t] # NoTask
  PROVE  /\ Answer(t) \in Answers
         /\ Answer(t) = "notFound" => clock >= final[t].updated + final[t].ttl
         /\ Answer(t) = "cancelled" => final[t].state = "Cancelled"
         /\ Answer(t) \in Payloads => final[t].result = Answer(t)
<1>1. StoreTypeOK /\ RecordCoherent /\ TaskInv(t)
  BY DEF RInv, IInv
<1>2. CASE t \notin Live
  <2>1. tasks[t] = NoTask /\ Answer(t) = "notFound"
    BY <1>2 DEF Live, Answer
  <2>2. Over(t)
    BY <1>1, <2>1 DEF TaskInv
  <2> QED
    BY <2>1, <2>2, RunnerAssumption DEF Over, Answers
<1>3. CASE t \in Live
  <2>1. Terminal(t) /\ final[t] = tasks[t] /\ tasks[t].state # "Working"
    BY <1>1, <1>3, Entry DEF TaskInv
  <2>2. /\ tasks[t] \in Record
        /\ tasks[t].result # NoResult <=> tasks[t].state \in {"Completed", "Failed"}
    BY <1>1, <1>3, Entry DEF RecordCoherent
  <2>3. /\ tasks[t].state \in {"Completed", "Failed", "Cancelled"}
        /\ tasks[t].result \in Payloads \cup {NoResult}
    BY <2>1, <2>2 DEF Record, TaskStates
  <2>4. Answer(t) = IF tasks[t].result = NoResult THEN "cancelled" ELSE tasks[t].result
    BY <1>3 DEF Answer
  <2> QED
    BY <2>1, <2>2, <2>3, <2>4, RunnerAssumption DEF Answers
<1> QED
  BY <1>2, <1>3

LEMMA WaiterStepKeeps ==
  ASSUME RInv, WaiterStep, Remember
  PROVE  RInv' /\ UNCHANGED final
<1>1. UNCHANGED <<tasks, clock, enq, stamp, worker>> /\ IInv /\ StoreTypeOK /\ RunnerTypeOK
  BY DEF WaiterStep, RInv, IInv
<1>2. UNCHANGED final
  <2>1. \A t \in TaskIds : ~(Working(t) /\ Terminal(t)')
    BY <1>1 DEF Working, Terminal, Live, IsTerminal
  <2> QED
    BY <1>1, <2>1 DEF Remember, RunnerTypeOK
<1>3. IInv'
  BY <1>1, NextIInv DEF storeVars
<1>4. \A t \in TaskIds : TaskInv(t)'
  BY <1>1, <1>2 DEF RInv, TaskInv, Early, Working, Terminal, Live, IsTerminal, Attended, Over
<1>5. PICK w \in Waiters :
        Wake(w) \/ Collect(w) \/ Hangup(w) \/ \E t \in TaskIds : Subscribe(w, t)
  BY DEF WaiterStep
<1>6. waiter \in [Waiters -> Requests] /\ waiter[w] \in Requests
  BY <1>1 DEF RunnerTypeOK, Requests
<1> DEFINE t == waiter[w].on
<1>7. Sound(waiter[w])
  BY DEF RInv, WaiterInv
<1>8. \E r \in Requests : waiter' = [waiter EXCEPT ![w] = r] /\ Sound(r)
  <2>1. CASE Wake(w)
    <3> DEFINE r == [waiter[w] EXCEPT !.pc = "woken"]
    <3>1. waiter[w].pc = "waiting" /\ t \in TaskIds /\ enq[t] \notin Early
      BY <1>7, <2>1 DEF Wake, Sound
    <3>2. final[t] # NoTask
      <4>1. CASE t \in Live
        <5>1. IsTerminal(tasks[t].chan) /\ tasks[t].chan = tasks[t].state
          BY <1>1, <2>1, <4>1 DEF Wake, IInv, RecordCoherent
        <5>2. Terminal(t)
          BY <4>1, <5>1 DEF Terminal
        <5> QED
          BY <3>1, <4>1, <5>2 DEF RInv, TaskInv, Live
      <4>2. CASE t \notin Live
        BY <3>1, <4>2 DEF RInv, TaskInv, Live, Over
      <4> QED
        BY <4>1, <4>2
    <3>3. r \in Requests /\ r.pc = "woken" /\ r.on = t
      BY <1>6 DEF Requests, WaiterPcs
    <3>4. waiter' = [waiter EXCEPT ![w] = r]
      BY <2>1 DEF Wake
    <3> HIDE DEF r
    <3> QED
      BY <3>1, <3>2, <3>3, <3>4 DEF Sound
  <2>2. CASE Collect(w)
    <3> DEFINE a == Answer(t)
               r == [waiter[w] EXCEPT !.pc = "told", !.answer = a]
    <3>1. waiter[w].pc = "woken" /\ t \in TaskIds /\ final[t] # NoTask
      BY <1>7, <2>2 DEF Collect, Sound
    <3>2. /\ a \in Answers
          /\ a = "notFound" => clock >= final[t].updated + final[t].ttl
          /\ a = "cancelled" => final[t].state = "Cancelled"
          /\ a \in Payloads => final[t].result = a
      BY <3>1, AnswerIsTrue
    <3>3. waiter' = [waiter EXCEPT ![w] = r]
      BY <2>2 DEF Collect
    <3> HIDE DEF a
    <3>4. r \in Requests /\ r.pc = "told" /\ r.on = t /\ r.answer = a
      BY <1>6, <3>2 DEF Requests, WaiterPcs
    <3> HIDE DEF r
    <3> QED
      BY <3>1, <3>2, <3>3, <3>4 DEF Sound, True
  <2>3. CASE Hangup(w)
    <3>1. waiter' = [waiter EXCEPT ![w] = Idle]
      BY <2>3 DEF Hangup
    <3>2. Idle \in Requests /\ Sound(Idle)
      BY DEF Idle, Requests, WaiterPcs, Sound
    <3> QED
      BY <3>1, <3>2
  <2>4. ASSUME NEW u \in TaskIds, Subscribe(w, u)
        PROVE  \E r \in Requests : waiter' = [waiter EXCEPT ![w] = r] /\ Sound(r)
    <3> DEFINE r == [pc |-> "waiting", on |-> u, answer |-> "none"]
    <3>1. enq[u] \notin Early
      BY <2>4 DEF Subscribe, RInv, TaskInv, Live
    <3>2. r \in Requests /\ r.pc = "waiting" /\ r.on = u
      BY DEF Requests, WaiterPcs
    <3>3. waiter' = [waiter EXCEPT ![w] = r]
      BY <2>4 DEF Subscribe
    <3> HIDE DEF r
    <3> QED
      BY <3>1, <3>2, <3>3 DEF Sound
  <2> QED
    BY <1>5, <2>1, <2>2, <2>3, <2>4
<1>9. waiter' \in [Waiters -> Requests] /\ \A v \in Waiters : WaiterInv(v)'
  <2> PICK r \in Requests : waiter' = [waiter EXCEPT ![w] = r] /\ Sound(r)
    BY <1>8
  <2>1. /\ waiter' \in [Waiters -> Requests]
        /\ \A v \in Waiters : waiter'[v] = IF v = w THEN r ELSE waiter[v]
    BY <1>6
  <2>2. ASSUME NEW v \in Waiters PROVE Sound(waiter'[v])
    BY <2>1 DEF RInv, WaiterInv
  <2>3. \A v \in Waiters : WaiterInv(v)'
    BY <1>1, <1>2, <2>2 DEF WaiterInv, Sound, True
  <2> QED
    BY <2>1, <2>3
<1> QED
  BY <1>1, <1>2, <1>3, <1>4, <1>9 DEF RInv, RunnerTypeOK, Requests

-----------------------------------------------------------------------------
(* Every step, and the theorems *)

LEMMA TaskStepKeeps ==
  ASSUME RInv, TaskStep, Remember
  PROVE  RInv'
<1>1. IInv'
  BY NextIInv DEF RInv, TaskStep
<1>2. StoreTypeOK /\ StoreTypeOK'
  BY <1>1 DEF RInv, IInv
<1>3. \A t \in TaskIds : TaskInv(t)'
  BY <1>2, TaskInvStep
<1>4. \A w \in Waiters : WaiterInv(w)'
  BY <1>2, WaiterInvTaskStep
<1>5. final' \in [TaskIds -> Record \cup {NoTask}]
  <2>1. ASSUME NEW t \in TaskIds PROVE final'[t] \in Record \cup {NoTask}
    <3>1. Moves(t) /\ final[t] \in Record \cup {NoTask}
      BY DEF TaskStep, RInv, RunnerTypeOK
    <3> QED
      BY <1>2, <3>1, Remembered, EntryAfter
  <2>2. final' = [t \in TaskIds |-> final'[t]]
    BY DEF Remember
  <2> QED
    BY <2>1, <2>2
<1>6. RunnerTypeOK'
  BY <1>5 DEF TaskStep, Types, RunnerTypeOK, Requests
<1> QED
  BY <1>1, <1>3, <1>4, <1>6 DEF RInv

\* One step keeps the invariant and is a step of TaskStore.
LEMMA RunnerNextKeeps ==
  ASSUME RInv, [RunnerNext]_runVars
  PROVE  RInv' /\ [Next]_storeVars
<1>1. CASE UNCHANGED runVars
  BY <1>1 DEF runVars, storeVars, RInv, IInv, StoreTypeOK, RecordCoherent, Bounded, Live,
     RunnerTypeOK, TaskInv, Working, Terminal, IsTerminal, Attended, Over, WaiterInv,
     Sound, True
<1>2. CASE RunnerNext
  <2>1. Before /\ RunnerStep /\ Remember
    BY <1>2 DEF RunnerNext, RInv, Before, TaskInv
  <2>2. CASE TaskStep
    BY <2>1, <2>2, TaskStepKeeps DEF TaskStep
  <2>3. CASE WaiterStep
    BY <2>1, <2>3, WaiterStepKeeps DEF WaiterStep, storeVars
  <2> QED
    BY <2>1, <2>2, <2>3, StepKinds
<1> QED
  BY <1>1, <1>2

LEMMA RunnerInitInv == RunnerInit => RInv
<1> SUFFICES ASSUME RunnerInit PROVE RInv
  OBVIOUS
<1>1. IInv
  BY InitIInv DEF RunnerInit
<1>2. RunnerTypeOK
  BY StoreAssumption
     DEF RunnerInit, RunnerTypeOK, Times, EnqPcs, WorkerPcs, WaiterPcs, Idle
<1>3. ASSUME NEW t \in TaskIds PROVE TaskInv(t)
  BY DEF RunnerInit, Init, TaskInv, Early, Working, Terminal, Live
<1>4. ASSUME NEW w \in Waiters PROVE WaiterInv(w)
  BY DEF RunnerInit, Idle, WaiterInv, Sound
<1> QED
  BY <1>1, <1>2, <1>3, <1>4 DEF RInv

\* The runner's invariant: the registry's own, and for every task and every
\* request what tasks.rs relies on.
THEOREM RunnerInvariant == RunnerSpec => []RInv
<1>1. RInv /\ [RunnerNext]_runVars => RInv'
  BY RunnerNextKeeps
<1> QED
  BY <1>1, RunnerInitInv, PTL DEF RunnerSpec

\* tasks.rs and the loop of main.rs call the registry as TaskStore lets any
\* client call it, with times that may be old: all that is proved of the
\* registry holds of the runner.
THEOREM RunnerImplementsStore == RunnerSpec => Spec
<1>1. RunnerInit => Init
  BY DEF RunnerInit
<1>2. RInv /\ [RunnerNext]_runVars => [Next]_storeVars
  BY RunnerNextKeeps
<1> QED
  BY <1>1, <1>2, RunnerInvariant, PTL DEF RunnerSpec, Spec

\* The runner's variables have their types; an answer is never an absent result.
THEOREM RunnerTypeCorrect == RunnerSpec => []RunnerTypeOK
<1>1. RInv => RunnerTypeOK
  BY DEF RInv
<1> QED
  BY <1>1, RunnerInvariant, PTL

\* A task that shows Working is enqueued still or has a worker whose guard will
\* settle it, also when the tool panics.
THEOREM WorkingIsAttended == RunnerSpec => []WorkingHasWorker
<1>1. RInv => WorkingHasWorker
  BY DEF RInv, TaskInv, Attended, WorkingHasWorker
<1> QED
  BY <1>1, RunnerInvariant, PTL

\* A tasks/result request is told the outcome its task settled on, however late
\* it subscribes, wakes up and collects.
THEOREM AnswersAreTrue == RunnerSpec => []AnswersAreFinal
<1>1. RInv => AnswersAreFinal
  BY DEF RInv, WaiterInv, Sound, True, AnswersAreFinal
<1> QED
  BY <1>1, RunnerInvariant, PTL

\* A record is evicted only after the retention window of a task that settled.
THEOREM RetentionIsKept == RunnerSpec => RetentionKept
<1> DEFINE Kept == \A t \in TaskIds : t \in Live /\ tasks'[t] = NoTask =>
                     final[t] # NoTask /\ clock >= final[t].updated + final[t].ttl
<1>1. RInv /\ [RunnerNext]_runVars => [Kept]_runVars
  <2> SUFFICES ASSUME RInv, RunnerNext, NEW t \in TaskIds, t \in Live, tasks'[t] = NoTask
               PROVE  final[t] # NoTask /\ clock >= final[t].updated + final[t].ttl
    OBVIOUS
  <2>1. Before /\ RunnerStep /\ StoreTypeOK /\ TaskInv(t)
    BY DEF RunnerNext, RInv, IInv, Before, TaskInv
  <2>2. tasks[t] # NoTask
    BY DEF Live
  <2>3. Moves(t)
    BY <2>1, <2>2, StepKinds DEF TaskStep, WaiterStep
  <2>4. Terminal(t) /\ clock >= tasks[t].updated + tasks[t].ttl
    BY <2>1, <2>2, <2>3, Entry DEF Moves, Evolves
  <2> QED
    BY <2>1, <2>2, <2>4 DEF TaskInv
<1> QED
  BY <1>1, RunnerInvariant, PTL DEF RunnerSpec, RetentionKept, Kept

\* create refuses a task only while the map is full of tasks that run or are
\* retained at the time it read.
THEOREM RefusalNeedsFullMap == RunnerSpec => RefusedOnlyWhenFull
<1> DEFINE Full == \A t \in TaskIds : enq[t] = "stamped" /\ enq'[t] = "refused" =>
                     Cardinality(Live \ Expired(stamp[t])) >= Capacity
<1>1. RInv /\ [RunnerNext]_runVars => [Full]_runVars
  <2> SUFFICES ASSUME RInv, RunnerStep, NEW t \in TaskIds,
                      enq[t] = "stamped", enq'[t] = "refused"
               PROVE  Cardinality(Live \ Expired(stamp[t])) >= Capacity
    BY DEF RunnerNext
  <2>1. enq \in [TaskIds -> EnqPcs]
    BY DEF RInv, RunnerTypeOK
  <2>2. Refuse(stamp[t])
    BY <2>1 DEF RunnerStep, Stamp, Create, Spawn, Report, Work, Start, Conclude, Unwind,
       DropGuard, CancelTask, Wake, Collect, Hangup, Subscribe, GcLoop, TimePasses, EnqGoto
  <2>3. /\ Cardinality(Live) \in Nat /\ Capacity \in Nat
        /\ Cardinality(Remaining(stamp[t])) >= Capacity
    BY <2>2, Finite, CapacityType DEF Refuse
  <2>4. CASE Cardinality(Live) >= Capacity
    BY <2>3, <2>4 DEF Remaining
  <2>5. CASE ~(Cardinality(Live) >= Capacity)
    BY <2>3, <2>5 DEF Remaining
  <2> QED
    BY <2>4, <2>5
<1> QED
  BY <1>1, RunnerInvariant, PTL DEF RunnerSpec, RefusedOnlyWhenFull, Full
=============================================================================
