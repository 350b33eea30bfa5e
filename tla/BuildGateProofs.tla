--------------------------- MODULE BuildGateProofs ---------------------------
(***************************************************************************)
(* Proofs about BuildGate, for any finite set of calls and any             *)
(* configuration: the atomic counter is exact, permits are conserved, the  *)
(* queue never outgrows max_queued, and no permit idles beside a parked    *)
(* call.  The invariants are inductive together with QueueExact, which     *)
(* ties the semaphore's line to the calls that are parked.                 *)
(***************************************************************************)
EXTENDS BuildGate, FiniteSetTheorems, SequenceTheorems, TLAPS

\* How many calls are at one of the places `pcs` when f says where each is.
Num(f, pcs) == Cardinality({c \in Calls : f[c] \in pcs})

\* From f to g only the call c moved, from u to v.
Moves(f, g, c, u, v) ==
  f[c] = u /\ \A d \in Calls : g[d] = IF d = c THEN v ELSE f[d]

\* What one call at the place u adds to the number of calls at `pcs`.
Share(u, pcs) == IF u \in pcs THEN 1 ELSE 0

\* The line holds each parked call once, and nobody else.
QueueExact ==
  /\ \A i \in 1..Len(waiters) : pc[waiters[i]] = "parked"
  /\ \A i, j \in 1..Len(waiters) : waiters[i] = waiters[j] => i = j
  /\ \A c \in Calls : pc[c] = "parked" => \E i \in 1..Len(waiters) : waiters[i] = c

IInv ==
  /\ TypeOK
  /\ QueueExact
  /\ CounterExact
  /\ PermitsConserved
  /\ QueueBounded
  /\ NoIdlePermit

-----------------------------------------------------------------------------
(* Counting calls by their place *)

\* A set of calls has a natural number of elements.
LEMMA NumType ==
  ASSUME NEW f, NEW pcs
  PROVE  IsFiniteSet({c \in Calls : f[c] \in pcs}) /\ Num(f, pcs) \in Nat
  BY GateAssumption, FS_Subset, FS_CardinalityType DEF Num

\* Moving one call changes a count by the call's own contribution.
LEMMA NumMove ==
  ASSUME NEW f, NEW g, NEW c \in Calls, NEW u, NEW v, Moves(f, g, c, u, v), NEW pcs
  PROVE  Num(g, pcs) = Num(f, pcs) + Share(v, pcs) - Share(u, pcs)
<1> DEFINE A == {d \in Calls : f[d] \in pcs}
           B == {d \in Calls : g[d] \in pcs}
<1>1. /\ IsFiniteSet(A) /\ Num(f, pcs) = Cardinality(A)
      /\ Num(g, pcs) = Cardinality(B)
      /\ Cardinality(A) \in Nat
  BY NumType DEF Num
<1>2. /\ f[c] = u /\ (c \in A <=> u \in pcs)
      /\ \A d \in Calls : g[d] = IF d = c THEN v ELSE f[d]
  BY DEF Moves
<1>3. CASE v \in pcs
  <2>1. B = A \cup {c}
    BY <1>2, <1>3
  <2> HIDE DEF A, B
  <2>2. Cardinality(B) = IF c \in A THEN Cardinality(A) ELSE Cardinality(A) + 1
    BY <1>1, <2>1, FS_AddElement
  <2> QED
    BY <1>1, <1>2, <1>3, <2>2 DEF Share
<1>4. CASE v \notin pcs
  <2>1. B = A \ {c}
    BY <1>2, <1>4
  <2> HIDE DEF A, B
  <2>2. Cardinality(B) = IF c \in A THEN Cardinality(A) - 1 ELSE Cardinality(A)
    BY <1>1, <2>1, FS_RemoveElement
  <2> QED
    BY <1>1, <1>2, <1>4, <2>2 DEF Share
<1> QED
  BY <1>3, <1>4

\* Fewer places, fewer calls.
LEMMA NumMonotonic ==
  ASSUME NEW f, NEW pcs, NEW more, pcs \subseteq more
  PROVE  Num(f, pcs) <= Num(f, more)
<1>1. IsFiniteSet({c \in Calls : f[c] \in more})
  BY NumType
<1>2. {c \in Calls : f[c] \in pcs} \subseteq {c \in Calls : f[c] \in more}
  OBVIOUS
<1> QED
  BY <1>1, <1>2, FS_Subset DEF Num

-----------------------------------------------------------------------------
(* What the steps of the gate have in common *)

Queued == CountedPcs \ {"over"}

\* The counting invariants of a state that places calls by f, with the counter
\* at q and a permits in the semaphore.
Balanced(f, q, a) ==
  /\ q = Num(f, CountedPcs)
  /\ a + Num(f, PermitPcs) = Permits
  /\ Num(f, Queued) <= MaxQueued

LEMMA Counting ==
  /\ CounterExact /\ PermitsConserved /\ QueueBounded <=> Balanced(pc, queued, avail)
  /\ (CounterExact /\ PermitsConserved /\ QueueBounded)' <=> Balanced(pc', queued', avail')
  BY DEF CounterExact, PermitsConserved, QueueBounded, Balanced, Num, In, Queued, Permits

\* One call moves and the books stay balanced: the counter and the semaphore
\* take its share, and a call enters the queue only below the bound.
LEMMA Books ==
  ASSUME NEW f, NEW g, NEW c \in Calls, NEW u, NEW v, Moves(f, g, c, u, v),
         NEW q \in Nat, NEW a \in Nat, Balanced(f, q, a),
         NEW q2, q2 = q + Share(v, CountedPcs) - Share(u, CountedPcs),
         NEW a2, a2 = a - Share(v, PermitPcs) + Share(u, PermitPcs),
         Share(v, Queued) = 0 \/ Share(u, Queued) = 1 \/ q < MaxQueued
  PROVE  Balanced(g, q2, a2)
<1>1. /\ Num(f, CountedPcs) \in Nat /\ Num(f, PermitPcs) \in Nat /\ Num(f, Queued) \in Nat
      /\ MaxQueued \in Nat /\ Permits \in Nat
  BY NumType, GateAssumption DEF Permits
<1>2. \A w, pcs : Share(w, pcs) \in {0, 1}
  BY DEF Share
<1>3. Num(g, CountedPcs) = Num(f, CountedPcs) + Share(v, CountedPcs) - Share(u, CountedPcs)
  BY NumMove
<1>4. Num(g, PermitPcs) = Num(f, PermitPcs) + Share(v, PermitPcs) - Share(u, PermitPcs)
  BY NumMove
<1>5. Num(g, Queued) = Num(f, Queued) + Share(v, Queued) - Share(u, Queued)
  BY NumMove
<1>6. Num(f, Queued) <= Num(f, CountedPcs)
  BY NumMonotonic DEF Queued
<1>7. q2 = Num(g, CountedPcs)
  BY <1>1, <1>2, <1>3 DEF Balanced
<1>8. a2 + Num(g, PermitPcs) = Permits
  BY <1>1, <1>2, <1>4 DEF Balanced
<1>9. Num(g, Queued) <= MaxQueued
  BY <1>1, <1>2, <1>5, <1>6 DEF Balanced
<1> QED
  BY <1>7, <1>8, <1>9 DEF Balanced

\* A call that moves between places other than "parked" leaves the line exact.
LEMMA KeepsQueue ==
  ASSUME TypeOK, QueueExact,
         NEW c \in Calls, NEW v \in PcTypes, pc[c] # "parked", v # "parked",
         pc' = [pc EXCEPT ![c] = v], waiters' = waiters
  PROVE  QueueExact'
<1>1. \A i \in 1..Len(waiters) : waiters[i] \in Calls /\ waiters[i] # c
  BY ElementOfSeq DEF TypeOK, QueueExact
<1>2. \A d \in Calls : pc'[d] = IF d = c THEN v ELSE pc[d]
  BY DEF TypeOK
<1> QED
  BY <1>1, <1>2 DEF QueueExact

\* The head of a line that is not empty is a parked call, and the line
\* without it is exact once that call is granted its permit.
LEMMA ServeHead ==
  ASSUME TypeOK, QueueExact, waiters # <<>>,
         NEW c \in Calls, NEW v \in PcTypes, pc[c] # "parked", v # "parked",
         pc' = [pc EXCEPT ![c] = v, ![Head(waiters)] = "granted"],
         waiters' = Tail(waiters)
  PROVE  /\ Head(waiters) \in Calls
         /\ Head(waiters) # c
         /\ pc[Head(waiters)] = "parked"
         /\ waiters' \in Seq(Calls)
         /\ QueueExact'
<1> DEFINE h == Head(waiters)
<1>1. /\ waiters \in Seq(Calls)
      /\ Len(waiters) \in Nat
      /\ Len(waiters) >= 1
  BY LenProperties, EmptySeq DEF TypeOK
<1>2. /\ h \in Calls
      /\ h = waiters[1]
      /\ Tail(waiters) \in Seq(Calls)
      /\ Len(Tail(waiters)) = Len(waiters) - 1
      /\ \A i \in 1..(Len(waiters) - 1) : Tail(waiters)[i] = waiters[i + 1]
  BY <1>1, HeadTailProperties
<1>3. /\ pc[h] = "parked"
      /\ h # c
  BY <1>1, <1>2 DEF QueueExact
<1>4. \A d \in Calls : pc'[d] = IF d = h THEN "granted" ELSE IF d = c THEN v ELSE pc[d]
  BY <1>2, <1>3 DEF TypeOK
<1>5. \A i \in 1..Len(waiters) : waiters[i] \in Calls /\ pc[waiters[i]] = "parked"
  BY <1>1, ElementOfSeq DEF QueueExact
<1>6. \A i \in 1..Len(waiters') :
        /\ i + 1 \in 1..Len(waiters)
        /\ waiters'[i] = waiters[i + 1]
  BY <1>1, <1>2
<1>7. \A i \in 1..Len(waiters) : i # 1 => waiters[i] # h
  BY <1>1, <1>2 DEF QueueExact
<1> HIDE DEF h
<1>8. \A i \in 1..Len(waiters') : pc'[waiters'[i]] = "parked"
  <2> TAKE i \in 1..Len(waiters')
  <2>1. /\ i + 1 \in 1..Len(waiters)
        /\ i + 1 # 1
        /\ waiters'[i] = waiters[i + 1]
    BY <1>1, <1>2, <1>6
  <2> QED
    BY <1>4, <1>5, <1>7, <2>1
<1>9. \A i, j \in 1..Len(waiters') : waiters'[i] = waiters'[j] => i = j
  <2> TAKE i, j \in 1..Len(waiters')
  <2>1. waiters[i + 1] = waiters[j + 1] => i + 1 = j + 1
    BY <1>6 DEF QueueExact
  <2> QED
    BY <1>1, <1>2, <1>6, <2>1
<1>10. ASSUME NEW d \in Calls, pc'[d] = "parked"
       PROVE  \E i \in 1..Len(waiters') : waiters'[i] = d
  <2>1. d # h /\ pc[d] = "parked"
    BY <1>4, <1>10
  <2>2. PICK k \in 1..Len(waiters) : waiters[k] = d
    BY <2>1 DEF QueueExact
  <2>3. k - 1 \in 1..Len(waiters') /\ waiters'[k - 1] = d
    <3>1. k # 1
      BY <1>2, <2>1, <2>2
    <3> QED
      BY <1>1, <1>2, <2>2, <3>1
  <2> QED
    BY <2>3
<1> QED
  BY <1>2, <1>3, <1>8, <1>9, <1>10 DEF QueueExact, h

\* RemoveAt takes out one element and closes the gap.
LEMMA RemoveAtProperties ==
  ASSUME NEW S, NEW s \in Seq(S), NEW i \in 1..Len(s)
  PROVE  /\ RemoveAt(s, i) \in Seq(S)
         /\ Len(RemoveAt(s, i)) = Len(s) - 1
         /\ \A j \in 1..(Len(s) - 1) :
              RemoveAt(s, i)[j] = IF j < i THEN s[j] ELSE s[j + 1]
<1> DEFINE a == SubSeq(s, 1, i - 1)
           b == SubSeq(s, i + 1, Len(s))
<1>0. Len(s) \in Nat /\ \A k \in 1..Len(s) : s[k] \in S
  BY LenProperties, ElementOfSeq
<1>1. /\ a \in Seq(S) /\ Len(a) = i - 1
      /\ \A j \in 1..(i - 1) : a[j] = s[j]
  BY <1>0, SubSeqProperties
<1>2. /\ b \in Seq(S) /\ Len(b) = Len(s) - i
      /\ \A j \in 1..(Len(s) - i) : b[j] = s[j + i]
  BY <1>0, SubSeqProperties
<1>3. RemoveAt(s, i) = a \o b
  BY DEF RemoveAt
<1>4. /\ a \o b \in Seq(S)
      /\ Len(a \o b) = Len(a) + Len(b)
      /\ \A j \in 1..(Len(a) + Len(b)) :
           (a \o b)[j] = IF j <= Len(a) THEN a[j] ELSE b[j - Len(a)]
  BY <1>1, <1>2, ConcatProperties
<1> HIDE DEF a, b
<1>5. Len(a) + Len(b) = Len(s) - 1
  BY <1>0, <1>1, <1>2
<1>6. ASSUME NEW j \in 1..(Len(s) - 1)
      PROVE  (a \o b)[j] = IF j < i THEN s[j] ELSE s[j + 1]
  <2>1. CASE j < i
    <3>1. j \in 1..(i - 1) /\ j <= Len(a)
      BY <1>0, <1>1, <2>1
    <3> QED
      BY <1>1, <1>4, <1>5, <2>1, <3>1
  <2>2. CASE ~(j < i)
    <3>1. /\ ~(j <= Len(a))
          /\ j - Len(a) = j - i + 1
          /\ j - i + 1 \in 1..(Len(s) - i)
          /\ (j - i + 1) + i = j + 1
      BY <1>0, <1>1, <2>2
    <3>2. (a \o b)[j] = b[j - i + 1]
      BY <1>4, <1>5, <3>1
    <3> QED
      BY <1>2, <2>2, <3>1, <3>2
  <2> QED
    BY <2>1, <2>2
<1> QED
  BY <1>3, <1>4, <1>5, <1>6

\* Taking a parked call out of the line leaves the line exact.
LEMMA QuitLine ==
  ASSUME TypeOK, QueueExact,
         NEW c \in Calls, NEW k \in 1..Len(waiters), waiters[k] = c,
         waiters' = RemoveAt(waiters, k),
         pc' = [pc EXCEPT ![c] = "leaving"]
  PROVE  /\ pc[c] = "parked"
         /\ waiters' \in Seq(Calls)
         /\ QueueExact'
<1>1. /\ waiters \in Seq(Calls)
      /\ Len(waiters) \in Nat
  BY LenProperties DEF TypeOK
<1>2. /\ waiters' \in Seq(Calls)
      /\ Len(waiters') = Len(waiters) - 1
      /\ \A j \in 1..(Len(waiters) - 1) :
           waiters'[j] = IF j < k THEN waiters[j] ELSE waiters[j + 1]
  BY <1>1, RemoveAtProperties
<1>3. \A d \in Calls : pc'[d] = IF d = c THEN "leaving" ELSE pc[d]
  BY DEF TypeOK
<1>4. \A i \in 1..Len(waiters) : /\ waiters[i] \in Calls
                                 /\ pc[waiters[i]] = "parked"
                                 /\ waiters[i] = c => i = k
  BY <1>1, ElementOfSeq DEF QueueExact
\* Where each place of the shorter line comes from.
<1> DEFINE From(j) == IF j < k THEN j ELSE j + 1
<1>5. \A j \in 1..Len(waiters') : /\ From(j) \in 1..Len(waiters)
                                  /\ From(j) # k
                                  /\ waiters'[j] = waiters[From(j)]
  BY <1>1, <1>2
<1>6. \A i, j \in 1..Len(waiters') : From(i) = From(j) => i = j
  BY <1>1, <1>2
<1> HIDE DEF From
<1>7. \A i \in 1..Len(waiters') : pc'[waiters'[i]] = "parked"
  BY <1>3, <1>4, <1>5
<1>8. \A i, j \in 1..Len(waiters') : waiters'[i] = waiters'[j] => i = j
  BY <1>5, <1>6 DEF QueueExact
<1>9. ASSUME NEW d \in Calls, pc'[d] = "parked"
      PROVE  \E i \in 1..Len(waiters') : waiters'[i] = d
  <2>1. d # c /\ pc[d] = "parked"
    BY <1>3, <1>9
  <2>2. PICK m \in 1..Len(waiters) : waiters[m] = d
    BY <2>1 DEF QueueExact
  <2>3. m # k
    BY <2>1, <2>2
  <2> DEFINE j == IF m < k THEN m ELSE m - 1
  <2>4. j \in 1..Len(waiters') /\ From(j) = m
    BY <1>1, <1>2, <2>3 DEF From
  <2> HIDE DEF j
  <2> QED
    BY <1>5, <2>2, <2>4
<1> QED
  BY <1>2, <1>4, <1>7, <1>8, <1>9 DEF QueueExact

\* A permit that comes back stays one permit: it goes to the oldest waiter or
\* to the semaphore, and nobody is counted in or out on the way.
LEMMA ReturnPermitKeeps ==
  ASSUME IInv, NEW c \in Calls,
         NEW v \in {"idle", "leaving"},
         \/ pc[c] = "holding" /\ v = "idle"
         \/ pc[c] = "granted" /\ v = "leaving",
         ReturnPermit(c, v)
  PROVE  /\ pc' \in [Calls -> PcTypes]
         /\ avail' \in Nat
         /\ waiters' \in Seq(Calls)
         /\ QueueExact'
         /\ Balanced(pc', queued, avail')
         /\ NoIdlePermit'
<1> USE DEF IInv
<1>0. /\ avail \in Nat /\ queued \in Nat /\ avail + 1 \in Nat
      /\ Balanced(pc, queued, avail)
      /\ pc[c] # "parked" /\ v # "parked" /\ v \in PcTypes
  BY Counting DEF TypeOK, PcTypes
<1> DEFINE g == [pc EXCEPT ![c] = v]
<1>1. g \in [Calls -> PcTypes]
  BY <1>0 DEF TypeOK
<1>2. Balanced(g, queued, avail + 1)
  <2>1. /\ Share(v, CountedPcs) = Share(pc[c], CountedPcs)
        /\ Share(v, CountedPcs) \in Nat
        /\ Share(v, PermitPcs) = 0 /\ Share(pc[c], PermitPcs) = 1
        /\ Share(v, Queued) = 0 \/ Share(pc[c], Queued) = 1
    BY DEF Share, CountedPcs, Queued, PermitPcs
  <2>2. Moves(pc, g, c, pc[c], v)
    BY DEF TypeOK, Moves
  <2>3. /\ queued = queued + Share(v, CountedPcs) - Share(pc[c], CountedPcs)
        /\ avail + 1 = avail - Share(v, PermitPcs) + Share(pc[c], PermitPcs)
    BY <1>0, <2>1
  <2> HIDE DEF g
  <2> QED
    BY <1>0, <2>1, <2>2, <2>3, Books
<1>3. CASE waiters = <<>>
  <2>1. /\ avail' = avail + 1 /\ pc' = g /\ waiters' = waiters
    BY <1>3 DEF ReturnPermit, Goto
  <2>2. QueueExact'
    BY <1>0, <2>1, KeepsQueue
  <2> HIDE DEF g
  <2> QED
    BY <1>0, <1>1, <1>2, <1>3, <2>1, <2>2 DEF NoIdlePermit, TypeOK
<1>4. CASE waiters # <<>>
  <2> DEFINE h == Head(waiters)
  <2>1. /\ avail' = avail
        /\ pc' = [pc EXCEPT ![c] = v, ![h] = "granted"]
        /\ waiters' = Tail(waiters)
    BY <1>4 DEF ReturnPermit
  <2>2. /\ h \in Calls /\ h # c /\ pc[h] = "parked"
        /\ waiters' \in Seq(Calls) /\ QueueExact'
    BY <1>0, <1>4, <2>1, ServeHead
  <2> HIDE DEF h
  <2>3. pc' = [g EXCEPT ![h] = "granted"] /\ g[h] = "parked"
    BY <2>1, <2>2 DEF TypeOK
  <2>4. /\ pc' \in [Calls -> PcTypes]
        /\ Moves(g, pc', h, "parked", "granted")
    BY <1>1, <2>2, <2>3 DEF PcTypes, Moves
  <2>5. Balanced(pc', queued, avail)
    <3>1. /\ Share("granted", CountedPcs) = 1 /\ Share("parked", CountedPcs) = 1
          /\ Share("granted", PermitPcs) = 1 /\ Share("parked", PermitPcs) = 0
          /\ Share("parked", Queued) = 1
      BY DEF Share, CountedPcs, Queued, PermitPcs
    <3>2. /\ queued = queued + Share("granted", CountedPcs) - Share("parked", CountedPcs)
          /\ avail = (avail + 1) - Share("granted", PermitPcs) + Share("parked", PermitPcs)
      BY <1>0, <3>1
    <3> HIDE DEF g
    <3> QED
      BY <1>0, <1>2, <2>2, <2>4, <3>1, <3>2, Books
  <2> HIDE DEF g
  <2> QED
    BY <1>0, <1>2, <1>4, <2>1, <2>2, <2>4, <2>5 DEF NoIdlePermit
<1> QED
  BY <1>3, <1>4

\* The inductive invariant follows from its parts once the counts are known:
\* the form in which every action below concludes.
LEMMA Conclude ==
  ASSUME pc' \in [Calls -> PcTypes], waiters' \in Seq(Calls), avail' \in Nat,
         fired' \in SUBSET Calls, QueueExact', NoIdlePermit',
         Balanced(pc', queued', avail')
  PROVE  IInv'
<1>1. queued' \in Nat
  BY NumType DEF Balanced
<1> QED
  BY <1>1, Counting DEF IInv, TypeOK

\* A step that moves a call from u to v books its shares: the counter and the
\* semaphore change by them, no permit is taken that is not there, none is free
\* beside a line, and a call enters the queue only below the bound.
Booked(u, v) ==
  /\ queued' = queued + Share(v, CountedPcs) - Share(u, CountedPcs)
  /\ avail' = avail - Share(v, PermitPcs) + Share(u, PermitPcs)
  /\ avail' \in Nat
  /\ waiters = <<>> \/ avail' = 0
  /\ Share(v, Queued) = 0 \/ Share(u, Queued) = 1 \/ queued < MaxQueued

\* A booked move, neither from nor to "parked", that leaves the line alone
\* keeps the invariant.
LEMMA MoveKeeps ==
  ASSUME IInv, NEW c \in Calls, NEW u, NEW v \in PcTypes,
         pc[c] = u, u # "parked", v # "parked",
         pc' = [pc EXCEPT ![c] = v], waiters' = waiters, fired' \in SUBSET Calls,
         Booked(u, v)
  PROVE  IInv'
<1> USE DEF IInv
<1>1. /\ pc' \in [Calls -> PcTypes]
      /\ Moves(pc, pc', c, u, v)
  BY DEF TypeOK, Moves
<1>2. QueueExact'
  BY KeepsQueue
<1>3. Balanced(pc', queued', avail')
  <2>1. queued \in Nat /\ avail \in Nat /\ Balanced(pc, queued, avail)
    BY Counting DEF TypeOK
  <2> QED
    BY <1>1, <2>1, Books DEF Booked
<1>4. NoIdlePermit' /\ waiters' \in Seq(Calls) /\ avail' \in Nat
  BY DEF NoIdlePermit, TypeOK, Booked
<1> QED
  BY <1>1, <1>2, <1>3, <1>4, Conclude

\* A call that joins the line while no permit is free keeps the invariant.
LEMMA JoinKeeps ==
  ASSUME IInv, NEW c \in Calls, pc[c] = "admitted", avail = 0,
         pc' = [pc EXCEPT ![c] = "parked"], waiters' = Append(waiters, c),
         UNCHANGED <<avail, queued, fired>>
  PROVE  IInv'
<1> USE DEF IInv
<1>1. /\ pc' \in [Calls -> PcTypes]
      /\ Moves(pc, pc', c, "admitted", "parked")
  BY DEF TypeOK, Moves, PcTypes
<1>2. /\ waiters \in Seq(Calls)
      /\ Len(waiters) \in Nat
      /\ waiters' \in Seq(Calls)
      /\ Len(waiters') = Len(waiters) + 1
      /\ \A i \in 1..Len(waiters) : waiters'[i] = waiters[i]
      /\ waiters'[Len(waiters) + 1] = c
  BY LenProperties, AppendProperties DEF TypeOK
<1>3. QueueExact'
  <2>1. \A i \in 1..Len(waiters) : waiters[i] \in Calls /\ waiters[i] # c
    BY <1>2, ElementOfSeq DEF QueueExact
  <2>2. \A d \in Calls : pc'[d] = IF d = c THEN "parked" ELSE pc[d]
    BY <1>1 DEF Moves
  <2>3. \A i \in 1..Len(waiters') : i \in 1..Len(waiters) \/ i = Len(waiters) + 1
    BY <1>2
  <2>4. \A i \in 1..Len(waiters') : pc'[waiters'[i]] = "parked"
    BY <1>2, <2>1, <2>2, <2>3 DEF QueueExact
  <2>5. \A i, j \in 1..Len(waiters') : waiters'[i] = waiters'[j] => i = j
    BY <1>2, <2>1, <2>3 DEF QueueExact
  <2>6. \A d \in Calls : pc'[d] = "parked" => \E i \in 1..Len(waiters') : waiters'[i] = d
    <3>1. 1..Len(waiters) \subseteq 1..Len(waiters') /\ Len(waiters) + 1 \in 1..Len(waiters')
      BY <1>2
    <3> QED
      BY <1>2, <2>2, <3>1 DEF QueueExact
  <2> QED
    BY <2>4, <2>5, <2>6 DEF QueueExact
<1>4. Balanced(pc', queued', avail')
  <2>1. /\ Share("admitted", CountedPcs) = 1 /\ Share("parked", CountedPcs) = 1
        /\ Share("admitted", PermitPcs) = 0 /\ Share("parked", PermitPcs) = 0
        /\ Share("admitted", Queued) = 1
    BY DEF Share, CountedPcs, Queued, PermitPcs
  <2>2. /\ queued \in Nat /\ avail \in Nat /\ Balanced(pc, queued, avail)
        /\ queued' = queued /\ avail' = avail
    BY Counting DEF TypeOK
  <2>3. /\ queued' = queued + Share("parked", CountedPcs) - Share("admitted", CountedPcs)
        /\ avail' = avail - Share("parked", PermitPcs) + Share("admitted", PermitPcs)
    BY <2>1, <2>2
  <2> QED
    BY <1>1, <2>1, <2>2, <2>3, Books
<1>5. NoIdlePermit' /\ avail' \in Nat /\ fired' \in SUBSET Calls
  BY DEF NoIdlePermit, TypeOK
<1> QED
  BY <1>1, <1>2, <1>3, <1>4, <1>5, Conclude

\* A parked call that is dropped keeps the invariant.
LEMMA QuitKeeps ==
  ASSUME IInv, NEW c \in Calls, pc[c] = "parked", Abandon(c)
  PROVE  IInv'
<1> USE DEF IInv
<1>1. /\ pc' = [pc EXCEPT ![c] = "leaving"]
      /\ UNCHANGED <<avail, queued, fired>>
  BY DEF Abandon, Goto
<1>2. PICK k \in 1..Len(waiters) : waiters[k] = c /\ waiters' = RemoveAt(waiters, k)
  BY DEF Abandon
<1>3. waiters' \in Seq(Calls) /\ QueueExact'
  BY <1>1, <1>2, QuitLine
<1>4. /\ pc' \in [Calls -> PcTypes]
      /\ Moves(pc, pc', c, "parked", "leaving")
  BY <1>1 DEF TypeOK, Moves, PcTypes
<1>5. Balanced(pc', queued', avail')
  <2>1. /\ Share("parked", CountedPcs) = 1 /\ Share("leaving", CountedPcs) = 1
        /\ Share("parked", PermitPcs) = 0 /\ Share("leaving", PermitPcs) = 0
        /\ Share("parked", Queued) = 1
    BY DEF Share, CountedPcs, Queued, PermitPcs
  <2>2. /\ queued \in Nat /\ avail \in Nat /\ Balanced(pc, queued, avail)
        /\ queued' = queued /\ avail' = avail
    BY <1>1, Counting DEF TypeOK
  <2>3. /\ queued' = queued + Share("leaving", CountedPcs) - Share("parked", CountedPcs)
        /\ avail' = avail - Share("leaving", PermitPcs) + Share("parked", PermitPcs)
    BY <2>1, <2>2
  <2> QED
    BY <1>4, <2>1, <2>2, <2>3, Books
<1>6. NoIdlePermit' /\ avail' \in Nat /\ fired' \in SUBSET Calls
  <2>1. waiters # <<>>
    BY <1>2, LenProperties, EmptySeq DEF TypeOK
  <2> QED
    BY <1>1, <2>1 DEF NoIdlePermit, TypeOK
<1> QED
  BY <1>1, <1>3, <1>4, <1>5, <1>6, Conclude

\* A returned permit keeps the invariant.
LEMMA ReturnKeeps ==
  ASSUME IInv, NEW c \in Calls, NEW v \in {"idle", "leaving"},
         \/ pc[c] = "holding" /\ v = "idle"
         \/ pc[c] = "granted" /\ v = "leaving",
         ReturnPermit(c, v), queued' = queued, fired' \in SUBSET Calls
  PROVE  IInv'
<1>1. /\ CounterExact /\ PermitsConserved /\ QueueBounded
  BY DEF IInv
<1> QED
  BY <1>1, ReturnPermitKeeps, Counting, Conclude

-----------------------------------------------------------------------------
(* The theorems *)

\* The gate starts in the invariant: nobody counted, every permit in.
LEMMA InitIInv == Init => IInv
<1> SUFFICES ASSUME Init PROVE IInv
  OBVIOUS
<1> USE DEF Init
<1>1. Permits \in Nat /\ MaxQueued \in Nat
  BY GateAssumption DEF Permits
<1>2. TypeOK
  BY <1>1, EmptySeq DEF TypeOK, PcTypes
<1>3. QueueExact
  BY EmptySeq DEF QueueExact
<1>4. In(CountedPcs) = {} /\ In(PermitPcs) = {} /\ In(CountedPcs \ {"over"}) = {}
  BY DEF In, CountedPcs, PermitPcs
<1>5. CounterExact
  BY <1>4, FS_EmptySet DEF CounterExact
<1>6. PermitsConserved
  BY <1>1, <1>4, FS_EmptySet DEF PermitsConserved
<1>7. QueueBounded
  <2>1. Cardinality(In(CountedPcs \ {"over"})) = 0
    BY <1>4, FS_EmptySet
  <2> QED
    BY <1>1, <2>1 DEF QueueBounded
<1> QED
  BY <1>2, <1>3, <1>5, <1>6, <1>7 DEF IInv, NoIdlePermit

\* Every step of every call keeps the invariant.
LEMMA NextIInv == IInv /\ [Next]_gateVars => IInv'
<1> SUFFICES ASSUME IInv, [Next]_gateVars PROVE IInv'
  OBVIOUS
<1>0. /\ avail \in Nat /\ queued \in Nat /\ fired \in SUBSET Calls
      /\ waiters = <<>> \/ avail = 0
      /\ MaxQueued \in Nat
  BY GateAssumption DEF IInv, TypeOK, NoIdlePermit
<1> USE DEF PcTypes
<1>1. CASE UNCHANGED gateVars
  BY <1>1 DEF gateVars, IInv, TypeOK, QueueExact, CounterExact, PermitsConserved,
              QueueBounded, NoIdlePermit, In
<1>2. CASE \E c \in Calls : Begin(c) \/ Fire(c) \/ Poll(c) \/ DropQueued(c) \/ Release(c)
  <2> PICK c \in Calls : Begin(c) \/ Fire(c) \/ Poll(c) \/ DropQueued(c) \/ Release(c)
    BY <1>2
  <2>1. CASE Begin(c)
    <3>1. /\ pc[c] = "idle" /\ pc' = [pc EXCEPT ![c] = "arriving"]
          /\ waiters' = waiters /\ fired' \in SUBSET Calls
      BY <1>0, <2>1 DEF Begin, Goto, Forget
    <3>2. Booked("idle", "arriving")
      BY <1>0, <2>1 DEF Begin, Booked, Share, CountedPcs, PermitPcs, Queued
    <3> QED
      BY <3>1, <3>2, MoveKeeps
  <2>2. CASE Fire(c)
    <3>1. /\ UNCHANGED <<pc, avail, waiters, queued>>
          /\ fired' \in SUBSET Calls
      BY <1>0, <2>2 DEF Fire
    <3> QED
      BY <3>1 DEF IInv, TypeOK, QueueExact, CounterExact, PermitsConserved,
                  QueueBounded, NoIdlePermit, In
  <2>3. CASE CancelEarly(c)
    <3>1. /\ pc[c] = "arriving" /\ pc' = [pc EXCEPT ![c] = "idle"]
          /\ waiters' = waiters /\ fired' \in SUBSET Calls
      BY <1>0, <2>3 DEF CancelEarly, Goto, Forget
    <3>2. Booked("arriving", "idle")
      BY <1>0, <2>3 DEF CancelEarly, Booked, Share, CountedPcs, PermitPcs, Queued
    <3> QED
      BY <3>1, <3>2, MoveKeeps
  <2>4. CASE TryAcquire(c)
    <3>1. /\ pc[c] = "arriving" /\ waiters' = waiters
          /\ queued' = queued /\ fired' \in SUBSET Calls
      BY <1>0, <2>4 DEF TryAcquire
    <3>2. CASE avail > 0
      <4>1. /\ pc' = [pc EXCEPT ![c] = "holding"]
            /\ avail' = avail - 1
        BY <1>0, <2>4, <3>2 DEF TryAcquire, Goto
      <4>2. Booked("arriving", "holding")
        BY <1>0, <3>1, <3>2, <4>1 DEF Booked, Share, CountedPcs, PermitPcs, Queued
      <4> QED
        BY <3>1, <4>1, <4>2, MoveKeeps
    <3>3. CASE avail = 0
      <4>1. /\ pc' = [pc EXCEPT ![c] = "counting"]
            /\ avail' = avail
        BY <1>0, <2>4, <3>3 DEF TryAcquire, Goto
      <4>2. Booked("arriving", "counting")
        BY <1>0, <3>1, <3>3, <4>1 DEF Booked, Share, CountedPcs, PermitPcs, Queued
      <4> QED
        BY <3>1, <4>1, <4>2, MoveKeeps
    <3> QED
      BY <1>0, <3>2, <3>3
  <2>5. CASE Count(c)
    <3>1. /\ pc[c] = "counting" /\ waiters' = waiters /\ queued' = queued + 1
          /\ avail' = avail /\ fired' \in SUBSET Calls
      BY <1>0, <2>5 DEF Count
    <3>2. CASE queued >= MaxQueued
      <4>1. /\ pc' = [pc EXCEPT ![c] = "over"]
            /\ avail' = avail
        BY <1>0, <2>5, <3>2 DEF Count, Goto
      <4>2. Booked("counting", "over")
        BY <1>0, <3>1, <3>2, <4>1 DEF Booked, Share, CountedPcs, PermitPcs, Queued
      <4> QED
        BY <3>1, <4>1, <4>2, MoveKeeps
    <3>3. CASE queued < MaxQueued
      <4>1. /\ pc' = [pc EXCEPT ![c] = "admitted"]
            /\ avail' = avail
        BY <1>0, <2>5, <3>3 DEF Count, Goto
      <4>2. Booked("counting", "admitted")
        BY <1>0, <3>1, <3>3, <4>1 DEF Booked, Share, CountedPcs, PermitPcs, Queued
      <4> QED
        BY <3>1, <4>1, <4>2, MoveKeeps
    <3> QED
      BY <1>0, <3>2, <3>3
  <2>6. CASE Reject(c)
    <3>1. /\ pc[c] = "over" /\ pc' = [pc EXCEPT ![c] = "idle"]
          /\ waiters' = waiters /\ fired' \in SUBSET Calls
      BY <1>0, <2>6 DEF Reject, Goto, Forget
    <3>2. Booked("over", "idle")
      BY <1>0, <2>6 DEF Reject, Booked, Share, CountedPcs, PermitPcs, Queued
    <3> QED
      BY <3>1, <3>2, MoveKeeps
  <2>7. CASE Park(c)
    <3>1. /\ pc[c] = "admitted" /\ queued' = queued
          /\ fired' = fired /\ fired' \in SUBSET Calls
      BY <1>0, <2>7 DEF Park
    <3>2. CASE avail > 0
      <4>1. /\ pc' = [pc EXCEPT ![c] = "resumed"]
            /\ avail' = avail - 1 /\ waiters' = waiters
        BY <1>0, <2>7, <3>2 DEF Park, Goto
      <4>2. Booked("admitted", "resumed")
        BY <1>0, <3>1, <3>2, <4>1 DEF Booked, Share, CountedPcs, PermitPcs, Queued
      <4> QED
        BY <3>1, <4>1, <4>2, MoveKeeps
    <3>3. CASE avail = 0
      <4>1. /\ pc' = [pc EXCEPT ![c] = "parked"]
            /\ avail' = avail /\ waiters' = Append(waiters, c)
        BY <1>0, <2>7, <3>3 DEF Park, Goto
      <4> QED
        BY <3>1, <3>3, <4>1, JoinKeeps
    <3> QED
      BY <1>0, <3>2, <3>3
  <2>8. CASE Resume(c)
    <3>1. /\ pc[c] = "granted" /\ pc' = [pc EXCEPT ![c] = "resumed"]
          /\ waiters' = waiters /\ fired' \in SUBSET Calls
      BY <1>0, <2>8 DEF Resume, Goto, Forget
    <3>2. Booked("granted", "resumed")
      BY <1>0, <2>8 DEF Resume, Booked, Share, CountedPcs, PermitPcs, Queued
    <3> QED
      BY <3>1, <3>2, MoveKeeps
  <2>9. CASE Uncount(c)
    <3>1. /\ pc[c] = "resumed" /\ pc' = [pc EXCEPT ![c] = "holding"]
          /\ waiters' = waiters /\ fired' \in SUBSET Calls
      BY <1>0, <2>9 DEF Uncount, Goto, Forget
    <3>2. Booked("resumed", "holding")
      BY <1>0, <2>9 DEF Uncount, Booked, Share, CountedPcs, PermitPcs, Queued
    <3> QED
      BY <3>1, <3>2, MoveKeeps
  <2>10. CASE Abandon(c)
    <3>1. CASE pc[c] = "parked"
      BY <2>10, <3>1, QuitKeeps
    <3>2. CASE pc[c] = "granted"
      <4>1. /\ ReturnPermit(c, "leaving")
            /\ queued' = queued /\ fired' \in SUBSET Calls
        BY <1>0, <2>10, <3>2 DEF Abandon
      <4> QED
        BY <3>2, <4>1, ReturnKeeps
    <3> QED
      BY <2>10, <3>1, <3>2 DEF Abandon
  <2>11. CASE Leave(c)
    <3>1. /\ pc[c] = "leaving" /\ pc' = [pc EXCEPT ![c] = "idle"]
          /\ waiters' = waiters /\ fired' \in SUBSET Calls
      BY <1>0, <2>11 DEF Leave, Goto, Forget
    <3>2. Booked("leaving", "idle")
      BY <1>0, <2>11 DEF Leave, Booked, Share, CountedPcs, PermitPcs, Queued
    <3> QED
      BY <3>1, <3>2, MoveKeeps
  <2>12. CASE Release(c)
    <3>1. /\ pc[c] = "holding" /\ ReturnPermit(c, "idle")
          /\ queued' = queued /\ fired' \in SUBSET Calls
      BY <1>0, <2>12 DEF Release, Forget
    <3> QED
      BY <3>1, ReturnKeeps
  <2> QED
    BY <2>1, <2>2, <2>3, <2>4, <2>5, <2>6, <2>7, <2>8, <2>9, <2>10, <2>11, <2>12
    DEF Poll, CancelQueued, DropQueued
<1> QED
  BY <1>1, <1>2 DEF Next

\* Every reachable state of the gate satisfies the inductive invariant.
THEOREM Invariant == Spec => []IInv
  BY InitIInv, NextIInv, PTL DEF Spec

\* The gate's variables keep their types: in particular the atomic counter,
\* an unsigned word in the code, never goes below zero.
THEOREM TypeCorrect == Spec => []TypeOK
<1>1. IInv => TypeOK
  BY DEF IInv
<1> QED
  BY <1>1, Invariant, PTL

\* The counter equals the number of calls that were counted in and not yet
\* out: cancelling a queued call leaks no slot of the queue.
THEOREM CounterIsExact == Spec => []CounterExact
<1>1. IInv => CounterExact
  BY DEF IInv
<1> QED
  BY <1>1, Invariant, PTL

\* Permits are neither lost nor minted.
THEOREM PermitsAreConserved == Spec => []PermitsConserved
<1>1. IInv => PermitsConserved
  BY DEF IInv
<1> QED
  BY <1>1, Invariant, PTL

\* At most max_queued calls are queued.
THEOREM QueueIsBounded == Spec => []QueueBounded
<1>1. IInv => QueueBounded
  BY DEF IInv
<1> QED
  BY <1>1, Invariant, PTL

\* No call is parked beside a free permit.
THEOREM NoPermitIdles == Spec => []NoIdlePermit
<1>1. IInv => NoIdlePermit
  BY DEF IInv
<1> QED
  BY <1>1, Invariant, PTL

-----------------------------------------------------------------------------
(* A token that fired wins *)

\* What a returned permit does to a call: it stays, moves where its own step
\* sends it, or is granted the permit.
LEMMA ReturnPermitMoves ==
  ASSUME TypeOK, NEW c \in Calls, NEW v, ReturnPermit(c, v)
  PROVE  \A d \in Calls : pc'[d] = pc[d] \/ pc'[d] = "granted" \/ (d = c /\ pc'[d] = v)
<1>1. CASE pc' = [pc EXCEPT ![c] = v]
  BY <1>1 DEF TypeOK
<1>2. CASE pc' = [pc EXCEPT ![c] = v, ![Head(waiters)] = "granted"]
  BY <1>2 DEF TypeOK
<1> QED
  BY <1>1, <1>2 DEF ReturnPermit, Goto

\* Once its token fires, a call that still queues never runs.
THEOREM CancelAlwaysWins == Spec => CancelWins
<1> DEFINE Wins == \A c \in fired : pc[c] \in {"arriving", "parked", "granted"} =>
                     pc'[c] \notin {"resumed", "holding"}
<1>1. ASSUME TypeOK, [Next]_gateVars
      PROVE  [Wins]_gateVars
  <2> SUFFICES ASSUME NEW d \in fired, pc[d] \in {"arriving", "parked", "granted"},
                      pc'[d] \in {"resumed", "holding"}
               PROVE  FALSE
    OBVIOUS
  <2> d \in Calls
    BY <1>1 DEF TypeOK
  <2>1. CASE UNCHANGED gateVars
    BY <2>1 DEF gateVars
  <2>2. CASE Next
    <3> PICK c \in Calls : Begin(c) \/ Fire(c) \/ Poll(c) \/ DropQueued(c) \/ Release(c)
      BY <2>2 DEF Next
    <3>1. CASE Begin(c) \/ CancelEarly(c) \/ Count(c) \/ Reject(c) \/ Leave(c)
      BY <1>1, <3>1 DEF Begin, CancelEarly, Count, Reject, Leave, Goto, TypeOK
    <3>2. CASE Fire(c)
      BY <3>2 DEF Fire
    <3>3. CASE TryAcquire(c) \/ Resume(c)
      BY <1>1, <3>3 DEF TryAcquire, Resume, Goto, TypeOK
    <3>4. CASE Park(c) \/ Uncount(c)
      BY <1>1, <3>4 DEF Park, Uncount, Goto, TypeOK
    <3>5. CASE Abandon(c)
      <4>1. CASE ReturnPermit(c, "leaving")
        BY <1>1, <4>1, ReturnPermitMoves
      <4>2. CASE Goto(c, "leaving")
        BY <1>1, <4>2 DEF Goto, TypeOK
      <4> QED
        BY <3>5, <4>1, <4>2 DEF Abandon
    <3>6. CASE Release(c)
      <4>1. ReturnPermit(c, "idle")
        BY <3>6 DEF Release
      <4> QED
        BY <1>1, <4>1, ReturnPermitMoves
    <3> QED
      BY <3>1, <3>2, <3>3, <3>4, <3>5, <3>6 DEF Poll, CancelQueued, DropQueued
  <2> QED
    BY <1>1, <2>1, <2>2
<1> QED
  BY <1>1, TypeCorrect, PTL DEF Spec, CancelWins

-----------------------------------------------------------------------------
(* The gate implements BuildSlots *)

\* A line that is exact is as long as there are parked calls, at most.
LEMMA LineLength ==
  ASSUME TypeOK, QueueExact
  PROVE  Len(waiters) <= Num(pc, {"parked"})
<1> DEFINE P == {c \in Calls : pc[c] \in {"parked"}}
<1>1. /\ Len(waiters) \in Nat
      /\ waiters \in [1..Len(waiters) -> Calls]
  BY LenProperties DEF TypeOK
<1>2. waiters \in Injection(1..Len(waiters), P)
  BY <1>1 DEF QueueExact, Injection, IsInjective
<1>3. IsFiniteSet(P)
  BY NumType
<1>4. Cardinality(1..Len(waiters)) = Len(waiters)
  BY <1>1, FS_Interval
<1> HIDE DEF P
<1>5. Cardinality(1..Len(waiters)) <= Cardinality(P)
  BY <1>2, <1>3, FS_Injection
<1> QED
  BY <1>4, <1>5 DEF Num, P

\* When an admitted call comes to park there is a place left in the line.
LEMMA PlaceLeft ==
  ASSUME IInv, NEW c \in Calls, pc[c] = "admitted"
  PROVE  Len(waiters) < MaxQueued
<1> DEFINE P == {d \in Calls : pc[d] \in {"parked"}}
           Q == {d \in Calls : pc[d] \in {"parked", "admitted"}}
<1>1. /\ Len(waiters) \in Nat
      /\ Len(waiters) <= Cardinality(P)
  BY LineLength, LenProperties DEF IInv, TypeOK, Num
<1>2. IsFiniteSet(P) /\ IsFiniteSet(Q)
  BY NumType
<1>3. P \cup {c} \subseteq Q /\ c \notin P
  OBVIOUS
<1>4. Cardinality(Q) <= MaxQueued
  <2>1. Num(pc, {"parked", "admitted"}) <= Num(pc, Queued)
    BY NumMonotonic DEF Queued, CountedPcs
  <2>2. Num(pc, Queued) <= MaxQueued
    BY Counting DEF IInv, Balanced
  <2>3. /\ Num(pc, {"parked", "admitted"}) \in Nat
        /\ Num(pc, Queued) \in Nat /\ MaxQueued \in Nat
    BY NumType, GateAssumption
  <2> QED
    BY <2>1, <2>2, <2>3 DEF Num
<1> HIDE DEF P, Q
<1>5. Cardinality(P \cup {c}) = Cardinality(P) + 1 /\ IsFiniteSet(P \cup {c})
  BY <1>2, <1>3, FS_AddElement
<1>6. Cardinality(P \cup {c}) <= Cardinality(Q)
  BY <1>2, <1>3, FS_Subset
<1>7. /\ Cardinality(P) \in Nat /\ Cardinality(Q) \in Nat
      /\ MaxQueued \in Nat
  BY <1>2, FS_CardinalityType, GateAssumption
<1> QED
  BY <1>1, <1>4, <1>5, <1>6, <1>7

\* The instance counts as we do.
LEMMA SlotsCount == \A S : Slots!Cardinality(S) = Cardinality(S)
  BY Zenon DEF Slots!Cardinality, Cardinality

\* A step between places without a permit, or with one, is none of the
\* abstract specification's business.
LEMMA SlotsStutter ==
  ASSUME TypeOK, NEW c \in Calls, NEW v,
         pc' = [pc EXCEPT ![c] = v], waiters' = waiters,
         pc[c] \in PermitPcs <=> v \in PermitPcs
  PROVE  UNCHANGED Slots!slotVars
  BY DEF TypeOK, In, Slots!slotVars

\* A permit taken from the semaphore is an abstract Start.
LEMMA SlotsStart ==
  ASSUME IInv, NEW c \in Calls, NEW v \in PermitPcs, pc[c] \notin PermitPcs,
         avail > 0, pc' = [pc EXCEPT ![c] = v], waiters' = waiters
  PROVE  Slots!Start(c)
<1>1. waiters = <<>>
  BY DEF IInv, NoIdlePermit
<1>2. c \notin In(PermitPcs) /\ In(PermitPcs)' = In(PermitPcs) \cup {c}
  BY DEF IInv, TypeOK, In
<1>3. Cardinality(In(PermitPcs)) < Permits
  <2>1. Num(pc, PermitPcs) = Cardinality(In(PermitPcs))
    BY DEF Num, In
  <2>2. Num(pc, PermitPcs) \in Nat /\ avail \in Nat
    BY NumType DEF IInv, TypeOK
  <2> QED
    BY <2>1, <2>2 DEF IInv, PermitsConserved
<1> QED
  BY <1>1, <1>2, <1>3, SlotsCount DEF Slots!Start

\* Parking is an abstract Join.
LEMMA SlotsJoin ==
  ASSUME IInv, NEW c \in Calls, pc[c] = "admitted", avail = 0,
         pc' = [pc EXCEPT ![c] = "parked"], waiters' = Append(waiters, c)
  PROVE  Slots!Join(c)
<1>1. c \notin In(PermitPcs) /\ In(PermitPcs)' = In(PermitPcs)
  BY DEF IInv, TypeOK, In, PermitPcs
<1>2. \A i \in 1..Len(waiters) : waiters[i] # c
  BY DEF IInv, QueueExact
<1>3. Cardinality(In(PermitPcs)) = Permits
  <2>1. Num(pc, PermitPcs) = Cardinality(In(PermitPcs))
    BY DEF Num, In
  <2>2. Num(pc, PermitPcs) \in Nat
    BY NumType
  <2> QED
    BY <2>1, <2>2 DEF IInv, PermitsConserved
<1> QED
  BY <1>1, <1>2, <1>3, PlaceLeft, SlotsCount DEF Slots!Join

\* A permit that comes back is an abstract Finish.
LEMMA SlotsFinish ==
  ASSUME IInv, NEW c \in Calls, pc[c] \in {"holding", "granted"},
         NEW v \in {"idle", "leaving"}, ReturnPermit(c, v)
  PROVE  Slots!Finish(c)
<1>1. c \in In(PermitPcs)
  BY DEF In, PermitPcs
<1>2. CASE waiters = <<>>
  <2>1. pc' = [pc EXCEPT ![c] = v] /\ waiters' = waiters
    BY <1>2 DEF ReturnPermit, Goto
  <2>2. In(PermitPcs)' = In(PermitPcs) \ {c}
    BY <2>1 DEF IInv, TypeOK, In, PermitPcs
  <2> QED
    BY <1>1, <1>2, <2>1, <2>2 DEF Slots!Finish
<1>3. CASE waiters # <<>>
  <2> DEFINE h == Head(waiters)
  <2>1. pc' = [pc EXCEPT ![c] = v, ![h] = "granted"] /\ waiters' = Tail(waiters)
    BY <1>3 DEF ReturnPermit
  <2>2. h \in Calls /\ h # c
    <3>1. v \in PcTypes /\ v # "parked" /\ pc[c] # "parked"
      BY DEF PcTypes
    <3> QED
      BY <1>3, <2>1, <3>1, ServeHead DEF IInv
  <2> HIDE DEF h
  <2>3. \A d \in Calls : pc'[d] = IF d = h THEN "granted" ELSE IF d = c THEN v ELSE pc[d]
    BY <2>1, <2>2 DEF IInv, TypeOK
  <2>4. In(PermitPcs)' = (In(PermitPcs) \ {c}) \cup {h}
    BY <2>2, <2>3 DEF In, PermitPcs
  <2> QED
    BY <1>1, <1>3, <2>1, <2>4 DEF Slots!Finish, h
<1> QED
  BY <1>2, <1>3

\* Each step of the gate is a step of BuildSlots, or none.
LEMMA SlotsStep == IInv /\ [Next]_gateVars => [Slots!Next]_(Slots!slotVars)
<1> SUFFICES ASSUME IInv, [Next]_gateVars PROVE [Slots!Next]_(Slots!slotVars)
  OBVIOUS
<1>0. TypeOK /\ avail \in Nat
  BY DEF IInv, TypeOK
<1>1. CASE UNCHANGED gateVars
  BY <1>1 DEF gateVars, Slots!slotVars, In
<1>2. CASE Next
  <2> PICK c \in Calls : Begin(c) \/ Fire(c) \/ Poll(c) \/ DropQueued(c) \/ Release(c)
    BY <1>2 DEF Next
  <2> SUFFICES \/ UNCHANGED Slots!slotVars
               \/ Slots!Start(c) \/ Slots!Join(c) \/ Slots!Quit(c) \/ Slots!Finish(c)
    BY DEF Slots!Next
  <2>1. CASE Begin(c)
    BY <1>0, <2>1, SlotsStutter DEF Begin, Goto, PermitPcs
  <2>2. CASE Fire(c)
    BY <2>2 DEF Fire, Slots!slotVars, In
  <2>3. CASE CancelEarly(c)
    BY <1>0, <2>3, SlotsStutter DEF CancelEarly, Goto, PermitPcs
  <2>4. CASE TryAcquire(c)
    <3>1. CASE avail > 0
      BY <1>0, <2>4, <3>1, SlotsStart DEF TryAcquire, Goto, PermitPcs
    <3>2. CASE avail = 0
      BY <1>0, <2>4, <3>2, SlotsStutter DEF TryAcquire, Goto, PermitPcs
    <3> QED
      BY <1>0, <3>1, <3>2
  <2>5. CASE Count(c)
    <3>1. CASE Goto(c, "over")
      BY <1>0, <2>5, <3>1, SlotsStutter DEF Count, Goto, PermitPcs
    <3>2. CASE Goto(c, "admitted")
      BY <1>0, <2>5, <3>2, SlotsStutter DEF Count, Goto, PermitPcs
    <3> QED
      BY <2>5, <3>1, <3>2 DEF Count
  <2>6. CASE Reject(c)
    BY <1>0, <2>6, SlotsStutter DEF Reject, Goto, PermitPcs
  <2>7. CASE Park(c)
    <3>1. CASE avail > 0
      BY <1>0, <2>7, <3>1, SlotsStart DEF Park, Goto, PermitPcs
    <3>2. CASE avail = 0
      BY <2>7, <3>2, SlotsJoin DEF Park, Goto
    <3> QED
      BY <1>0, <3>1, <3>2
  <2>8. CASE Resume(c)
    BY <1>0, <2>8, SlotsStutter DEF Resume, Goto, PermitPcs
  <2>9. CASE Uncount(c)
    BY <1>0, <2>9, SlotsStutter DEF Uncount, Goto, PermitPcs
  <2>10. CASE Abandon(c)
    <3>1. CASE pc[c] = "parked"
      <4>1. In(PermitPcs)' = In(PermitPcs)
        BY <1>0, <2>10, <3>1 DEF Abandon, Goto, In, PermitPcs, TypeOK
      <4> QED
        BY <2>10, <3>1, <4>1 DEF Abandon, Slots!Quit, RemoveAt, Slots!RemoveAt
    <3>2. CASE pc[c] = "granted"
      BY <2>10, <3>2, SlotsFinish DEF Abandon
    <3> QED
      BY <2>10, <3>1, <3>2 DEF Abandon
  <2>11. CASE Leave(c)
    BY <1>0, <2>11, SlotsStutter DEF Leave, Goto, PermitPcs
  <2>12. CASE Release(c)
    BY <2>12, SlotsFinish DEF Release
  <2> QED
    BY <2>1, <2>2, <2>3, <2>4, <2>5, <2>6, <2>7, <2>8, <2>9, <2>10, <2>11, <2>12
    DEF Poll, CancelQueued, DropQueued
<1> QED
  BY <1>1, <1>2

\* The gate keeps what BuildSlots promises, whatever its size.
THEOREM GateImplementsSlots == Spec => ImplementsSlots
<1>1. Init => Slots!Init
  BY DEF Init, Slots!Init, In, PermitPcs
<1> QED
  BY <1>1, SlotsStep, Invariant, PTL DEF Spec, ImplementsSlots, Slots!Spec
=============================================================================
