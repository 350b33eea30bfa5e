------------------------------ MODULE TextProofs ------------------------------
(***************************************************************************)
(* Proofs about the two modules whose instances MCReaders checks and which *)
(* are about text: what is kept of a subprocess's output, and what is made *)
(* of source text.                                                         *)
(***************************************************************************)
EXTENDS Output, Source, FiniteSetTheorems, SequenceTheorems, WellFoundedInduction, TLAPS

-----------------------------------------------------------------------------
(* Output *)

OutTypeOK ==
  /\ prints \in [Streams -> Seq(Glyphs)]
  /\ wrote \in [Streams -> Seq(Glyphs)]
  /\ pipe \in [Streams -> Seq(Glyphs)]
  /\ kept \in [Streams -> Seq(Glyphs)]
  /\ cut \in [Streams -> BOOLEAN]

\* How much of a stream was read: all that was written but what is in the pipe.
Got(s) == Len(wrote[s]) - Len(pipe[s])

\* The pipe holds the rest of the stream, and what is kept is its beginning.
Flow(s) ==
  /\ Got(s) \in Nat
  /\ \A i \in 1..Len(pipe[s]) : pipe[s][i] = wrote[s][Got(s) + i]
  /\ Len(kept[s]) = Least(Limit, Got(s))
  /\ \A i \in 1..Len(kept[s]) : kept[s][i] = wrote[s][i]
  /\ cut[s] <=> Got(s) > Limit

Drained(s) == s \in eof /\ ~failed => status # Running /\ pipe[s] = <<>>

OutInv ==
  /\ OutTypeOK
  /\ \A s \in Streams : Flow(s) /\ Drained(s)
  /\ said # Nothing => eof = Streams

LEMMA EmitKeeps ==
  ASSUME OutInv, NEW s \in Streams, Emit(s)
  PROVE  OutInv'
<1> DEFINE h == Head(prints[s])
<1>1. OutTypeOK /\ Flow(s) /\ \A u \in Streams : Flow(u) /\ Drained(u)
  BY DEF OutInv
<1>2. h \in Glyphs /\ Tail(prints[s]) \in Seq(Glyphs)
  BY <1>1, HeadTailProperties DEF Emit, OutTypeOK
<1> HIDE DEF h
<1>3. /\ prints' = [prints EXCEPT ![s] = Tail(prints[s])]
      /\ wrote' = [wrote EXCEPT ![s] = Append(wrote[s], h)]
      /\ pipe' = [pipe EXCEPT ![s] = Append(pipe[s], h)]
      /\ UNCHANGED <<kept, cut, eof, failed, status, said>> /\ status = Running
  BY DEF Emit, h
<1>4. /\ wrote[s] \in Seq(Glyphs) /\ pipe[s] \in Seq(Glyphs) /\ kept[s] \in Seq(Glyphs)
      /\ Len(wrote[s]) \in Nat /\ Len(pipe[s]) \in Nat
  BY <1>1 DEF OutTypeOK
<1>5. /\ wrote'[s] = Append(wrote[s], h) /\ pipe'[s] = Append(pipe[s], h)
      /\ \A u \in Streams : u # s => wrote'[u] = wrote[u] /\ pipe'[u] = pipe[u]
  BY <1>1, <1>3 DEF OutTypeOK
<1>6. /\ Append(wrote[s], h) \in Seq(Glyphs) /\ Append(pipe[s], h) \in Seq(Glyphs)
      /\ Len(wrote'[s]) = Len(wrote[s]) + 1 /\ Len(pipe'[s]) = Len(pipe[s]) + 1
      /\ \A i \in 1..Len(wrote[s]) : wrote'[s][i] = wrote[s][i]
      /\ \A i \in 1..Len(pipe[s]) : pipe'[s][i] = pipe[s][i]
      /\ wrote'[s][Len(wrote[s]) + 1] = h /\ pipe'[s][Len(pipe[s]) + 1] = h
  BY <1>2, <1>4, <1>5, AppendProperties
<1>7. OutTypeOK'
  BY <1>1, <1>2, <1>3, <1>6 DEF OutTypeOK
<1>8. Flow(s)'
  <2>1. Got(s)' = Got(s) /\ Got(s) \in Nat
    BY <1>1, <1>4, <1>6 DEF Got, Flow
  <2>2. ASSUME NEW i \in 1..Len(pipe'[s]) PROVE pipe'[s][i] = wrote'[s][Got(s) + i]
    <3> DEFINE n == Len(pipe[s])
               m == Len(wrote[s])
               g == Got(s)
    <3>1. g + n = m /\ g \in Nat /\ n \in Nat /\ m \in Nat
      BY <1>4, <2>1 DEF Got
    <3>2. CASE i = n + 1
      <4>1. g + i = m + 1
        BY <3>1, <3>2
      <4> QED
        BY <1>6, <3>2, <4>1
    <3>3. CASE i # n + 1
      <4>1. i \in 1..n
        BY <1>6, <3>1, <3>3
      <4>2. pipe[s][i] = wrote[s][g + i]
        BY <1>1, <4>1 DEF Flow
      <4>3. g + i \in 1..m
        BY <3>1, <4>1
      <4> QED
        BY <1>6, <4>1, <4>2, <4>3
    <3> QED
      BY <3>2, <3>3
  <2>3. \A i \in 1..Len(kept[s]) : kept[s][i] = wrote'[s][i]
    <3>1. Got(s) <= Len(wrote[s]) /\ Len(kept[s]) = Least(Limit, Got(s))
      <4> DEFINE n == Len(pipe[s])
                 m == Len(wrote[s])
                 g == Got(s)
      <4>1. n \in Nat /\ m \in Nat /\ g = m - n
        BY <1>4 DEF Got
      <4> HIDE DEF n, m, g
      <4>2. g <= m
        BY <4>1
      <4> QED
        BY <1>1, <4>2 DEF Flow, g, m
    <3>2. Len(kept[s]) \in Nat /\ Len(kept[s]) <= Len(wrote[s])
      BY <1>4, <2>1, <3>1, OutputAssumption DEF Least
    <3>3. ASSUME NEW i \in 1..Len(kept[s]) PROVE i \in 1..Len(wrote[s])
      BY <1>4, <3>2
    <3> QED
      BY <1>1, <1>6, <3>3 DEF Flow
  <2> QED
    BY <1>1, <1>3, <2>1, <2>2, <2>3 DEF Flow
<1>9. \A u \in Streams : Flow(u)'
  <2> SUFFICES ASSUME NEW u \in Streams, u # s PROVE Flow(u)'
    BY <1>8
  <2>1. wrote'[u] = wrote[u] /\ pipe'[u] = pipe[u] /\ kept' = kept /\ cut' = cut /\ Flow(u)
    BY <1>1, <1>3, <1>5
  <2>2. Got(u)' = Got(u)
    BY <2>1 DEF Got
  <2> QED
    BY <2>1, <2>2 DEF Flow
<1>10. \A u \in Streams : Drained(u)'
  BY <1>1, <1>3 DEF Drained
<1> QED
  BY <1>3, <1>7, <1>9, <1>10 DEF OutInv

\* What one read takes is the next part of the stream.
LEMMA ReadSomeKeeps ==
  ASSUME OutInv, NEW s \in Streams, NEW n \in 1..Chunk, ReadSome(s, n)
  PROVE  OutInv'
<1> DEFINE P == pipe[s]
           K == kept[s]
           W == wrote[s]
           r == Got(s)
           t == Takes(Len(kept[s]), n)[1]
           x == Takes(Len(kept[s]), n)[2]
           P1 == SubSeq(pipe[s], n + 1, Len(pipe[s]))
           K1 == kept[s] \o SubSeq(pipe[s], 1, Takes(Len(kept[s]), n)[1])
<1>1. OutTypeOK /\ Flow(s) /\ \A u \in Streams : Flow(u) /\ Drained(u)
  BY DEF OutInv
<1>2. /\ kept' = [kept EXCEPT ![s] = K1] /\ pipe' = [pipe EXCEPT ![s] = P1]
      /\ cut' = [cut EXCEPT ![s] = cut[s] \/ x]
      /\ UNCHANGED <<prints, wrote, eof, failed, status, said>>
      /\ s \notin eof /\ n <= Len(P)
  BY DEF ReadSome
<1>3. P \in Seq(Glyphs) /\ K \in Seq(Glyphs) /\ W \in Seq(Glyphs) /\ cut[s] \in BOOLEAN
  BY <1>1 DEF OutTypeOK
<1>4. /\ r \in Nat /\ r = Len(W) - Len(P) /\ Len(K) = Least(Limit, r)
      /\ \A i \in 1..Len(P) : P[i] = W[r + i]
      /\ \A i \in 1..Len(K) : K[i] = W[i]
      /\ cut[s] <=> r > Limit
  BY <1>1 DEF Flow, Got
<1>5. /\ t = IF Len(K) < Limit THEN Least(Limit - Len(K), n) ELSE 0
      /\ x = IF Len(K) < Limit THEN t < n ELSE TRUE
  BY DEF Takes
<1> HIDE DEF P, K, W, r, t, x, P1, K1
<1>6. /\ Len(P) \in Nat /\ Len(K) \in Nat /\ Len(W) \in Nat /\ n \in Nat /\ n >= 1
      /\ Limit \in Nat
  <2>1. Limit \in Nat /\ Chunk \in Nat
    BY OutputAssumption
  <2> QED
    BY <1>3, <2>1
<1>7. /\ t \in 0..n /\ t <= Len(P) /\ x \in BOOLEAN
      /\ Len(K) + t = Least(Limit, r + n)
      /\ (cut[s] \/ x) <=> r + n > Limit
      /\ t > 0 => Len(K) = r
  <2>1. CASE Len(K) < Limit
    <3>1. Len(K) = r /\ ~(r > Limit)
      BY <1>4, <1>6, <2>1 DEF Least
    <3>2. t = Least(Limit - r, n) /\ x = (t < n)
      BY <1>5, <2>1, <3>1
    <3>3. n <= Len(P)
      BY <1>2
    <3>4. r \in Nat /\ r < Limit
      BY <1>4, <2>1, <3>1
    <3>5. t \in 0..n
      BY <1>6, <3>2, <3>4 DEF Least
    <3>6. r + t = Least(Limit, r + n)
      BY <1>6, <3>2, <3>4 DEF Least
    <3>7. (t < n) <=> r + n > Limit
      BY <1>6, <3>2, <3>4 DEF Least
    <3>8. t <= Len(P)
      BY <1>6, <3>3, <3>5
    <3>9. (cut[s] \/ x) <=> r + n > Limit
      BY <1>4, <3>1, <3>2, <3>7, Zenon
    <3>10. Len(K) + t = Least(Limit, r + n) /\ x \in BOOLEAN
      BY <3>1, <3>2, <3>6
    <3> QED
      BY <3>1, <3>5, <3>8, <3>9, <3>10
  <2>2. CASE ~(Len(K) < Limit)
    <3>1. t = 0 /\ x = TRUE
      BY <1>5, <2>2
    <3>2. Len(K) = Limit /\ r >= Limit /\ r + n > Limit /\ Least(Limit, r + n) = Limit
      BY <1>4, <1>6, <2>2 DEF Least
    <3> QED
      BY <1>6, <3>1, <3>2
  <2> QED
    BY <2>1, <2>2
<1>8. /\ P1 \in Seq(Glyphs) /\ Len(P1) = Len(P) - n
      /\ \A i \in 1..Len(P1) : P1[i] = P[n + i]
  <2>1. P1 = SubSeq(P, n + 1, Len(P))
    BY DEF P, P1
  <2>2. \A i \in n + 1..Len(P) : P[i] \in Glyphs
    BY <1>3, <1>6
  <2> QED
    BY <1>2, <1>3, <1>6, <2>1, <2>2
<1>9. /\ K1 \in Seq(Glyphs) /\ Len(K1) = Len(K) + t
      /\ \A i \in 1..Len(K) : K1[i] = K[i]
      /\ \A i \in 1..t : K1[Len(K) + i] = P[i]
  <2> DEFINE Q == SubSeq(P, 1, t)
  <2>1. Q \in Seq(Glyphs) /\ Len(Q) = t /\ \A i \in 1..t : Q[i] = P[i]
    BY <1>3, <1>6, <1>7
  <2>2. K1 = K \o Q
    BY DEF P, K, K1, t
  <2> HIDE DEF Q
  <2>3. /\ K \o Q \in Seq(Glyphs) /\ Len(K \o Q) = Len(K) + Len(Q)
        /\ \A i \in 1..Len(K) + Len(Q) :
             (K \o Q)[i] = IF i <= Len(K) THEN K[i] ELSE Q[i - Len(K)]
    BY <1>3, <2>1, ConcatProperties
  <2>4. ASSUME NEW i \in 1..Len(K) PROVE K1[i] = K[i]
    BY <1>6, <1>7, <2>1, <2>2, <2>3
  <2>5. ASSUME NEW i \in 1..t PROVE K1[Len(K) + i] = P[i]
    <3>1. Len(K) + i \in 1..Len(K) + Len(Q) /\ ~(Len(K) + i <= Len(K)) /\ (Len(K) + i) - Len(K) = i
      BY <1>6, <1>7, <2>1
    <3> QED
      BY <2>1, <2>2, <2>3, <3>1
  <2> QED
    BY <2>1, <2>2, <2>3, <2>4, <2>5
<1>10. pipe'[s] = P1 /\ kept'[s] = K1 /\ cut'[s] = (cut[s] \/ x) /\ wrote'[s] = W
  BY <1>1, <1>2 DEF OutTypeOK, W
<1>11. Got(s)' = r + n
  <2>1. Got(s)' = Len(W) - Len(P1)
    BY <1>10 DEF Got
  <2> QED
    BY <1>4, <1>6, <1>8, <2>1
<1>12. OutTypeOK'
  BY <1>1, <1>2, <1>7, <1>8, <1>9 DEF OutTypeOK
<1>13. Flow(s)'
  <2>1. \A i \in 1..Len(P1) : P1[i] = W[(r + n) + i]
    <3> SUFFICES ASSUME NEW i \in 1..Len(P1) PROVE P1[i] = W[(r + n) + i]
      OBVIOUS
    <3>1. n + i \in 1..Len(P) /\ r + (n + i) = (r + n) + i
      BY <1>2, <1>4, <1>6, <1>8
    <3>2. P[n + i] = W[r + (n + i)]
      BY <1>4, <3>1
    <3> QED
      BY <1>8, <3>1, <3>2
  <2>2. \A i \in 1..Len(K1) : K1[i] = W[i]
    <3> SUFFICES ASSUME NEW i \in 1..Len(K1), i \notin 1..Len(K) PROVE K1[i] = W[i]
      BY <1>4, <1>9
    <3> DEFINE j == i - Len(K)
    <3>1. j \in 1..t /\ i = Len(K) + j /\ Len(K) = r
      BY <1>6, <1>7, <1>9
    <3> HIDE DEF j
    <3>2. P[j] = W[r + j]
      BY <1>4, <1>6, <1>7, <3>1
    <3> QED
      BY <1>9, <3>1, <3>2
  <2>3. r + n \in Nat
    BY <1>4, <1>6
  <2>4. Len(K1) = Least(Limit, r + n)
    BY <1>7, <1>9
  <2>5. \A i \in 1..Len(pipe'[s]) : pipe'[s][i] = wrote'[s][Got(s)' + i]
    BY <1>10, <1>11, <2>1
  <2> QED
    BY <1>7, <1>10, <1>11, <2>2, <2>3, <2>4, <2>5 DEF Flow
<1>14. \A u \in Streams : Flow(u)'
  <2> SUFFICES ASSUME NEW u \in Streams, u # s PROVE Flow(u)'
    BY <1>13
  <2>1. wrote'[u] = wrote[u] /\ pipe'[u] = pipe[u] /\ kept'[u] = kept[u] /\ cut'[u] = cut[u] /\ Flow(u)
    BY <1>1, <1>2 DEF OutTypeOK
  <2>2. Got(u)' = Got(u)
    BY <2>1 DEF Got
  <2> QED
    BY <2>1, <2>2 DEF Flow
<1>15. \A u \in Streams : Drained(u)'
  <2> SUFFICES ASSUME NEW u \in Streams PROVE Drained(u)'
    OBVIOUS
  <2>1. u # s => pipe'[u] = pipe[u]
    BY <1>1, <1>2 DEF OutTypeOK
  <2> QED
    BY <1>1, <1>2, <2>1 DEF Drained
<1>16. said' # Nothing => eof' = Streams
  BY <1>2 DEF OutInv
<1> QED
  BY <1>12, <1>14, <1>15, <1>16 DEF OutInv

LEMMA FreshOut ==
  ASSUME prints' \in Printed, wrote' = Unread, pipe' = Unread, kept' = Unread,
         cut' = [s \in Streams |-> FALSE], eof' = {}, said' = Nothing
  PROVE  OutInv'
<1>1. OutTypeOK'
  <2>1. prints' \in [Streams -> Seq(Glyphs)]
    BY OutputAssumption
  <2> QED
    BY <2>1 DEF OutTypeOK, Unread
<1>2. ASSUME NEW s \in Streams PROVE Flow(s)' /\ Drained(s)'
  <2>1. wrote'[s] = <<>> /\ pipe'[s] = <<>> /\ kept'[s] = <<>> /\ cut'[s] = FALSE /\ eof' = {}
    BY DEF Unread
  <2>2. Got(s)' = 0 /\ Least(Limit, 0) = 0 /\ ~(0 > Limit) /\ Limit \in Nat
    BY <2>1, OutputAssumption DEF Got, Least
  <2> QED
    BY <2>1, <2>2 DEF Flow, Drained
<1> QED
  BY <1>1, <1>2 DEF OutInv

\* Every other step leaves the streams as they are or starts afresh.
LEMMA OutKeeps ==
  ASSUME OutInv, [OutNext]_outVars
  PROVE  OutInv'
<1>1. CASE \E s \in Streams : Emit(s)
  BY <1>1, EmitKeeps
<1>2. CASE \E s \in Streams : \E n \in 1..Chunk : ReadSome(s, n)
  BY <1>2, ReadSomeKeeps
<1>3. ASSUME UNCHANGED <<prints, wrote, pipe, kept, cut>>
      PROVE  OutTypeOK' /\ \A s \in Streams : Flow(s)'
  BY <1>3 DEF OutInv, OutTypeOK, Flow, Got
<1>4. CASE \E s \in Streams : ReadEnd(s)
  <2> PICK s \in Streams : ReadEnd(s)
    BY <1>4
  <2>1. /\ UNCHANGED <<prints, wrote, pipe, kept, cut, status, said>> /\ eof' = eof \cup {s}
        /\ \/ status # Running /\ pipe[s] = <<>> /\ failed' = failed
           \/ failed' = TRUE
    BY DEF ReadEnd
  <2>2. \A u \in Streams : Drained(u)'
    BY <2>1 DEF OutInv, Drained
  <2>3. said' # Nothing => eof' = Streams
    BY <2>1 DEF OutInv
  <2> QED
    BY <1>3, <2>1, <2>2, <2>3 DEF OutInv
<1>5. CASE \E code \in {0, 255, 1, -1} : Quit(code)
  <2> PICK code \in {0, 255, 1, -1} : Quit(code)
    BY <1>5
  <2>1. UNCHANGED <<prints, wrote, pipe, kept, cut, eof, failed, said>> /\ status' = code
    BY DEF Quit
  <2>2. status' # Running
    BY <2>1 DEF Running
  <2> QED
    BY <1>3, <2>1, <2>2 DEF OutInv, Drained
<1>6. CASE Take
  BY <1>3, <1>6 DEF Take, OutInv, Drained
<1>7. CASE Anew
  BY <1>7, FreshOut DEF Anew
<1>8. CASE UNCHANGED outVars
  BY <1>3, <1>8 DEF outVars, OutInv, Drained
<1> QED
  BY <1>1, <1>2, <1>4, <1>5, <1>6, <1>7, <1>8 DEF OutNext

LEMMA OutStarts ==
  ASSUME OutInit
  PROVE  OutInv
<1>1. OutTypeOK
  <2>1. prints \in [Streams -> Seq(Glyphs)]
    BY OutputAssumption DEF OutInit
  <2> QED
    BY <2>1 DEF OutInit, OutTypeOK, Unread
<1>2. ASSUME NEW s \in Streams PROVE Flow(s) /\ Drained(s)
  <2>1. wrote[s] = <<>> /\ pipe[s] = <<>> /\ kept[s] = <<>> /\ cut[s] = FALSE /\ eof = {}
    BY DEF OutInit, Unread
  <2>2. Got(s) = 0 /\ Least(Limit, 0) = 0 /\ ~(0 > Limit) /\ Limit \in Nat
    BY <2>1, OutputAssumption DEF Got, Least
  <2> QED
    BY <2>1, <2>2 DEF Flow, Drained
<1> QED
  BY <1>1, <1>2 DEF OutInv, OutInit

LEMMA InvIsCaptured ==
  ASSUME OutInv
  PROVE  Captured
<1> SUFFICES ASSUME said # Nothing, ~failed, NEW s \in Streams
             PROVE  /\ kept[s] = SubSeq(wrote[s], 1, Least(Limit, Len(wrote[s])))
                    /\ cut[s] <=> Len(wrote[s]) > Limit
  BY DEF Captured
<1> DEFINE W == wrote[s]
           K == kept[s]
           n == Least(Limit, Len(W))
<1>1. pipe[s] = <<>> /\ Flow(s) /\ W \in Seq(Glyphs) /\ K \in Seq(Glyphs)
  BY DEF OutInv, Drained, OutTypeOK
<1>2. Got(s) = Len(W) /\ Len(W) \in Nat /\ Limit \in Nat
  BY <1>1, OutputAssumption DEF Got
<1>3. Len(K) = n /\ (\A i \in 1..Len(K) : K[i] = W[i]) /\ (cut[s] <=> Len(W) > Limit)
  BY <1>1, <1>2 DEF Flow
<1> HIDE DEF W, K
<1>4. n \in 0..Len(W)
  BY <1>2 DEF Least
<1> HIDE DEF n
<1>5. SubSeq(W, 1, n) \in Seq(Glyphs) /\ Len(SubSeq(W, 1, n)) = n
      /\ \A i \in 1..n : SubSeq(W, 1, n)[i] = W[i]
  BY <1>1, <1>2, <1>4
<1>6. K = SubSeq(W, 1, n)
  BY <1>1, <1>3, <1>5, SeqEqual
<1> QED
  BY <1>3, <1>6 DEF W, K, n

\* What was captured is what the subprocess printed: once the caller is told
\* and no read failed, each stream's text is its beginning up to the cap, whatever
\* the sizes of the reads and of the pipe, and it is marked as cut exactly when
\* more was written.
THEOREM CaptureIsFaithful == OutSpec => []Captured
<1>1. OutInit => OutInv
  BY OutStarts
<1>2. OutInv /\ [OutNext]_outVars => OutInv'
  BY OutKeeps
<1>3. OutInv => Captured
  BY InvIsCaptured
<1> QED
  BY <1>1, <1>2, <1>3, PTL DEF OutSpec

-----------------------------------------------------------------------------
(* Source: the walk over the declarations *)

LEMMA CountIsNat ==
  ASSUME NEW its, NEW kind, NEW m \in Nat, NEW n \in Nat
  PROVE  /\ Between(its, kind, m, n) \in Nat
         /\ IsFiniteSet({k \in m + 1..n - 1 : its[k].kind = kind})
<1>1. IsFiniteSet(m + 1..n - 1)
  BY FS_Interval
<1>2. IsFiniteSet({k \in m + 1..n - 1 : its[k].kind = kind})
  BY <1>1, FS_Subset
<1> QED
  BY <1>2, FS_CardinalityType DEF Between

\* What lies before an item does not change when more items come.
LEMMA CountKeeps ==
  ASSUME NEW S, NEW its \in Seq(S), NEW x \in S, NEW kind, NEW m \in Nat, NEW n \in Nat,
         n <= Len(its) + 1
  PROVE  Between(Append(its, x), kind, m, n) = Between(its, kind, m, n)
<1>1. \A k \in m + 1..n - 1 : Append(its, x)[k] = its[k]
  BY AppendProperties
<1>2. {k \in m + 1..n - 1 : Append(its, x)[k].kind = kind} = {k \in m + 1..n - 1 : its[k].kind = kind}
  BY <1>1
<1> QED
  BY <1>2 DEF Between

LEMMA CountGrows ==
  ASSUME NEW S, NEW its \in Seq(S), NEW x \in S, NEW kind, NEW m \in Nat, m <= Len(its)
  PROVE  Between(Append(its, x), kind, m, Len(its) + 2) =
           Between(its, kind, m, Len(its) + 1) + (IF x.kind = kind THEN 1 ELSE 0)
<1> DEFINE N == Len(its)
           new == Append(its, x)
           A == {k \in m + 1..N : its[k].kind = kind}
           B == {k \in m + 1..N + 1 : new[k].kind = kind}
<1>1. N \in Nat /\ new[N + 1] = x /\ \A k \in m + 1..N : new[k] = its[k]
  BY AppendProperties
<1>2. m + 1..N + 1 = (m + 1..N) \cup {N + 1} /\ N + 1 \notin m + 1..N
  BY <1>1
<1>3. B = A \cup (IF x.kind = kind THEN {N + 1} ELSE {}) /\ N + 1 \notin A
  <2> HIDE DEF N, new
  <2> QED
    BY <1>1, <1>2
<1>4. (N + 1) - 1 = N /\ (N + 2) - 1 = N + 1
  BY <1>1
<1>5. Between(its, kind, m, N + 1) = Cardinality(A) /\ Between(new, kind, m, N + 2) = Cardinality(B)
  BY <1>4 DEF Between
<1>6. IsFiniteSet(A) /\ Cardinality(A) \in Nat
  <2>1. A \subseteq m + 1..N
    OBVIOUS
  <2> HIDE DEF A, N
  <2>2. m + 1 \in Int /\ N \in Int
    BY <1>1
  <2>3. IsFiniteSet(m + 1..N)
    BY <2>2, FS_Interval
  <2>4. IsFiniteSet(A)
    BY <2>1, <2>3, FS_Subset
  <2> QED
    BY <2>4, FS_CardinalityType
<1>7. Cardinality(B) = Cardinality(A) + (IF x.kind = kind THEN 1 ELSE 0)
  <2> HIDE DEF A, B
  <2>1. CASE x.kind = kind
    BY <1>3, <1>6, <2>1, FS_AddElement
  <2>2. CASE x.kind # kind
    BY <1>3, <1>6, <2>2
  <2> QED
    BY <2>1, <2>2
<1> QED
  BY <1>5, <1>7

LEMMA AroundKeeps ==
  ASSUME NEW S, NEW its \in Seq(S), NEW x \in S, NEW at \in Nat, at <= Len(its) + 1
  PROVE  /\ Around(Append(its, x), at) = Around(its, at)
         /\ ScopeIn(Append(its, x), at) = ScopeIn(its, at)
<1>1. ASSUME NEW m \in 1..at - 1
      PROVE  /\ Append(its, x)[m] = its[m]
             /\ \A n \in m + 1..at, kind \in {"leave", "module"} :
                  Between(Append(its, x), kind, m, n) = Between(its, kind, m, n)
  <2>1. Append(its, x)[m] = its[m]
    BY AppendProperties
  <2>2. ASSUME NEW n \in m + 1..at, NEW kind \in {"leave", "module"}
        PROVE  Between(Append(its, x), kind, m, n) = Between(its, kind, m, n)
    BY CountKeeps
  <2> QED
    BY <2>1, <2>2
<1>2. Around(Append(its, x), at) = Around(its, at)
  BY <1>1 DEF Around
<1> QED
  BY <1>2 DEF ScopeIn

\* The scopes that are open after some items: the positions of their modules,
\* outermost first and 0 for the text itself.
Nested(its, pos) ==
  /\ pos \in Seq(Nat) /\ Len(pos) > 0 /\ pos[1] = 0
  /\ \A i, k \in DOMAIN pos : i < k => pos[i] < pos[k]
  /\ \A k \in DOMAIN pos : pos[k] <= Len(its)
  /\ Around(its, Len(its) + 1) = {pos[k] : k \in DOMAIN pos \ {1}}
  /\ \A k \in DOMAIN pos \ {1} :
       Between(its, "module", pos[k], Len(its) + 1) =
         Between(its, "leave", pos[k], Len(its) + 1) + (Len(pos) - k)

\* The next item is in the innermost of them.
LEMMA NestedScope ==
  ASSUME NEW its, NEW pos, Nested(its, pos)
  PROVE  ScopeIn(its, Len(its) + 1) = pos[Len(pos)]
<1> DEFINE inner == Around(its, Len(its) + 1)
           last == Len(pos)
<1>1. /\ pos \in Seq(Nat) /\ last \in Nat /\ last > 0 /\ pos[1] = 0 /\ DOMAIN pos = 1..last
      /\ \A i, k \in DOMAIN pos : i < k => pos[i] < pos[k]
      /\ inner = {pos[k] : k \in DOMAIN pos \ {1}}
  BY DEF Nested
<1>2. CASE last = 1
  <2>1. inner = {}
    BY <1>1, <1>2
  <2> QED
    BY <1>1, <1>2, <2>1 DEF ScopeIn
<1>3. CASE last > 1
  <2>1. last \in DOMAIN pos \ {1}
    BY <1>1, <1>3
  <2>2. pos[last] \in inner
    BY <1>1, <2>1
  <2>3. ASSUME NEW k \in inner PROVE k <= pos[last] /\ k \in Nat
    <3>1. PICK i \in DOMAIN pos : k = pos[i]
      BY <1>1, <2>3
    <3>2. i = last \/ i < last
      BY <1>1, <3>1
    <3>3. pos[i] \in Nat /\ pos[last] \in Nat
      BY <1>1, <2>1, <3>1
    <3> QED
      BY <1>1, <2>1, <3>1, <3>2, <3>3
  <2> HIDE DEF inner, last
  <2>4. \A m \in inner : (\A k \in inner : k <= m) => m = pos[last]
    BY <2>2, <2>3
  <2>5. pos[last] = CHOOSE m \in inner : \A k \in inner : k <= m
    BY <2>2, <2>3, <2>4
  <2>6. ScopeIn(its, Len(its) + 1) =
          IF inner = {} THEN 0 ELSE CHOOSE m \in inner : \A k \in inner : k <= m
    BY DEF ScopeIn, inner
  <2>7. inner # {}
    BY <2>2
  <2> QED
    BY <2>5, <2>6, <2>7 DEF last
<1> QED
  BY <1>1, <1>2, <1>3

\* How the modules around the next item follow from those around this one.
LEMMA AroundGrows ==
  ASSUME NEW S, NEW its \in Seq(S), NEW x \in S
  PROVE  LET N == Len(its)
             new == Append(its, x)
         IN  /\ Around(new, N + 2) \subseteq 1..N + 1 /\ Around(its, N + 1) \subseteq 1..N
             /\ \A m \in 1..N : m \in Around(new, N + 2) <=>
                  /\ m \in Around(its, N + 1)
                  /\ Between(new, "leave", m, N + 2) <= Between(new, "module", m, N + 2)
             /\ N + 1 \in Around(new, N + 2) <=> x.kind = "module"
             /\ \A m \in 0..N, kind \in {"module", "leave"} :
                  /\ Between(its, kind, m, N + 1) \in Nat
                  /\ Between(new, kind, m, N + 2) =
                       Between(its, kind, m, N + 1) + (IF x.kind = kind THEN 1 ELSE 0)
<1> DEFINE N == Len(its)
           new == Append(its, x)
<1>1. /\ N \in Nat /\ N + 1 \in Nat /\ N + 2 \in Nat /\ (N + 2) - 1 = N + 1 /\ (N + 1) - 1 = N
      /\ new[N + 1] = x /\ \A k \in 1..N : new[k] = its[k]
  BY AppendProperties
<1>2. ASSUME NEW m \in 0..N, NEW kind \in {"module", "leave"}
      PROVE  /\ Between(its, kind, m, N + 1) \in Nat
             /\ Between(new, kind, m, N + 2) =
                  Between(its, kind, m, N + 1) + (IF x.kind = kind THEN 1 ELSE 0)
  <2>1. m \in Nat /\ m <= N
    BY <1>1
  <2>2. Between(its, kind, m, N + 1) \in Nat
    BY <1>1, <2>1, CountIsNat
  <2>3. Between(new, kind, m, N + 2) = Between(its, kind, m, N + 1) + (IF x.kind = kind THEN 1 ELSE 0)
    BY <2>1, CountGrows
  <2> QED
    BY <2>2, <2>3
<1>3. Around(new, N + 2) \subseteq 1..N + 1 /\ Around(its, N + 1) \subseteq 1..N
  BY <1>1 DEF Around
<1>4. ASSUME NEW m \in 1..N
      PROVE  m \in Around(new, N + 2) <=>
               /\ m \in Around(its, N + 1)
               /\ Between(new, "leave", m, N + 2) <= Between(new, "module", m, N + 2)
  <2>1. /\ m + 1..N + 2 = (m + 1..N + 1) \cup {N + 2} /\ m \in Nat
        /\ m \in 1..(N + 2) - 1 /\ m \in 1..(N + 1) - 1
    BY <1>1
  <2>2. ASSUME NEW n \in m + 1..N + 1, NEW kind \in {"module", "leave"}
        PROVE  Between(new, kind, m, n) = Between(its, kind, m, n)
    <3>1. n \in Nat /\ n <= N + 1
      BY <1>1
    <3> QED
      BY <2>1, <3>1, CountKeeps
  <2>3. new[m] = its[m]
    BY <1>1
  <2> HIDE DEF N, new
  <2> QED
    BY <2>1, <2>2, <2>3 DEF Around
<1>5. N + 1 \in Around(new, N + 2) <=> x.kind = "module"
  <2>1. N + 1 \in 1..(N + 2) - 1 /\ \A n \in (N + 1) + 1..N + 2 : n = N + 2
    BY <1>1
  <2>2. Between(new, "leave", N + 1, N + 2) = 0 /\ Between(new, "module", N + 1, N + 2) = 0
    <3>1. (N + 1) + 1..(N + 2) - 1 = {}
      BY <1>1
    <3> HIDE DEF N, new
    <3> QED
      BY <3>1, FS_EmptySet DEF Between
  <2>3. \A n \in (N + 1) + 1..N + 2 : Between(new, "leave", N + 1, n) <= Between(new, "module", N + 1, n)
    <3>1. 0 <= 0
      OBVIOUS
    <3> HIDE DEF N, new
    <3> QED
      BY <2>1, <2>2, <3>1
  <2>4. new[N + 1].kind = x.kind
    BY <1>1
  <2> HIDE DEF N, new
  <2> QED
    BY <2>1, <2>3, <2>4 DEF Around
<1> QED
  BY <1>2, <1>3, <1>4, <1>5

\* An item that is neither a module nor the end of one,
LEMMA NestedStays ==
  ASSUME NEW S, NEW its \in Seq(S), NEW x \in S, NEW pos, Nested(its, pos),
         x.kind \notin {"module", "leave"}
  PROVE  Nested(Append(its, x), pos)
<1> DEFINE N == Len(its)
           new == Append(its, x)
<1>1. /\ N \in Nat /\ Len(new) = N + 1 /\ Len(new) + 1 = N + 2
      /\ pos \in Seq(Nat) /\ DOMAIN pos = 1..Len(pos) /\ Len(pos) \in Nat
      /\ \A k \in DOMAIN pos : pos[k] \in 0..N
  BY AppendProperties DEF Nested
<1>2. /\ Around(new, N + 2) \subseteq 1..N + 1 /\ Around(its, N + 1) \subseteq 1..N
      /\ \A m \in 1..N : m \in Around(new, N + 2) <=>
           /\ m \in Around(its, N + 1)
           /\ Between(new, "leave", m, N + 2) <= Between(new, "module", m, N + 2)
      /\ N + 1 \notin Around(new, N + 2)
      /\ \A m \in 0..N, kind \in {"module", "leave"} :
           /\ Between(its, kind, m, N + 1) \in Nat
           /\ Between(new, kind, m, N + 2) = Between(its, kind, m, N + 1)
  BY AroundGrows
<1> HIDE DEF N, new
<1>3. Around(its, N + 1) = {pos[k] : k \in DOMAIN pos \ {1}}
  BY DEF Nested, N
<1>4. \A k \in DOMAIN pos \ {1} :
       Between(new, "module", pos[k], N + 2) = Between(new, "leave", pos[k], N + 2) + (Len(pos) - k)
  BY <1>1, <1>2 DEF Nested, N
<1>5. ASSUME NEW m \in Around(its, N + 1)
      PROVE  Between(new, "leave", m, N + 2) <= Between(new, "module", m, N + 2)
  <2>1. PICK k \in DOMAIN pos \ {1} : m = pos[k]
    BY <1>3
  <2>2. Len(pos) - k \in Nat /\ Between(new, "leave", m, N + 2) \in Nat
    BY <1>1, <1>2, <2>1
  <2> QED
    BY <1>4, <2>1, <2>2
<1>6. Around(new, N + 2) = Around(its, N + 1)
  <2>1. \A m \in 1..N + 1 : m \in 1..N \/ m = N + 1
    BY <1>1
  <2> QED
    BY <1>2, <1>5, <2>1
<1> QED
  BY <1>1, <1>3, <1>4, <1>6 DEF Nested, N, new

\* a module,
LEMMA NestedEnters ==
  ASSUME NEW S, NEW its \in Seq(S), NEW x \in S, NEW pos, Nested(its, pos), x.kind = "module"
  PROVE  Nested(Append(its, x), Append(pos, Len(its) + 1))
<1> DEFINE N == Len(its)
           new == Append(its, x)
           last == Len(pos)
           deep == Append(pos, N + 1)
<1>1. /\ N \in Nat /\ Len(new) = N + 1 /\ Len(new) + 1 = N + 2
      /\ pos \in Seq(Nat) /\ DOMAIN pos = 1..last /\ last \in Nat /\ last > 0 /\ pos[1] = 0
      /\ \A k \in DOMAIN pos : pos[k] \in 0..N
      /\ \A i, k \in DOMAIN pos : i < k => pos[i] < pos[k]
  BY AppendProperties DEF Nested
<1>2. /\ Around(new, N + 2) \subseteq 1..N + 1 /\ Around(its, N + 1) \subseteq 1..N
      /\ \A m \in 1..N : m \in Around(new, N + 2) <=>
           /\ m \in Around(its, N + 1)
           /\ Between(new, "leave", m, N + 2) <= Between(new, "module", m, N + 2)
      /\ N + 1 \in Around(new, N + 2)
      /\ \A m \in 0..N :
           /\ Between(its, "module", m, N + 1) \in Nat /\ Between(its, "leave", m, N + 1) \in Nat
           /\ Between(new, "module", m, N + 2) = Between(its, "module", m, N + 1) + 1
           /\ Between(new, "leave", m, N + 2) = Between(its, "leave", m, N + 1)
  <2>1. "module" # "leave"
    OBVIOUS
  <2> QED
    BY <2>1, AroundGrows
<1>3. /\ deep \in Seq(Nat) /\ Len(deep) = last + 1 /\ DOMAIN deep = 1..last + 1
      /\ deep[last + 1] = N + 1 /\ \A k \in 1..last : deep[k] = pos[k]
  <2>1. N + 1 \in Nat
    BY <1>1
  <2> QED
    BY <1>1, <2>1, AppendProperties
<1> HIDE DEF N, new, last, deep
<1>4. Around(its, N + 1) = {pos[k] : k \in DOMAIN pos \ {1}}
  BY DEF Nested, N
<1>5. \A k \in DOMAIN pos \ {1} :
       Between(new, "module", pos[k], N + 2) = Between(new, "leave", pos[k], N + 2) + (Len(deep) - k)
  <2> SUFFICES ASSUME NEW k \in DOMAIN pos \ {1}
               PROVE  Between(new, "module", pos[k], N + 2) =
                        Between(new, "leave", pos[k], N + 2) + (Len(deep) - k)
    OBVIOUS
  <2> DEFINE entered == Between(its, "module", pos[k], N + 1)
             left == Between(its, "leave", pos[k], N + 1)
  <2>1. entered = left + (last - k)
    BY DEF Nested, N, last
  <2>2. pos[k] \in 0..N
    BY <1>1
  <2>3. /\ entered \in Nat /\ left \in Nat
        /\ Between(new, "module", pos[k], N + 2) = entered + 1
        /\ Between(new, "leave", pos[k], N + 2) = left
    BY <1>2, <2>2
  <2>4. k \in Nat /\ last \in Nat /\ Len(deep) = last + 1
    BY <1>1, <1>3
  <2> HIDE DEF entered, left
  <2> QED
    BY <2>1, <2>3, <2>4
<1>6. Between(new, "module", N + 1, N + 2) = 0 /\ Between(new, "leave", N + 1, N + 2) = 0
  <2>1. (N + 1) + 1..(N + 2) - 1 = {}
    BY <1>1
  <2> QED
    BY <2>1, FS_EmptySet DEF Between
<1>7. \A k \in DOMAIN deep \ {1} :
       Between(new, "module", deep[k], N + 2) = Between(new, "leave", deep[k], N + 2) + (Len(deep) - k)
  <2> SUFFICES ASSUME NEW k \in DOMAIN deep \ {1}
               PROVE  Between(new, "module", deep[k], N + 2) =
                        Between(new, "leave", deep[k], N + 2) + (Len(deep) - k)
    OBVIOUS
  <2>1. CASE k = last + 1
    BY <1>1, <1>3, <1>6, <2>1
  <2>2. CASE k # last + 1
    <3>1. k \in DOMAIN pos \ {1} /\ deep[k] = pos[k]
      BY <1>1, <1>3, <2>2
    <3> QED
      BY <1>5, <3>1
  <2> QED
    BY <2>1, <2>2
<1>8. ASSUME NEW m \in Around(its, N + 1)
      PROVE  Between(new, "leave", m, N + 2) <= Between(new, "module", m, N + 2)
  <2>1. PICK k \in DOMAIN pos \ {1} : m = pos[k]
    BY <1>4
  <2>2. Len(deep) - k \in Nat
    <3>1. k \in 1..last /\ last \in Nat /\ Len(deep) = last + 1
      BY <1>1, <1>3
    <3> QED
      BY <3>1
  <2>3. Between(new, "leave", m, N + 2) \in Nat
    <3>1. m \in 0..N
      BY <1>1, <2>1
    <3> QED
      BY <1>2, <3>1
  <2>4. Between(new, "module", m, N + 2) = Between(new, "leave", m, N + 2) + (Len(deep) - k)
    BY <1>5, <2>1
  <2> QED
    BY <2>2, <2>3, <2>4
<1>9. Around(new, N + 2) = Around(its, N + 1) \cup {N + 1}
  <2>1. \A m \in 1..N + 1 : m \in 1..N \/ m = N + 1
    BY <1>1
  <2> QED
    BY <1>2, <1>8, <2>1
<1>10. Around(new, N + 2) = {deep[k] : k \in DOMAIN deep \ {1}}
  <2>1. DOMAIN deep \ {1} = (DOMAIN pos \ {1}) \cup {last + 1}
    BY <1>1, <1>3
  <2>2. {deep[k] : k \in DOMAIN deep \ {1}} = {pos[k] : k \in DOMAIN pos \ {1}} \cup {N + 1}
    BY <1>1, <1>3, <2>1
  <2> QED
    BY <1>4, <1>9, <2>2
<1>11. /\ \A i, k \in DOMAIN deep : i < k => deep[i] < deep[k]
       /\ \A k \in DOMAIN deep : deep[k] <= N + 1
       /\ deep[1] = 0 /\ Len(deep) > 0
  <2>1. ASSUME NEW k \in DOMAIN deep
        PROVE  deep[k] <= N + 1 /\ (k \in 1..last \/ k = last + 1)
    <3>1. k \in 1..last \/ k = last + 1
      BY <1>1, <1>3
    <3>2. k \in 1..last => deep[k] \in 0..N
      BY <1>1, <1>3
    <3> QED
      BY <1>1, <1>3, <3>1, <3>2
  <2>2. ASSUME NEW i \in DOMAIN deep, NEW k \in DOMAIN deep, i < k PROVE deep[i] < deep[k]
    <3>1. i \in 1..last
      BY <1>1, <1>3, <2>2
    <3>2. CASE k \in 1..last
      BY <1>1, <1>3, <2>2, <3>1, <3>2
    <3>3. CASE k = last + 1
      <4>1. deep[i] = pos[i] /\ deep[k] = N + 1 /\ pos[i] \in 0..N
        BY <1>1, <1>3, <3>1, <3>3
      <4> QED
        BY <1>1, <4>1
    <3> QED
      BY <2>1, <3>2, <3>3
  <2>3. 1 \in 1..last
    BY <1>1
  <2>4. deep[1] = 0 /\ Len(deep) > 0
    <3>1. deep[1] = pos[1]
      BY <1>3, <2>3
    <3> QED
      BY <1>1, <1>3, <3>1
  <2> QED
    BY <2>1, <2>2, <2>4
<1> QED
  BY <1>1, <1>3, <1>7, <1>10, <1>11 DEF Nested, new, deep, N

\* the end of a module.
LEMMA NestedLeaves ==
  ASSUME NEW S, NEW its \in Seq(S), NEW x \in S, NEW pos, Nested(its, pos), x.kind = "leave",
         Len(pos) > 1
  PROVE  Nested(Append(its, x), SubSeq(pos, 1, Len(pos) - 1))
<1> DEFINE N == Len(its)
           new == Append(its, x)
           last == Len(pos)
           out == SubSeq(pos, 1, last - 1)
<1>1. /\ N \in Nat /\ Len(new) = N + 1 /\ Len(new) + 1 = N + 2
      /\ pos \in Seq(Nat) /\ DOMAIN pos = 1..last /\ last \in Nat /\ last > 1 /\ pos[1] = 0
      /\ \A k \in DOMAIN pos : pos[k] \in 0..N
      /\ \A i, k \in DOMAIN pos : i < k => pos[i] < pos[k]
  BY AppendProperties DEF Nested
<1>2. /\ Around(new, N + 2) \subseteq 1..N + 1 /\ Around(its, N + 1) \subseteq 1..N
      /\ \A m \in 1..N : m \in Around(new, N + 2) <=>
           /\ m \in Around(its, N + 1)
           /\ Between(new, "leave", m, N + 2) <= Between(new, "module", m, N + 2)
      /\ N + 1 \notin Around(new, N + 2)
      /\ \A m \in 0..N :
           /\ Between(its, "module", m, N + 1) \in Nat /\ Between(its, "leave", m, N + 1) \in Nat
           /\ Between(new, "module", m, N + 2) = Between(its, "module", m, N + 1)
           /\ Between(new, "leave", m, N + 2) = Between(its, "leave", m, N + 1) + 1
  <2>1. "module" # "leave"
    OBVIOUS
  <2> QED
    BY <2>1, AroundGrows
<1>3. /\ out \in Seq(Nat) /\ Len(out) = last - 1 /\ DOMAIN out = 1..last - 1
      /\ \A k \in 1..last - 1 : out[k] = pos[k]
  BY <1>1, SubSeqProperties
<1> HIDE DEF N, new, last, out
<1>4. Around(its, N + 1) = {pos[k] : k \in DOMAIN pos \ {1}}
  BY DEF Nested, N
<1>5. \A k \in DOMAIN pos \ {1} :
       Between(new, "module", pos[k], N + 2) + 1 = Between(new, "leave", pos[k], N + 2) + (last - k)
  BY <1>1, <1>2 DEF Nested, N, last
<1>6. ASSUME NEW k \in DOMAIN pos \ {1}
      PROVE  Between(new, "leave", pos[k], N + 2) <= Between(new, "module", pos[k], N + 2) <=> k < last
  <2>1. Between(new, "leave", pos[k], N + 2) \in Nat /\ Between(new, "module", pos[k], N + 2) \in Nat
    BY <1>1, <1>2
  <2> QED
    BY <1>1, <1>5, <2>1
<1>7. Around(new, N + 2) = {out[k] : k \in DOMAIN out \ {1}}
  <2>1. ASSUME NEW m \in Around(new, N + 2) PROVE m \in {out[k] : k \in DOMAIN out \ {1}}
    <3>1. m \in 1..N
      BY <1>1, <1>2, <2>1
    <3>2. PICK k \in DOMAIN pos \ {1} : m = pos[k]
      BY <1>2, <1>4, <2>1, <3>1
    <3>3. k < last
      BY <1>2, <1>6, <2>1, <3>1, <3>2
    <3>4. k \in DOMAIN out \ {1} /\ out[k] = pos[k]
      <4>1. k \in 1..last /\ k # 1 /\ last \in Nat
        BY <1>1, <3>2
      <4>2. k \in 1..last - 1
        BY <3>3, <4>1
      <4> QED
        BY <1>3, <4>1, <4>2
    <3> QED
      BY <3>2, <3>4
  <2>2. ASSUME NEW k \in DOMAIN out \ {1} PROVE out[k] \in Around(new, N + 2)
    <3>1. k \in DOMAIN pos \ {1} /\ k < last /\ out[k] = pos[k]
      BY <1>1, <1>3
    <3>2. pos[k] \in Around(its, N + 1) /\ pos[k] \in 1..N
      BY <1>2, <1>4, <3>1
    <3> QED
      BY <1>2, <1>6, <3>1, <3>2
  <2> QED
    BY <2>1, <2>2
<1>8. \A k \in DOMAIN out \ {1} :
       Between(new, "module", out[k], N + 2) = Between(new, "leave", out[k], N + 2) + (Len(out) - k)
  <2> SUFFICES ASSUME NEW k \in DOMAIN out \ {1}
               PROVE  Between(new, "module", out[k], N + 2) =
                        Between(new, "leave", out[k], N + 2) + (Len(out) - k)
    OBVIOUS
  <2>1. k \in DOMAIN pos \ {1} /\ out[k] = pos[k] /\ k \in Nat
    BY <1>1, <1>3
  <2> DEFINE entered == Between(new, "module", pos[k], N + 2)
             left == Between(new, "leave", pos[k], N + 2)
  <2>2. entered \in Nat /\ left \in Nat
    <3>1. pos[k] \in 0..N
      BY <1>1, <2>1
    <3>2. Between(its, "leave", pos[k], N + 1) + 1 \in Nat
      BY <1>2, <3>1
    <3> QED
      BY <1>2, <3>1, <3>2
  <2>3. entered + 1 = left + (last - k)
    BY <1>5, <2>1
  <2>4. last \in Nat /\ Len(out) = last - 1
    BY <1>1, <1>3
  <2> HIDE DEF entered, left
  <2>5. entered = left + (Len(out) - k)
    BY <2>1, <2>2, <2>3, <2>4
  <2> QED
    BY <2>1, <2>5 DEF entered, left
<1>9. /\ \A i, k \in DOMAIN out : i < k => out[i] < out[k]
      /\ \A k \in DOMAIN out : out[k] <= N + 1
      /\ out[1] = 0 /\ Len(out) > 0
  <2>1. \A k \in DOMAIN out : k \in DOMAIN pos /\ out[k] = pos[k]
    BY <1>1, <1>3
  <2>2. 1 \in 1..last - 1 /\ last - 1 > 0
    BY <1>1
  <2>3. out[1] = 0 /\ Len(out) > 0
    BY <1>1, <1>3, <2>2
  <2>4. ASSUME NEW k \in DOMAIN out PROVE out[k] <= N + 1
    <3>1. out[k] \in 0..N
      BY <1>1, <2>1
    <3> QED
      BY <1>1, <3>1
  <2> QED
    BY <1>1, <2>1, <2>3, <2>4
<1> QED
  BY <1>1, <1>3, <1>7, <1>8, <1>9 DEF Nested, new, out, last

-----------------------------------------------------------------------------
(* Source: what has been put out *)

Item ==
  [kind : {"decl", "module"}, name : Names, exported : BOOLEAN]
    \cup [kind : {"export"}, names : SUBSET Names] \cup [kind : {"leave"}]
Frame == [path : Seq(Names), exports : SUBSET Names, local : SUBSET Nat]
Symbol == [name : Names, exported : BOOLEAN, module : Seq(Names), at : Nat]

DeclaredIn(its) == {i \in DOMAIN its : its[i].kind \in {"decl", "module"}}

\* A list of the scope names it.
Listed(its, name, scope) ==
  \E j \in DOMAIN its :
    its[j].kind = "export" /\ ScopeIn(its, j) = scope /\ name \in its[j].names

\* An open scope knows its own declarations, and what its lists name.
FrameRight(its, sy, frame, k, at) ==
  /\ Len(frame.path) = k - 1
  /\ k > 1 => Last(frame.path) = its[at].name
  /\ frame.local = {i \in DOMAIN sy : ScopeIn(its, sy[i].at) = at}
  /\ \A name \in Names : name \in frame.exports <=> Listed(its, name, at)

\* A symbol is its declaration's, in the module around it; a list of its scope
\* marks it once the scope is left, not before.
SymbolRight(its, symbol, open) ==
  LET at == symbol.at
  IN  /\ at \in DeclaredIn(its) /\ symbol.name = its[at].name
      /\ Len(symbol.module) > 0 <=> ScopeIn(its, at) # 0
      /\ ScopeIn(its, at) # 0 => Last(symbol.module) = its[ScopeIn(its, at)].name
      /\ symbol.exported <=>
           \/ its[at].exported
           \/ ScopeIn(its, at) \notin open /\ Listed(its, its[at].name, ScopeIn(its, at))

InOrder(its, sy) ==
  /\ Len(sy) = Cardinality(DeclaredIn(its))
  /\ \A i \in DOMAIN sy : i > 1 => sy[i - 1].at < sy[i].at

OpenIn(pos) == {pos[k] : k \in DOMAIN pos}

Inside(its) == \A at \in DOMAIN its : ScopeIn(its, at) \in 0..at - 1

Walked(its, fs, sy, pos) ==
  /\ its \in Seq(Item) /\ fs \in Seq(Frame) /\ sy \in Seq(Symbol)
  /\ Nested(its, pos) /\ Len(pos) = Len(fs) /\ Inside(its)
  /\ \A k \in DOMAIN pos : FrameRight(its, sy, fs[k], k, pos[k])
  /\ \A i \in DOMAIN sy : SymbolRight(its, sy[i], OpenIn(pos))
  /\ InOrder(its, sy)

\* What is known once one more item was seen.
LEMMA SeesMore ==
  ASSUME NEW its \in Seq(Item), NEW x \in Item
  PROVE  LET new == Append(its, x)
         IN  /\ new \in Seq(Item) /\ Len(its) \in Nat
             /\ DOMAIN its = 1..Len(its) /\ DOMAIN new = DOMAIN its \cup {Len(its) + 1}
             /\ Len(its) + 1 \notin DOMAIN its
             /\ \A i \in DOMAIN its : new[i] = its[i] /\ ScopeIn(new, i) = ScopeIn(its, i)
             /\ new[Len(its) + 1] = x /\ ScopeIn(new, Len(its) + 1) = ScopeIn(its, Len(its) + 1)
<1> DEFINE new == Append(its, x)
<1>1. /\ new \in Seq(Item) /\ Len(new) = Len(its) + 1 /\ new[Len(its) + 1] = x
      /\ \A i \in 1..Len(its) : new[i] = its[i]
      /\ Len(its) \in Nat /\ DOMAIN its = 1..Len(its)
  BY AppendProperties
<1>2. DOMAIN new = 1..Len(its) + 1
  BY <1>1
<1>3. /\ 1..Len(its) + 1 = (1..Len(its)) \cup {Len(its) + 1} /\ Len(its) + 1 \notin 1..Len(its)
      /\ \A i \in 1..Len(its) + 1 : i \in Nat /\ i <= Len(its) + 1
      /\ Len(its) + 1 \in 1..Len(its) + 1
  BY <1>1
<1>4. ASSUME NEW i \in 1..Len(its) + 1 PROVE ScopeIn(new, i) = ScopeIn(its, i)
  BY <1>3, AroundKeeps
<1> QED
  BY <1>1, <1>2, <1>3, <1>4

LEMMA ListedMore ==
  ASSUME NEW its \in Seq(Item), NEW x \in Item, NEW name, NEW scope
  PROVE  Listed(Append(its, x), name, scope) <=>
           \/ Listed(its, name, scope)
           \/ x.kind = "export" /\ ScopeIn(its, Len(its) + 1) = scope /\ name \in x.names
<1> DEFINE n == Len(its) + 1
           new == Append(its, x)
<1>1. /\ DOMAIN new = DOMAIN its \cup {n}
      /\ \A i \in DOMAIN its : new[i] = its[i] /\ ScopeIn(new, i) = ScopeIn(its, i)
      /\ new[n] = x /\ ScopeIn(new, n) = ScopeIn(its, n)
  BY SeesMore
<1> HIDE DEF n, new
<1> QED
  BY <1>1 DEF Listed, n, new

\* A symbol is right after one more item, unless its scope is left with it, or
\* the item is a list of its scope and that was left before.
LEMMA SymbolStays ==
  ASSUME NEW its \in Seq(Item), NEW x \in Item, Inside(its),
         NEW symbol, NEW open, NEW after, SymbolRight(its, symbol, open),
         ScopeIn(its, symbol.at) \in open <=> ScopeIn(its, symbol.at) \in after,
         x.kind = "export" => ScopeIn(its, Len(its) + 1) \in open
  PROVE  SymbolRight(Append(its, x), symbol, after)
<1> DEFINE at == symbol.at
           scope == ScopeIn(its, at)
           name == its[at].name
           new == Append(its, x)
<1>1. /\ Len(its) \in Nat /\ DOMAIN its = 1..Len(its)
      /\ \A j \in DOMAIN its : new[j] = its[j] /\ ScopeIn(new, j) = ScopeIn(its, j)
      /\ DOMAIN its \subseteq DOMAIN new
  BY SeesMore
<1>2. /\ at \in DOMAIN its /\ its[at].kind \in {"decl", "module"} /\ symbol.name = name
      /\ Len(symbol.module) > 0 <=> scope # 0
      /\ scope # 0 => Last(symbol.module) = its[scope].name
      /\ symbol.exported <=> (its[at].exported \/ (scope \notin open /\ Listed(its, name, scope)))
  BY DEF SymbolRight, DeclaredIn
<1>3. scope # 0 => scope \in DOMAIN its
  <2>1. scope \in 0..at - 1 /\ at \in 1..Len(its)
    BY <1>1, <1>2 DEF Inside
  <2> HIDE DEF scope, at
  <2> QED
    BY <1>1, <2>1
<1>4. scope \notin after =>
        (Listed(new, name, scope) <=> Listed(its, name, scope))
  BY ListedMore
<1>5. ScopeIn(new, at) = scope /\ new[at] = its[at]
  BY <1>1, <1>2
<1> HIDE DEF new
<1>6. symbol.exported <=>
        (new[at].exported \/ (ScopeIn(new, at) \notin after /\ Listed(new, new[at].name, ScopeIn(new, at))))
  BY <1>2, <1>4, <1>5
<1>7. at \in DeclaredIn(new) /\ symbol.name = new[at].name
  BY <1>1, <1>2, <1>5 DEF DeclaredIn
<1>8. ScopeIn(new, at) # 0 => Last(symbol.module) = new[ScopeIn(new, at)].name
  BY <1>1, <1>2, <1>3, <1>5
<1> QED
  BY <1>2, <1>5, <1>6, <1>7, <1>8 DEF SymbolRight, new

LEMMA InsideMore ==
  ASSUME NEW its \in Seq(Item), NEW x \in Item, NEW pos, Inside(its), Nested(its, pos)
  PROVE  /\ Inside(Append(its, x)) /\ ScopeIn(its, Len(its) + 1) = pos[Len(pos)]
         /\ pos[Len(pos)] \in 0..Len(its)
<1> DEFINE new == Append(its, x)
           n == Len(its) + 1
<1>1. ScopeIn(its, n) = pos[Len(pos)]
  BY NestedScope
<1>2. pos[Len(pos)] \in 0..Len(its)
  <2>1. pos \in Seq(Nat) /\ Len(pos) \in Nat /\ Len(pos) \in 1..Len(pos) /\ DOMAIN pos = 1..Len(pos)
    BY DEF Nested
  <2>2. pos[Len(pos)] \in Nat /\ pos[Len(pos)] <= Len(its)
    BY <2>1 DEF Nested
  <2> QED
    BY <2>2
<1>3. ScopeIn(its, n) \in 0..n - 1
  BY <1>1, <1>2
<1>4. /\ DOMAIN new = DOMAIN its \cup {n}
      /\ \A i \in DOMAIN its : ScopeIn(new, i) = ScopeIn(its, i)
      /\ ScopeIn(new, n) = ScopeIn(its, n)
  BY SeesMore
<1> HIDE DEF new, n
<1>5. Inside(new)
  BY <1>3, <1>4 DEF Inside
<1> QED
  BY <1>1, <1>2, <1>5 DEF new, n

LEMMA DeclaredMore ==
  ASSUME NEW its \in Seq(Item), NEW x \in Item
  PROVE  LET new == Append(its, x)
         IN  IF x.kind \in {"decl", "module"}
             THEN /\ DeclaredIn(new) = DeclaredIn(its) \cup {Len(its) + 1}
                  /\ Cardinality(DeclaredIn(new)) = Cardinality(DeclaredIn(its)) + 1
             ELSE DeclaredIn(new) = DeclaredIn(its)
<1> DEFINE new == Append(its, x)
           n == Len(its) + 1
<1>1. /\ DOMAIN new = DOMAIN its \cup {n} /\ n \notin DOMAIN its /\ DOMAIN its = 1..Len(its)
      /\ \A i \in DOMAIN its : new[i] = its[i]
      /\ new[n] = x /\ Len(its) \in Nat
  BY SeesMore
<1>2. IsFiniteSet(DeclaredIn(its)) /\ n \notin DeclaredIn(its)
  <2>1. IsFiniteSet(1..Len(its))
    BY <1>1, FS_Interval
  <2> QED
    BY <1>1, <2>1, FS_Subset DEF DeclaredIn
<1> HIDE DEF new, n
<1>3. CASE x.kind \in {"decl", "module"}
  <2>1. DeclaredIn(new) = DeclaredIn(its) \cup {n}
    BY <1>1, <1>3 DEF DeclaredIn
  <2>2. Cardinality(DeclaredIn(new)) = Cardinality(DeclaredIn(its)) + 1
    BY <1>2, <2>1, FS_AddElement
  <2> QED
    BY <1>3, <2>1, <2>2 DEF new, n
<1>4. CASE x.kind \notin {"decl", "module"}
  <2>1. DeclaredIn(new) = DeclaredIn(its)
    BY <1>1, <1>4 DEF DeclaredIn
  <2> QED
    BY <1>4, <2>1 DEF new
<1> QED
  BY <1>3, <1>4

\* The symbols of a scope, after an item and after one more symbol.
LEMMA LocalMore ==
  ASSUME NEW its \in Seq(Item), NEW x \in Item, NEW sy \in Seq(Symbol),
         \A i \in DOMAIN sy : sy[i].at \in DOMAIN its, NEW scope
  PROVE  LET new == Append(its, x)
             of == {i \in DOMAIN sy : ScopeIn(its, sy[i].at) = scope}
         IN  \A s \in Symbol :
               s.at = Len(its) + 1 =>
                 {i \in DOMAIN Append(sy, s) : ScopeIn(new, Append(sy, s)[i].at) = scope} =
                   of \cup (IF ScopeIn(its, Len(its) + 1) = scope THEN {Len(sy) + 1} ELSE {})
<1> DEFINE new == Append(its, x)
           of == {i \in DOMAIN sy : ScopeIn(its, sy[i].at) = scope}
           n == Len(its) + 1
<1>1. /\ \A i \in DOMAIN its : ScopeIn(new, i) = ScopeIn(its, i)
      /\ ScopeIn(new, n) = ScopeIn(its, n)
  BY SeesMore
<1>2. ASSUME NEW s \in Symbol, s.at = n
      PROVE  {i \in DOMAIN Append(sy, s) : ScopeIn(new, Append(sy, s)[i].at) = scope} =
               of \cup (IF ScopeIn(its, n) = scope THEN {Len(sy) + 1} ELSE {})
  <2> DEFINE more == Append(sy, s)
             m == Len(sy) + 1
  <2>1. Len(more) = Len(sy) + 1 /\ more[m] = s /\ \A i \in 1..Len(sy) : more[i] = sy[i]
    BY AppendProperties
  <2>2. DOMAIN sy = 1..Len(sy) /\ Len(sy) \in Nat /\ DOMAIN more = 1..Len(more)
    BY AppendProperties
  <2>3. DOMAIN more = DOMAIN sy \cup {m} /\ m \notin DOMAIN sy /\ \A i \in DOMAIN sy : more[i] = sy[i]
    BY <2>1, <2>2
  <2> HIDE DEF more, m, new, n
  <2>4. {i \in DOMAIN more : ScopeIn(new, more[i].at) = scope} =
          of \cup (IF ScopeIn(its, n) = scope THEN {m} ELSE {})
    BY <1>1, <1>2, <2>1, <2>3
  <2> QED
    BY <2>4 DEF more, m
<1> QED
  BY <1>2

LEMMA FrameStays ==
  ASSUME NEW its \in Seq(Item), NEW x \in Item, NEW sy, NEW sy2, NEW frame, NEW frame2,
         NEW k, NEW at, FrameRight(its, sy, frame, k, at), k > 1 => at \in DOMAIN its,
         frame2.path = frame.path,
         frame2.local = {i \in DOMAIN sy2 : ScopeIn(Append(its, x), sy2[i].at) = at},
         frame2.exports = frame.exports
           \cup (IF x.kind = "export" /\ ScopeIn(its, Len(its) + 1) = at THEN x.names ELSE {})
  PROVE  FrameRight(Append(its, x), sy2, frame2, k, at)
<1> DEFINE new == Append(its, x)
<1>1. \A i \in DOMAIN its : new[i] = its[i]
  BY SeesMore
<1>2. ASSUME NEW name \in Names PROVE name \in frame2.exports <=> Listed(new, name, at)
  <2>1. Listed(new, name, at) <=>
          \/ Listed(its, name, at)
          \/ x.kind = "export" /\ ScopeIn(its, Len(its) + 1) = at /\ name \in x.names
    BY ListedMore
  <2>2. name \in frame.exports <=> Listed(its, name, at)
    BY DEF FrameRight
  <2> QED
    BY <2>1, <2>2
<1> HIDE DEF new
<1>3. k > 1 => Last(frame2.path) = new[at].name
  BY <1>1 DEF FrameRight
<1>4. Len(frame2.path) = k - 1
  BY DEF FrameRight
<1> QED
  BY <1>2, <1>3, <1>4 DEF FrameRight, new

LEMMA WalkedFacts ==
  ASSUME NEW its, NEW fs, NEW sy, NEW pos, Walked(its, fs, sy, pos)
  PROVE  /\ Len(pos) \in Nat /\ Len(pos) > 0 /\ Len(its) \in Nat /\ Len(pos) \in DOMAIN pos
         /\ DOMAIN pos = 1..Len(pos) /\ DOMAIN fs = 1..Len(pos) /\ DOMAIN its = 1..Len(its)
         /\ \A k \in DOMAIN pos :
              /\ pos[k] \in 0..Len(its) /\ (k > 1 => pos[k] \in DOMAIN its)
              /\ (pos[k] = pos[Len(pos)] => k = Len(pos))
         /\ \A i \in DOMAIN sy : sy[i].at \in DOMAIN its
         /\ OpenIn(pos) \subseteq 0..Len(its) /\ pos[Len(pos)] \in OpenIn(pos)
<1>1. /\ its \in Seq(Item) /\ fs \in Seq(Frame) /\ Len(fs) = Len(pos) /\ Nested(its, pos)
      /\ \A i \in DOMAIN sy : SymbolRight(its, sy[i], OpenIn(pos))
  BY DEF Walked
<1>2. /\ Len(pos) \in Nat /\ Len(pos) > 0 /\ DOMAIN pos = 1..Len(pos)
      /\ DOMAIN fs = 1..Len(fs) /\ Len(its) \in Nat /\ DOMAIN its = 1..Len(its)
      /\ pos[1] = 0 /\ \A k \in DOMAIN pos : pos[k] \in Nat /\ pos[k] <= Len(its)
      /\ \A i, k \in DOMAIN pos : i < k => pos[i] < pos[k]
  BY <1>1 DEF Nested
<1>3. Len(pos) \in DOMAIN pos /\ 1 \in DOMAIN pos
  BY <1>2
<1>4. ASSUME NEW k \in DOMAIN pos
      PROVE  /\ pos[k] \in 0..Len(its) /\ (k > 1 => pos[k] \in DOMAIN its)
             /\ (pos[k] = pos[Len(pos)] => k = Len(pos))
  <2>1. pos[k] \in Nat /\ pos[k] <= Len(its)
    BY <1>2
  <2>2. k > 1 => pos[1] < pos[k]
    BY <1>2, <1>3
  <2>3. k = Len(pos) \/ k < Len(pos)
    BY <1>2
  <2>4. k < Len(pos) => pos[k] < pos[Len(pos)]
    BY <1>2, <1>3
  <2>5. k > 1 => pos[k] > 0
    BY <1>2, <2>2
  <2>6. pos[Len(pos)] \in Nat
    BY <1>2, <1>3
  <2>7. pos[k] = pos[Len(pos)] => k = Len(pos)
    BY <2>1, <2>3, <2>4, <2>6
  <2>8. pos[k] \in 0..Len(its)
    BY <1>2, <2>1
  <2>9. k > 1 => pos[k] \in DOMAIN its
    BY <1>2, <2>1, <2>5
  <2> QED
    BY <2>7, <2>8, <2>9
<1>5. \A i \in DOMAIN sy : sy[i].at \in DOMAIN its
  BY <1>1 DEF SymbolRight, DeclaredIn
<1>6. OpenIn(pos) \subseteq 0..Len(its) /\ pos[Len(pos)] \in OpenIn(pos)
  BY <1>3, <1>4 DEF OpenIn
<1> QED
  BY <1>1, <1>2, <1>3, <1>4, <1>5, <1>6

\* export { ... }
LEMMA WalkedLists ==
  ASSUME NEW its, NEW fs, NEW sy, NEW pos, Walked(its, fs, sy, pos),
         NEW x \in Item, x.kind = "export"
  PROVE  Walked(Append(its, x), [fs EXCEPT ![Len(fs)].exports = @ \cup x.names], sy, pos)
<1> DEFINE new == Append(its, x)
           last == Len(pos)
           fs2 == [fs EXCEPT ![last].exports = @ \cup x.names]
<1>1. /\ its \in Seq(Item) /\ fs \in Seq(Frame) /\ sy \in Seq(Symbol) /\ Len(pos) = Len(fs)
      /\ Nested(its, pos) /\ Inside(its) /\ InOrder(its, sy)
      /\ \A k \in DOMAIN pos : FrameRight(its, sy, fs[k], k, pos[k])
      /\ \A i \in DOMAIN sy : SymbolRight(its, sy[i], OpenIn(pos))
  BY DEF Walked
<1>2. /\ last \in DOMAIN pos /\ DOMAIN fs = DOMAIN pos /\ DOMAIN pos = 1..last
      /\ \A k \in DOMAIN pos : (k > 1 => pos[k] \in DOMAIN its) /\ (pos[k] = pos[last] => k = last)
      /\ \A i \in DOMAIN sy : sy[i].at \in DOMAIN its
      /\ pos[last] \in OpenIn(pos)
  BY WalkedFacts
<1>3. Inside(new) /\ ScopeIn(its, Len(its) + 1) = pos[last]
  BY <1>1, InsideMore
<1>4. x.names \in SUBSET Names
  BY DEF Item
<1>5. /\ fs2 \in Seq(Frame) /\ Len(fs2) = Len(fs)
      /\ \A k \in DOMAIN pos :
           /\ fs2[k].path = fs[k].path /\ fs2[k].local = fs[k].local
           /\ fs2[k].exports = fs[k].exports \cup (IF k = last THEN x.names ELSE {})
  <2>1. \A k \in DOMAIN pos : fs[k] \in Frame /\ k \in DOMAIN fs
    BY <1>1, <1>2
  <2>2. [fs[last] EXCEPT !.exports = @ \cup x.names] \in Frame
    BY <1>2, <1>4, <2>1 DEF Frame
  <2>3. fs2 = [fs EXCEPT ![last] = [fs[last] EXCEPT !.exports = @ \cup x.names]]
    OBVIOUS
  <2>4. fs2 \in Seq(Frame) /\ Len(fs2) = Len(fs)
    <3>1. last \in 1..Len(fs) /\ fs \in Seq(Frame)
      BY <1>1, <1>2
    <3> QED
      BY <2>2, <2>3, <3>1, ExceptSeq
  <2>5. ASSUME NEW k \in DOMAIN pos
        PROVE  /\ fs2[k].path = fs[k].path /\ fs2[k].local = fs[k].local
               /\ fs2[k].exports = fs[k].exports \cup (IF k = last THEN x.names ELSE {})
    <3>1. CASE k = last
      <4>1. fs2[k] = [fs[k] EXCEPT !.exports = @ \cup x.names]
        BY <2>1, <2>3, <3>1
      <4> QED
        BY <2>1, <3>1, <4>1 DEF Frame
    <3>2. CASE k # last
      <4>1. fs2[k] = fs[k]
        BY <2>1, <2>3, <3>2
      <4> QED
        BY <3>2, <4>1
    <3> QED
      BY <3>1, <3>2
  <2> QED
    BY <2>4, <2>5
<1>6. ASSUME NEW k \in DOMAIN pos PROVE FrameRight(new, sy, fs2[k], k, pos[k])
  <2>1. fs2[k].local = {i \in DOMAIN sy : ScopeIn(new, sy[i].at) = pos[k]}
    <3>1. fs[k].local = {i \in DOMAIN sy : ScopeIn(its, sy[i].at) = pos[k]}
      BY <1>1 DEF FrameRight
    <3>2. {i \in DOMAIN sy : ScopeIn(new, sy[i].at) = pos[k]} =
            {i \in DOMAIN sy : ScopeIn(its, sy[i].at) = pos[k]}
      <4>1. \A i \in DOMAIN its : ScopeIn(new, i) = ScopeIn(its, i)
        BY <1>1, SeesMore
      <4>2. \A i \in DOMAIN sy : sy[i].at \in DOMAIN its
        BY <1>2
      <4> HIDE DEF new
      <4> QED
        BY <4>1, <4>2
    <3> QED
      BY <1>5, <3>1, <3>2
  <2>2. fs2[k].exports = fs[k].exports
          \cup (IF x.kind = "export" /\ ScopeIn(its, Len(its) + 1) = pos[k] THEN x.names ELSE {})
    BY <1>2, <1>3, <1>5
  <2>3. fs2[k].path = fs[k].path /\ (k > 1 => pos[k] \in DOMAIN its)
    BY <1>2, <1>5
  <2>4. FrameRight(its, sy, fs[k], k, pos[k])
    BY <1>1
  <2> HIDE DEF fs2
  <2> QED
    BY <1>1, <2>1, <2>2, <2>3, <2>4, FrameStays
<1>7. ASSUME NEW i \in DOMAIN sy PROVE SymbolRight(new, sy[i], OpenIn(pos))
  <2>1. SymbolRight(its, sy[i], OpenIn(pos)) /\ ScopeIn(its, Len(its) + 1) \in OpenIn(pos)
    BY <1>1, <1>2, <1>3
  <2> QED
    BY <1>1, <2>1, SymbolStays
<1>8. Nested(new, pos)
  BY <1>1, NestedStays
<1>9. InOrder(new, sy)
  <2>1. DeclaredIn(new) = DeclaredIn(its)
    BY <1>1, DeclaredMore
  <2> QED
    BY <1>1, <2>1 DEF InOrder
<1>10. new \in Seq(Item)
  BY <1>1, SeesMore
<1> HIDE DEF new, fs2
<1>11. Walked(new, fs2, sy, pos)
  BY <1>1, <1>3, <1>5, <1>6, <1>7, <1>8, <1>9, <1>10 DEF Walked
<1> QED
  BY <1>1, <1>11 DEF new, fs2

\* What a declaration or a module puts out, and how its scope takes it.
SymbolOf(its, fs, x) ==
  [name |-> x.name, exported |-> x.exported, module |-> Last(fs).path, at |-> Len(its) + 1]
Taken(fs, sy) == [fs EXCEPT ![Len(fs)].local = Last(fs).local \cup {Len(sy) + 1}]

LEMMA TakenFrames ==
  ASSUME NEW its, NEW fs, NEW sy, NEW pos, Walked(its, fs, sy, pos)
  PROVE  /\ Taken(fs, sy) \in Seq(Frame) /\ Len(Taken(fs, sy)) = Len(fs)
         /\ \A k \in DOMAIN pos :
              /\ Taken(fs, sy)[k].path = fs[k].path /\ Taken(fs, sy)[k].exports = fs[k].exports
              /\ Taken(fs, sy)[k].local =
                   fs[k].local \cup (IF k = Len(pos) THEN {Len(sy) + 1} ELSE {})
         /\ Last(fs) = fs[Len(pos)] /\ Last(fs) \in Frame /\ Len(sy) \in Nat
<1> DEFINE last == Len(pos)
           m == Len(sy) + 1
           mine == [fs[last] EXCEPT !.local = fs[last].local \cup {m}]
           fs2 == [fs EXCEPT ![last] = mine]
<1>1. fs \in Seq(Frame) /\ sy \in Seq(Symbol) /\ last = Len(fs)
  BY DEF Walked
<1>2. last \in DOMAIN pos /\ DOMAIN fs = DOMAIN pos /\ DOMAIN pos = 1..last
  BY WalkedFacts
<1>3. /\ \A k \in DOMAIN pos : fs[k] \in Frame /\ k \in DOMAIN fs
      /\ Len(sy) \in Nat /\ m \in Nat
  BY <1>1, <1>2
<1>4. Last(fs) = fs[last]
  BY <1>1 DEF Last
<1>5. Taken(fs, sy) = fs2
  BY <1>1, <1>4 DEF Taken
<1>6. mine \in Frame
  <2> HIDE DEF m
  <2> QED
    BY <1>2, <1>3 DEF Frame
<1>7. fs2 \in Seq(Frame) /\ Len(fs2) = Len(fs)
  <2>1. last \in 1..Len(fs)
    BY <1>1, <1>2
  <2> HIDE DEF mine
  <2> QED
    BY <1>1, <1>6, <2>1, ExceptSeq
<1>8. ASSUME NEW k \in DOMAIN pos
      PROVE  /\ fs2[k].path = fs[k].path /\ fs2[k].exports = fs[k].exports
             /\ fs2[k].local = fs[k].local \cup (IF k = last THEN {m} ELSE {})
  <2> HIDE DEF m
  <2>1. CASE k = last
    <3>1. fs2[k] = mine
      BY <1>3, <2>1
    <3> QED
      BY <1>3, <2>1, <3>1 DEF Frame
  <2>2. CASE k # last
    <3>1. fs2[k] = fs[k]
      BY <1>3, <2>2
    <3> QED
      BY <2>2, <3>1
  <2> QED
    BY <2>1, <2>2
<1> HIDE DEF fs2
<1>9. fs[last] \in Frame
  BY <1>2, <1>3
<1> QED
  BY <1>3, <1>4, <1>5, <1>7, <1>8, <1>9

\* The open scopes and the symbols are right with it.  (An item that enters a
\* module opens one more scope, which has no symbol.)
LEMMA WalkedPutsOut ==
  ASSUME NEW its, NEW fs, NEW sy, NEW pos, Walked(its, fs, sy, pos),
         NEW x \in Item, x.kind \in {"decl", "module"}, NEW after,
         OpenIn(pos) \subseteq after, after \subseteq OpenIn(pos) \cup {Len(its) + 1}
  PROVE  LET new == Append(its, x)
             fs2 == Taken(fs, sy)
             sy2 == Append(sy, SymbolOf(its, fs, x))
         IN  /\ new \in Seq(Item) /\ sy2 \in Seq(Symbol) /\ Inside(new) /\ InOrder(new, sy2)
             /\ \A k \in DOMAIN pos : FrameRight(new, sy2, fs2[k], k, pos[k])
             /\ \A i \in DOMAIN sy2 : SymbolRight(new, sy2[i], after)
<1> DEFINE new == Append(its, x)
           last == Len(pos)
           n == Len(its) + 1
           m == Len(sy) + 1
           s == SymbolOf(its, fs, x)
           fs2 == Taken(fs, sy)
           sy2 == Append(sy, s)
<1>1. /\ its \in Seq(Item) /\ fs \in Seq(Frame) /\ sy \in Seq(Symbol) /\ Len(pos) = Len(fs)
      /\ Nested(its, pos) /\ Inside(its) /\ InOrder(its, sy)
      /\ \A k \in DOMAIN pos : FrameRight(its, sy, fs[k], k, pos[k])
      /\ \A i \in DOMAIN sy : SymbolRight(its, sy[i], OpenIn(pos))
  BY DEF Walked
<1>2. /\ last \in DOMAIN pos /\ DOMAIN pos = 1..last /\ last \in Nat /\ last > 0
      /\ Len(its) \in Nat /\ DOMAIN its = 1..Len(its)
      /\ \A k \in DOMAIN pos :
           /\ pos[k] \in 0..Len(its) /\ (k > 1 => pos[k] \in DOMAIN its)
           /\ (pos[k] = pos[last] => k = last)
      /\ \A i \in DOMAIN sy : sy[i].at \in DOMAIN its
      /\ OpenIn(pos) \subseteq 0..Len(its) /\ pos[last] \in OpenIn(pos)
  BY WalkedFacts
<1>3. Inside(new) /\ ScopeIn(its, n) = pos[last]
  BY <1>1, InsideMore
<1>4. x.name \in Names /\ x.exported \in BOOLEAN
  BY DEF Item
<1>5. /\ \A k \in DOMAIN pos :
           /\ fs2[k].path = fs[k].path /\ fs2[k].exports = fs[k].exports
           /\ fs2[k].local = fs[k].local \cup (IF k = last THEN {m} ELSE {})
      /\ Last(fs) = fs[last] /\ Last(fs) \in Frame /\ Len(sy) \in Nat
  BY TakenFrames
<1>6. s \in Symbol /\ s.at = n /\ s.name = x.name /\ s.exported = x.exported
      /\ s.module = fs[last].path
  <2>1. n \in Nat /\ Last(fs).path \in Seq(Names)
    BY <1>2, <1>5 DEF Frame
  <2>2. s = [name |-> x.name, exported |-> x.exported, module |-> Last(fs).path, at |-> n]
    BY DEF SymbolOf
  <2> HIDE DEF s, n
  <2> QED
    BY <1>4, <1>5, <2>1, <2>2 DEF Symbol
<1> HIDE DEF s
<1>7. /\ sy2 \in Seq(Symbol) /\ DOMAIN sy2 = DOMAIN sy \cup {m} /\ Len(sy2) = m
      /\ sy2[m] = s /\ DOMAIN sy = 1..Len(sy) /\ \A i \in DOMAIN sy : sy2[i] = sy[i]
  <2>1. sy2 \in Seq(Symbol) /\ Len(sy2) = m /\ sy2[m] = s /\ \A i \in 1..Len(sy) : sy2[i] = sy[i]
    BY <1>1, <1>6, AppendProperties
  <2>2. DOMAIN sy = 1..Len(sy) /\ DOMAIN sy2 = 1..m /\ Len(sy) \in Nat
    BY <1>1, <2>1
  <2>3. 1..m = (1..Len(sy)) \cup {m}
    BY <2>2
  <2> QED
    BY <2>1, <2>2, <2>3
<1>8. ASSUME NEW k \in DOMAIN pos PROVE FrameRight(new, sy2, fs2[k], k, pos[k])
  <2>1. {i \in DOMAIN sy2 : ScopeIn(new, sy2[i].at) = pos[k]} =
          {i \in DOMAIN sy : ScopeIn(its, sy[i].at) = pos[k]}
            \cup (IF ScopeIn(its, n) = pos[k] THEN {m} ELSE {})
    <3>1. \A i \in DOMAIN sy : sy[i].at \in DOMAIN its
      BY <1>2
    <3>2. its \in Seq(Item) /\ sy \in Seq(Symbol) /\ s \in Symbol /\ s.at = n
      BY <1>1, <1>6
    <3>3. \A t \in Symbol : t.at = Len(its) + 1 =>
            {i \in DOMAIN Append(sy, t) : ScopeIn(Append(its, x), Append(sy, t)[i].at) = pos[k]} =
              {i \in DOMAIN sy : ScopeIn(its, sy[i].at) = pos[k]}
                \cup (IF ScopeIn(its, Len(its) + 1) = pos[k] THEN {Len(sy) + 1} ELSE {})
      BY <3>1, <3>2, LocalMore
    <3> QED
      BY <3>2, <3>3
  <2>2. fs[k].local = {i \in DOMAIN sy : ScopeIn(its, sy[i].at) = pos[k]}
    BY <1>1 DEF FrameRight
  <2>3. fs2[k].local = {i \in DOMAIN sy2 : ScopeIn(new, sy2[i].at) = pos[k]}
    BY <1>2, <1>3, <1>5, <2>1, <2>2
  <2>4. fs2[k].exports = fs[k].exports
          \cup (IF x.kind = "export" /\ ScopeIn(its, Len(its) + 1) = pos[k] THEN x.names ELSE {})
    BY <1>5
  <2>5. fs2[k].path = fs[k].path /\ (k > 1 => pos[k] \in DOMAIN its)
    BY <1>2, <1>5
  <2>6. FrameRight(its, sy, fs[k], k, pos[k])
    BY <1>1
  <2> HIDE DEF fs2, sy2
  <2> QED
    BY <1>1, <2>3, <2>4, <2>5, <2>6, FrameStays
<1>9. ASSUME NEW i \in DOMAIN sy2 PROVE SymbolRight(new, sy2[i], after)
  <2>1. CASE i \in DOMAIN sy
    <3>1. SymbolRight(its, sy[i], OpenIn(pos)) /\ sy[i].at \in DOMAIN its
      BY <1>1, <1>2, <2>1
    <3>2. ScopeIn(its, sy[i].at) # n
      <4>1. sy[i].at \in 1..Len(its) /\ ScopeIn(its, sy[i].at) \in 0..sy[i].at - 1
        BY <1>1, <1>2, <3>1 DEF Inside
      <4> DEFINE a == sy[i].at
                 b == ScopeIn(its, a)
      <4>2. a \in 1..Len(its) /\ b \in 0..a - 1
        BY <4>1
      <4> HIDE DEF a, b
      <4>3. b # n
        BY <1>2, <4>2
      <4> QED
        BY <4>3 DEF a, b
    <3>3. ScopeIn(its, sy[i].at) \in OpenIn(pos) <=> ScopeIn(its, sy[i].at) \in after
      BY <3>2
    <3>4. SymbolRight(new, sy[i], after)
      BY <1>1, <3>1, <3>3, SymbolStays
    <3> QED
      BY <1>7, <2>1, <3>4
  <2>2. CASE i = m
    <3>1. /\ new[n] = x /\ n \in DOMAIN new /\ ScopeIn(new, n) = pos[last]
          /\ \A j \in DOMAIN its : new[j] = its[j]
      BY <1>1, <1>3, SeesMore
    <3>2. s.at \in DeclaredIn(new) /\ s.name = new[s.at].name
      BY <1>6, <3>1 DEF DeclaredIn
    <3>3. Len(s.module) = last - 1 /\ (last > 1 => Last(s.module) = its[pos[last]].name)
      BY <1>1, <1>2, <1>6 DEF FrameRight
    <3>4. Len(s.module) > 0 <=> ScopeIn(new, s.at) # 0
      <4>1. pos[last] # 0 <=> last > 1
        <5>1. last > 1 => pos[last] \in 1..Len(its)
          BY <1>2
        <5>2. last = 1 => pos[last] = 0
          BY <1>1 DEF Nested
        <5> QED
          BY <1>2, <5>1, <5>2
      <4> QED
        <5>1. Len(s.module) > 0 <=> last > 1
          <6> DEFINE l == Len(s.module)
          <6>1. l = last - 1 /\ last \in Nat
            BY <1>2, <3>3
          <6> HIDE DEF l, last
          <6>2. l > 0 <=> last > 1
            BY <6>1
          <6> QED
            BY <6>2 DEF l, last
        <5>2. ScopeIn(new, s.at) = pos[last]
          BY <1>6, <3>1
        <5> QED
          BY <4>1, <5>1, <5>2
    <3>5. ScopeIn(new, s.at) # 0 => Last(s.module) = new[ScopeIn(new, s.at)].name
      <4>1. last > 1 => pos[last] \in DOMAIN its
        BY <1>2
      <4>2. last = 1 => pos[last] = 0
        BY <1>1 DEF Nested
      <4>3. last = 1 \/ last > 1
        BY <1>2
      <4> QED
        BY <1>6, <3>1, <3>3, <4>1, <4>2, <4>3
    <3>6. ScopeIn(new, s.at) \in after
      BY <1>2, <1>6, <3>1
    <3>7. s.exported <=> (new[s.at].exported \/ (ScopeIn(new, s.at) \notin after
            /\ Listed(new, new[s.at].name, ScopeIn(new, s.at))))
      BY <1>6, <3>1, <3>6
    <3>8. SymbolRight(new, s, after)
      BY <3>2, <3>4, <3>5, <3>7 DEF SymbolRight
    <3> QED
      BY <1>7, <2>2, <3>8
  <2> QED
    BY <1>7, <2>1, <2>2
<1>10. InOrder(new, sy2)
  <2>1. Len(sy2) = Cardinality(DeclaredIn(new))
    <3>1. Cardinality(DeclaredIn(new)) = Cardinality(DeclaredIn(its)) + 1
      BY <1>1, DeclaredMore
    <3> QED
      BY <1>1, <1>7, <3>1 DEF InOrder
  <2>2. ASSUME NEW i \in DOMAIN sy2, i > 1 PROVE sy2[i - 1].at < sy2[i].at
    <3>1. i - 1 \in DOMAIN sy
      BY <1>5, <1>7, <2>2
    <3>2. CASE i \in DOMAIN sy
      BY <1>1, <1>7, <2>2, <3>1, <3>2 DEF InOrder
    <3>3. CASE i = m
      <4>1. sy2[i].at = n /\ sy2[i - 1].at \in 1..Len(its)
        BY <1>2, <1>6, <1>7, <3>1, <3>3
      <4> DEFINE a == sy2[i - 1].at
      <4>2. a \in 1..Len(its)
        BY <4>1
      <4> HIDE DEF a
      <4>3. a < n
        BY <1>2, <4>2
      <4> QED
        BY <4>1, <4>3 DEF a
    <3> QED
      BY <1>7, <3>2, <3>3
  <2> HIDE DEF sy2
  <2> QED
    BY <2>1, <2>2 DEF InOrder
<1>11. new \in Seq(Item)
  BY <1>1, SeesMore
<1> QED
  BY <1>3, <1>7, <1>8, <1>9, <1>10, <1>11 DEF s

\* A declaration,
LEMMA WalkedDeclares ==
  ASSUME NEW its, NEW fs, NEW sy, NEW pos, Walked(its, fs, sy, pos),
         NEW x \in Item, x.kind = "decl"
  PROVE  Walked(Append(its, x), Taken(fs, sy), Append(sy, SymbolOf(its, fs, x)), pos)
<1> DEFINE new == Append(its, x)
           fs2 == Taken(fs, sy)
           sy2 == Append(sy, SymbolOf(its, fs, x))
<1>1. /\ new \in Seq(Item) /\ sy2 \in Seq(Symbol) /\ Inside(new) /\ InOrder(new, sy2)
      /\ \A k \in DOMAIN pos : FrameRight(new, sy2, fs2[k], k, pos[k])
      /\ \A i \in DOMAIN sy2 : SymbolRight(new, sy2[i], OpenIn(pos))
  <2>1. OpenIn(pos) \subseteq OpenIn(pos) \cup {Len(its) + 1} /\ x.kind \in {"decl", "module"}
    OBVIOUS
  <2> QED
    BY <2>1, WalkedPutsOut
<1>2. fs2 \in Seq(Frame) /\ Len(fs2) = Len(pos)
  BY TakenFrames DEF Walked
<1>3. Nested(new, pos)
  BY NestedStays DEF Walked
<1> HIDE DEF new, fs2, sy2
<1>4. Walked(new, fs2, sy2, pos)
  BY <1>1, <1>2, <1>3 DEF Walked
<1> QED
  BY <1>4 DEF new, fs2, sy2

\* a module,
LEMMA WalkedEnters ==
  ASSUME NEW its, NEW fs, NEW sy, NEW pos, Walked(its, fs, sy, pos),
         NEW x \in Item, x.kind = "module"
  PROVE  Walked(Append(its, x), Append(Taken(fs, sy), Scope(Append(Last(fs).path, x.name))),
                Append(sy, SymbolOf(its, fs, x)), Append(pos, Len(its) + 1))
<1> DEFINE new == Append(its, x)
           last == Len(pos)
           n == Len(its) + 1
           fs2 == Taken(fs, sy)
           frame == Scope(Append(Last(fs).path, x.name))
           fs3 == Append(fs2, frame)
           sy2 == Append(sy, SymbolOf(its, fs, x))
           deep == Append(pos, n)
<1>1. /\ pos \in Seq(Nat) /\ its \in Seq(Item) /\ Nested(its, pos)
      /\ \A k \in DOMAIN pos : FrameRight(its, sy, fs[k], k, pos[k])
  BY DEF Walked, Nested
<1>2. last \in Nat /\ last > 0 /\ DOMAIN pos = 1..last /\ last \in DOMAIN pos /\ Len(its) \in Nat
  BY WalkedFacts
<1>3. /\ deep \in Seq(Nat) /\ Len(deep) = last + 1 /\ deep[last + 1] = n
      /\ \A k \in 1..last : deep[k] = pos[k]
  <2>1. n \in Nat
    BY <1>2
  <2> QED
    BY <1>1, <2>1, AppendProperties
<1>4. DOMAIN deep = DOMAIN pos \cup {last + 1} /\ last + 1 \notin DOMAIN pos /\ last + 1 > 1
  <2>1. DOMAIN deep = 1..Len(deep)
    BY <1>3
  <2>2. 1..last + 1 = (1..last) \cup {last + 1}
    BY <1>2
  <2> QED
    BY <1>2, <1>3, <2>1, <2>2
<1>5. OpenIn(deep) = OpenIn(pos) \cup {n}
  <2> HIDE DEF deep, n, last
  <2> QED
    BY <1>2, <1>3, <1>4 DEF OpenIn
<1>6. /\ new \in Seq(Item) /\ sy2 \in Seq(Symbol) /\ Inside(new) /\ InOrder(new, sy2)
      /\ \A k \in DOMAIN pos : FrameRight(new, sy2, fs2[k], k, pos[k])
      /\ \A i \in DOMAIN sy2 : SymbolRight(new, sy2[i], OpenIn(deep))
  <2>1. /\ OpenIn(pos) \subseteq OpenIn(deep) /\ OpenIn(deep) \subseteq OpenIn(pos) \cup {Len(its) + 1}
        /\ x.kind \in {"decl", "module"}
    BY <1>5
  <2> HIDE DEF deep
  <2> QED
    BY <2>1, WalkedPutsOut
<1>7. /\ fs2 \in Seq(Frame) /\ Len(fs2) = last /\ Last(fs) \in Frame /\ Last(fs) = fs[last]
  BY TakenFrames DEF Walked
<1>8. /\ frame \in Frame /\ frame.exports = {} /\ frame.local = {}
      /\ Len(frame.path) = last /\ Last(frame.path) = x.name
  <2>1. Last(fs).path \in Seq(Names) /\ x.name \in Names
    BY <1>7 DEF Frame, Item
  <2>2. Len(Last(fs).path) = last - 1
    BY <1>1, <1>2, <1>7 DEF FrameRight
  <2>3. Append(Last(fs).path, x.name) \in Seq(Names)
    BY <2>1, AppendProperties
  <2>4. Len(Append(Last(fs).path, x.name)) = last
    <3>1. Len(Append(Last(fs).path, x.name)) = Len(Last(fs).path) + 1
      BY <2>1, AppendProperties
    <3>2. (last - 1) + 1 = last
      BY <1>2
    <3> QED
      BY <2>2, <3>1, <3>2
  <2>5. Last(Append(Last(fs).path, x.name)) = x.name
    <3>1. Append(Last(fs).path, x.name)[Len(Last(fs).path) + 1] = x.name
      BY <2>1, AppendProperties
    <3>2. Len(Append(Last(fs).path, x.name)) = Len(Last(fs).path) + 1
      BY <2>1, AppendProperties
    <3> QED
      BY <3>1, <3>2 DEF Last
  <2> DEFINE path == Append(Last(fs).path, x.name)
  <2>6. frame = [path |-> path, exports |-> {}, local |-> {}]
    BY DEF Scope
  <2> HIDE DEF path, frame
  <2>7. frame \in Frame /\ frame.exports = {} /\ frame.local = {} /\ frame.path = path
    BY <2>3, <2>6 DEF Frame, path
  <2> QED
    BY <2>4, <2>5, <2>7 DEF path
<1>9. /\ fs3 \in Seq(Frame) /\ Len(fs3) = last + 1 /\ fs3[last + 1] = frame
      /\ \A k \in 1..last : fs3[k] = fs2[k]
  <2> HIDE DEF frame, fs2
  <2> QED
    BY <1>7, <1>8, AppendProperties
<1>10. Nested(new, deep)
  BY <1>1, NestedEnters
<1>11. new[n] = x /\ n \in DOMAIN new /\ Len(new) = n /\ DOMAIN new = 1..n
  <2>1. new[n] = x /\ Len(new) = n
    BY <1>1, AppendProperties
  <2>2. DOMAIN new = 1..Len(new)
    BY <1>6
  <2> QED
    BY <1>2, <2>1, <2>2
<1>12. \A j \in DOMAIN new : ScopeIn(new, j) # n
  <2> SUFFICES ASSUME NEW j \in DOMAIN new PROVE ScopeIn(new, j) # n
    OBVIOUS
  <2>1. ScopeIn(new, j) \in 0..j - 1 /\ j \in 1..n
    BY <1>6, <1>11 DEF Inside
  <2> DEFINE a == ScopeIn(new, j)
  <2> HIDE DEF a
  <2>2. a \in 0..j - 1 /\ j \in 1..n
    BY <2>1 DEF a
  <2>3. a # n
    BY <1>2, <2>2
  <2> QED
    BY <2>3 DEF a
<1>13. FrameRight(new, sy2, frame, last + 1, n)
  <2>1. {i \in DOMAIN sy2 : ScopeIn(new, sy2[i].at) = n} = {}
    <3>1. \A i \in DOMAIN sy2 : sy2[i].at \in DOMAIN new
      BY <1>6 DEF SymbolRight, DeclaredIn
    <3> QED
      BY <1>12, <3>1
  <2>2. \A name \in Names : ~Listed(new, name, n)
    BY <1>12 DEF Listed
  <2>3. Len(frame.path) = (last + 1) - 1
    BY <1>2, <1>8
  <2> HIDE DEF new, sy2, frame, n
  <2> QED
    BY <1>8, <1>11, <2>1, <2>2, <2>3 DEF FrameRight
<1>14. ASSUME NEW k \in DOMAIN deep PROVE FrameRight(new, sy2, fs3[k], k, deep[k])
  <2>1. CASE k \in DOMAIN pos
    BY <1>2, <1>3, <1>6, <1>9, <2>1
  <2>2. CASE k = last + 1
    BY <1>3, <1>9, <1>13, <2>2
  <2> QED
    BY <1>4, <2>1, <2>2
<1> HIDE DEF new, fs3, sy2, deep
<1>15. Walked(new, fs3, sy2, deep)
  BY <1>3, <1>6, <1>9, <1>10, <1>14 DEF Walked
<1> QED
  BY <1>15 DEF new, fs3, sy2, deep

\* and the end of a scope, which marks what its lists name.
MarkedIn(fs, sy) ==
  [i \in DOMAIN sy |->
     IF i \in Last(fs).local /\ sy[i].name \in Last(fs).exports
     THEN [sy[i] EXCEPT !.exported = TRUE] ELSE sy[i]]

LEMMA WalkedMarks ==
  ASSUME NEW its, NEW fs, NEW sy, NEW pos, Walked(its, fs, sy, pos)
  PROVE  LET marked == MarkedIn(fs, sy)
         IN  /\ marked \in Seq(Symbol) /\ Len(marked) = Len(sy) /\ DOMAIN marked = DOMAIN sy
             /\ \A i \in DOMAIN sy :
                  /\ marked[i].at = sy[i].at
                  /\ SymbolRight(its, marked[i], OpenIn(pos) \ {pos[Len(pos)]})
<1> DEFINE marked == MarkedIn(fs, sy)
           last == Len(pos)
           rest == OpenIn(pos) \ {pos[last]}
<1>1. /\ sy \in Seq(Symbol) /\ FrameRight(its, sy, fs[last], last, pos[last])
      /\ \A i \in DOMAIN sy : SymbolRight(its, sy[i], OpenIn(pos))
  BY WalkedFacts DEF Walked
<1>2. Last(fs) = fs[last] /\ pos[last] \in OpenIn(pos)
  BY WalkedFacts, TakenFrames
<1>3. DOMAIN sy = 1..Len(sy) /\ Len(sy) \in Nat /\ \A i \in DOMAIN sy : sy[i] \in Symbol
  BY <1>1
<1>4. ASSUME NEW i \in DOMAIN sy
      PROVE  /\ marked[i] \in Symbol /\ marked[i].at = sy[i].at
             /\ SymbolRight(its, marked[i], rest)
  <2> DEFINE scope == ScopeIn(its, sy[i].at)
             name == sy[i].name
             mark == i \in fs[last].local /\ name \in fs[last].exports
  <2>1. /\ sy[i].at \in DeclaredIn(its) /\ name = its[sy[i].at].name
        /\ Len(sy[i].module) > 0 <=> scope # 0
        /\ scope # 0 => Last(sy[i].module) = its[scope].name
        /\ sy[i].exported <=> (its[sy[i].at].exported \/ (scope \notin OpenIn(pos) /\ Listed(its, name, scope)))
    BY <1>1 DEF SymbolRight
  <2>2. mark <=> (scope = pos[last] /\ Listed(its, name, scope))
    <3>1. i \in fs[last].local <=> scope = pos[last]
      BY <1>1 DEF FrameRight
    <3>2. name \in Names
      BY <1>3 DEF Symbol
    <3>3. name \in fs[last].exports <=> Listed(its, name, pos[last])
      BY <1>1, <3>2 DEF FrameRight
    <3> QED
      BY <3>1, <3>3
  <2>3. marked[i] = IF mark THEN [sy[i] EXCEPT !.exported = TRUE] ELSE sy[i]
    BY <1>2 DEF MarkedIn
  <2> HIDE DEF mark, marked
  <2>4. /\ marked[i] \in Symbol /\ marked[i].at = sy[i].at /\ marked[i].name = name
        /\ marked[i].module = sy[i].module
        /\ marked[i].exported = (mark \/ sy[i].exported)
    <3>1. CASE mark
      <4>1. marked[i] = [sy[i] EXCEPT !.exported = TRUE]
        BY <2>3, <3>1
      <4> QED
        BY <1>3, <3>1, <4>1 DEF Symbol
    <3>2. CASE ~mark
      <4>1. marked[i] = sy[i] /\ sy[i].exported \in BOOLEAN
        BY <1>3, <2>3, <3>2 DEF Symbol
      <4> QED
        BY <1>3, <3>2, <4>1
    <3> QED
      BY <3>1, <3>2
  <2>5. marked[i].exported <=>
          (its[sy[i].at].exported \/ (scope \notin rest /\ Listed(its, name, scope)))
    <3>1. scope \notin rest <=> (scope \notin OpenIn(pos) \/ scope = pos[last])
      BY <1>2
    <3> HIDE DEF scope, name, rest
    <3> QED
      BY <2>1, <2>2, <2>4, <3>1
  <2> HIDE DEF rest
  <2>6. SymbolRight(its, marked[i], rest)
    BY <2>1, <2>4, <2>5 DEF SymbolRight
  <2> QED
    BY <2>4, <2>6
<1>5. DOMAIN marked = 1..Len(sy)
  BY <1>3 DEF MarkedIn
<1>6. marked \in Seq(Symbol) /\ Len(marked) = Len(sy)
  <2>1. marked = [i \in 1..Len(sy) |-> marked[i]]
    BY <1>3 DEF MarkedIn
  <2>2. \A i \in 1..Len(sy) : marked[i] \in Symbol
    BY <1>3, <1>4
  <2> HIDE DEF marked
  <2> QED
    BY <1>3, <1>5, <2>1, <2>2
<1> QED
  BY <1>3, <1>4, <1>5, <1>6

LEMMA WalkedLeaves ==
  ASSUME NEW its, NEW fs, NEW sy, NEW pos, Walked(its, fs, sy, pos), Len(fs) > 1,
         NEW x \in Item, x.kind = "leave"
  PROVE  Walked(Append(its, x), Front(fs), MarkedIn(fs, sy), SubSeq(pos, 1, Len(pos) - 1))
<1> DEFINE new == Append(its, x)
           last == Len(pos)
           fs2 == Front(fs)
           marked == MarkedIn(fs, sy)
           out == SubSeq(pos, 1, last - 1)
           rest == OpenIn(pos) \ {pos[last]}
<1>1. /\ its \in Seq(Item) /\ fs \in Seq(Frame) /\ sy \in Seq(Symbol) /\ Len(fs) = last
      /\ pos \in Seq(Nat) /\ Nested(its, pos) /\ Inside(its) /\ InOrder(its, sy)
      /\ \A k \in DOMAIN pos : FrameRight(its, sy, fs[k], k, pos[k])
  BY DEF Walked, Nested
<1>2. /\ last \in Nat /\ last > 1 /\ DOMAIN pos = 1..last /\ last \in DOMAIN pos
      /\ \A k \in DOMAIN pos :
           (k > 1 => pos[k] \in DOMAIN its) /\ (pos[k] = pos[last] => k = last)
      /\ \A i \in DOMAIN sy : sy[i].at \in DOMAIN its
  BY <1>1, WalkedFacts
<1>3. /\ out \in Seq(Nat) /\ Len(out) = last - 1 /\ DOMAIN out = 1..last - 1
      /\ \A k \in 1..last - 1 : out[k] = pos[k]
  BY <1>1, <1>2, SubSeqProperties
<1>4. /\ fs2 \in Seq(Frame) /\ Len(fs2) = last - 1
      /\ \A k \in 1..last - 1 : fs2[k] = fs[k]
  <2>1. fs2 = SubSeq(fs, 1, last - 1)
    BY <1>1 DEF Front
  <2> QED
    BY <1>1, <1>2, <2>1, SubSeqProperties
<1>5. /\ marked \in Seq(Symbol) /\ Len(marked) = Len(sy) /\ DOMAIN marked = DOMAIN sy
      /\ \A i \in DOMAIN sy : marked[i].at = sy[i].at /\ SymbolRight(its, marked[i], rest)
  BY WalkedMarks
<1>6. OpenIn(out) = rest
  <2>1. \A k \in 1..last : k # last <=> k \in 1..last - 1
    <3>1. last \in Nat
      BY <1>2
    <3> HIDE DEF last
    <3> QED
      BY <3>1
  <2>2. ASSUME NEW p \in rest PROVE p \in OpenIn(out)
    <3>1. PICK k \in 1..last : p = pos[k] /\ k # last
      BY <1>2, <2>2 DEF OpenIn
    <3>2. k \in DOMAIN out /\ out[k] = p
      BY <1>3, <2>1, <3>1
    <3> HIDE DEF out
    <3> QED
      BY <3>2 DEF OpenIn
  <2>3. ASSUME NEW p \in OpenIn(out) PROVE p \in rest
    <3>1. PICK k \in DOMAIN out : p = out[k]
      BY <2>3 DEF OpenIn
    <3>2. k \in DOMAIN pos /\ p = pos[k] /\ k # last
      BY <1>2, <1>3, <3>1
    <3> QED
      BY <1>2, <3>2 DEF OpenIn
  <2> QED
    BY <2>2, <2>3
<1>7. Nested(new, out)
  BY <1>1, <1>2, NestedLeaves
<1>8. new \in Seq(Item) /\ Inside(new)
  BY <1>1, SeesMore, InsideMore
<1>8a. ASSUME NEW at
       PROVE  {i \in DOMAIN sy : ScopeIn(new, sy[i].at) = at} =
                {i \in DOMAIN sy : ScopeIn(its, sy[i].at) = at}
  <2>1. \A i \in DOMAIN its : ScopeIn(new, i) = ScopeIn(its, i)
    BY <1>1, SeesMore
  <2>2. \A i \in DOMAIN sy : sy[i].at \in DOMAIN its
    BY <1>2
  <2> HIDE DEF new
  <2> QED
    BY <2>1, <2>2
<1>9. ASSUME NEW k \in DOMAIN out PROVE FrameRight(new, marked, fs2[k], k, out[k])
  <2>1. k \in DOMAIN pos /\ out[k] = pos[k] /\ fs2[k] = fs[k] /\ (k > 1 => pos[k] \in DOMAIN its)
    BY <1>2, <1>3, <1>4
  <2>2. FrameRight(its, sy, fs[k], k, pos[k])
    BY <1>1, <2>1
  <2>3. {i \in DOMAIN marked : ScopeIn(new, marked[i].at) = pos[k]} =
          {i \in DOMAIN sy : ScopeIn(its, sy[i].at) = pos[k]}
    <3>1. {i \in DOMAIN marked : ScopeIn(new, marked[i].at) = pos[k]} =
            {i \in DOMAIN sy : ScopeIn(new, sy[i].at) = pos[k]}
      BY <1>5
    <3>2. {i \in DOMAIN sy : ScopeIn(new, sy[i].at) = pos[k]} =
            {i \in DOMAIN sy : ScopeIn(its, sy[i].at) = pos[k]}
      <4>1. its \in Seq(Item) /\ sy \in Seq(Symbol) /\ \A i \in DOMAIN sy : sy[i].at \in DOMAIN its
        BY <1>1, <1>2
      <4> QED
        BY <4>1, <1>8a
    <3> QED
      BY <3>1, <3>2
  <2>4. fs[k].local = {i \in DOMAIN marked : ScopeIn(new, marked[i].at) = pos[k]}
    BY <2>2, <2>3 DEF FrameRight
  <2>5. fs[k].exports = fs[k].exports
          \cup (IF x.kind = "export" /\ ScopeIn(its, Len(its) + 1) = pos[k] THEN x.names ELSE {})
    OBVIOUS
  <2>6. FrameRight(new, marked, fs[k], k, pos[k])
    <3> HIDE DEF marked
    <3> QED
      BY <1>1, <2>1, <2>2, <2>4, <2>5, FrameStays
  <2> QED
    BY <2>1, <2>6
<1>10. ASSUME NEW i \in DOMAIN marked PROVE SymbolRight(new, marked[i], OpenIn(out))
  <2>1. SymbolRight(its, marked[i], rest)
    BY <1>5
  <2> HIDE DEF rest, out, marked
  <2>2. x.kind # "export"
    OBVIOUS
  <2> QED
    BY <1>1, <1>6, <2>1, <2>2, SymbolStays
<1>11. InOrder(new, marked)
  <2>1. DeclaredIn(new) = DeclaredIn(its)
    BY <1>1, DeclaredMore
  <2>2. ASSUME NEW i \in DOMAIN marked, i > 1 PROVE marked[i - 1].at < marked[i].at
    <3>1. i \in DOMAIN sy /\ i - 1 \in DOMAIN sy
      BY <1>1, <1>5, <2>2
    <3>2. sy[i - 1].at < sy[i].at
      BY <1>1, <2>2, <3>1 DEF InOrder
    <3> QED
      BY <1>5, <3>1, <3>2
  <2> HIDE DEF marked
  <2>3. Len(marked) = Cardinality(DeclaredIn(new))
    BY <1>1, <1>5, <2>1 DEF InOrder
  <2> QED
    BY <2>2, <2>3 DEF InOrder
<1> HIDE DEF new, fs2, marked, out
<1>12. Walked(new, fs2, marked, out)
  BY <1>3, <1>4, <1>5, <1>7, <1>8, <1>9, <1>10, <1>11 DEF Walked
<1> QED
  BY <1>12 DEF new, fs2, marked, out

\* With the last scope left, what was put out is right.
SymbolsOf(its, sy) ==
  /\ Len(sy) = Cardinality(DeclaredIn(its))
  /\ \A i \in DOMAIN sy :
       /\ SymbolRight(its, sy[i], {})
       /\ i > 1 => sy[i - 1].at < sy[i].at

LEMMA WalkedFinishes ==
  ASSUME NEW its, NEW fs, NEW sy, NEW pos, Walked(its, fs, sy, pos)
  PROVE  Len(fs) = 1 => SymbolsOf(its, MarkedIn(fs, sy))
<1> DEFINE marked == MarkedIn(fs, sy)
           rest == OpenIn(pos) \ {pos[Len(pos)]}
<1>4. /\ marked \in Seq(Symbol) /\ Len(marked) = Len(sy) /\ DOMAIN marked = DOMAIN sy
      /\ \A i \in DOMAIN sy : marked[i].at = sy[i].at /\ SymbolRight(its, marked[i], rest)
  BY WalkedMarks
<1> HAVE Len(fs) = 1
<1>1. Len(pos) = 1 /\ DOMAIN pos = 1..Len(pos) /\ InOrder(its, sy) /\ sy \in Seq(Symbol)
  BY WalkedFacts DEF Walked
<1>2. OpenIn(pos) = {pos[1]}
  BY <1>1 DEF OpenIn
<1>3. rest = {}
  BY <1>1, <1>2
<1>5. ASSUME NEW i \in DOMAIN marked, i > 1 PROVE marked[i - 1].at < marked[i].at
  <2>1. i \in DOMAIN sy /\ i - 1 \in DOMAIN sy
    BY <1>1, <1>4, <1>5
  <2>2. sy[i - 1].at < sy[i].at
    BY <1>1, <1>5, <2>1 DEF InOrder
  <2> QED
    BY <1>4, <2>1, <2>2
<1> HIDE DEF marked, rest
<1>6. SymbolsOf(its, marked)
  BY <1>1, <1>3, <1>4, <1>5 DEF SymbolsOf, InOrder
<1> QED
  BY <1>6 DEF marked

\* The walk from its start: no item yet, and one scope.
LEMMA WalkedStarts ==
  Walked(<<>>, <<Scope(<<>>)>>, <<>>, <<0>>)
<1>1. Around(<<>>, 1) = {} /\ DeclaredIn(<<>>) = {}
  BY DEF Around, DeclaredIn
<1>2. Nested(<<>>, <<0>>)
  BY <1>1 DEF Nested
<1>3. <<Scope(<<>>)>> \in Seq(Frame)
  BY DEF Scope, Frame
<1>4. \A name : ~Listed(<<>>, name, 0)
  BY DEF Listed
<1>5. FrameRight(<<>>, <<>>, Scope(<<>>), 1, 0)
  BY <1>4 DEF FrameRight, Scope
<1>6. InOrder(<<>>, <<>>)
  BY <1>1, FS_EmptySet DEF InOrder
<1> QED
  BY <1>2, <1>3, <1>5, <1>6 DEF Walked, Inside

WalkInv ==
  /\ phase \in {"idle", "scan", "parsed", "walk", "told"}
  /\ phase \in {"idle", "scan", "parsed"} =>
       items = <<>> /\ frames = <<Scope(<<>>)>> /\ symbols = <<>>
  /\ phase = "walk" => \E pos : Walked(items, frames, symbols, pos)
  /\ phase # "told" => answer = Silent
  /\ answer.what = "symbols" => SymbolsOf(items, symbols)
  /\ SignalKept

LEMMA WalkGoesOn ==
  ASSUME WalkInv, phase = "walk", Walk,
         NEW next, Walked(items', frames', symbols', next)
  PROVE  WalkInv'
<1>1. phase' = "walk" /\ answer' = answer /\ answer = Silent
  BY DEF WalkInv, Walk
<1>2. answer'.what = "nothing"
  BY <1>1 DEF Silent
<1> QED
  BY <1>1, <1>2 DEF WalkInv, SignalKept

LEMMA DeclareKeeps ==
  ASSUME WalkInv, NEW name \in Names, NEW exported \in BOOLEAN, Declare(name, exported)
  PROVE  WalkInv'
<1> DEFINE x == [kind |-> "decl", name |-> name, exported |-> exported]
<1>1. phase = "walk" /\ Walk /\ items' = Append(items, x)
  BY DEF Declare, Walking, Saw
<1>2. symbols' = Append(symbols, SymbolOf(items, frames, x)) /\ frames' = Taken(frames, symbols)
  BY DEF Declare, PutOut, SymbolOf, Taken, Inner, Mine
<1>3. x \in Item /\ x.kind = "decl"
  BY DEF Item
<1>4. PICK pos : Walked(items, frames, symbols, pos)
  BY <1>1 DEF WalkInv
<1> HIDE DEF x
<1>5. Walked(items', frames', symbols', pos)
  BY <1>1, <1>2, <1>3, <1>4, WalkedDeclares
<1> QED
  BY <1>1, <1>5, WalkGoesOn

LEMMA EnterModuleKeeps ==
  ASSUME WalkInv, NEW name \in Names, NEW exported \in BOOLEAN, EnterModule(name, exported)
  PROVE  WalkInv'
<1> DEFINE x == [kind |-> "module", name |-> name, exported |-> exported]
<1>1. phase = "walk" /\ Walk /\ items' = Append(items, x)
  BY DEF EnterModule, Walking, Saw
<1>2. /\ symbols' = Append(symbols, SymbolOf(items, frames, x))
      /\ frames' = Append(Taken(frames, symbols), Scope(Append(Last(frames).path, x.name)))
  BY DEF EnterModule, PutOut, SymbolOf, Taken, Inner, Mine
<1>3. x \in Item /\ x.kind = "module"
  BY DEF Item
<1>4. PICK pos : Walked(items, frames, symbols, pos)
  BY <1>1 DEF WalkInv
<1> HIDE DEF x
<1>5. Walked(items', frames', symbols', Append(pos, Len(items) + 1))
  BY <1>1, <1>2, <1>3, <1>4, WalkedEnters
<1> QED
  BY <1>1, <1>5, WalkGoesOn

LEMMA ExportKeeps ==
  ASSUME WalkInv, NEW names \in SUBSET Names, Export(names)
  PROVE  WalkInv'
<1> DEFINE x == [kind |-> "export", names |-> names]
<1>1. phase = "walk" /\ Walk /\ items' = Append(items, x)
  BY DEF Export, Walking, Saw
<1>2. symbols' = symbols /\ frames' = [frames EXCEPT ![Len(frames)].exports = @ \cup x.names]
  BY DEF Export
<1>3. x \in Item /\ x.kind = "export"
  BY DEF Item
<1>4. PICK pos : Walked(items, frames, symbols, pos)
  BY <1>1 DEF WalkInv
<1> HIDE DEF x
<1>5. Walked(items', frames', symbols', pos)
  BY <1>1, <1>2, <1>3, <1>4, WalkedLists
<1> QED
  BY <1>1, <1>5, WalkGoesOn

LEMMA LeaveKeeps ==
  ASSUME WalkInv, Leave
  PROVE  WalkInv'
<1> DEFINE x == [kind |-> "leave"]
<1>1. phase = "walk" /\ Walk /\ items' = Append(items, x) /\ Len(frames) > 1
  BY DEF Leave, Saw
<1>2. symbols' = MarkedIn(frames, symbols) /\ frames' = Front(frames)
  BY DEF Leave, Marked, MarkedIn, Inner
<1>3. x \in Item /\ x.kind = "leave"
  BY DEF Item
<1>4. PICK pos : Walked(items, frames, symbols, pos)
  BY <1>1 DEF WalkInv
<1> HIDE DEF x
<1>5. Walked(items', frames', symbols', SubSeq(pos, 1, Len(pos) - 1))
  BY <1>1, <1>2, <1>3, <1>4, WalkedLeaves
<1> QED
  BY <1>1, <1>5, WalkGoesOn

LEMMA FinishKeeps ==
  ASSUME WalkInv, Finish
  PROVE  WalkInv'
<1>1. /\ phase = "walk" /\ phase' = "told" /\ answer' = [what |-> "symbols"]
      /\ symbols' = MarkedIn(frames, symbols) /\ items' = items /\ Len(frames) = 1
  BY DEF Finish, Marked, MarkedIn, Inner
<1>2. PICK pos : Walked(items, frames, symbols, pos)
  BY <1>1 DEF WalkInv
<1>3. SymbolsOf(items', symbols')
  BY <1>1, <1>2, WalkedFinishes
<1>4. answer'.what = "symbols"
  BY <1>1
<1> QED
  BY <1>1, <1>3, <1>4 DEF WalkInv, SignalKept

LEMMA DiagnoseKeeps ==
  ASSUME WalkInv, NEW n \in 0..MaxErrors, NEW max \in 0..MaxErrors \cup {Absent},
         NEW v \in Rendered, Diagnose(n, max, v)
  PROVE  WalkInv'
<1> DEFINE listed == IF max = Absent \/ n <= max THEN n ELSE max
           rows == [i \in 1..listed |-> FromRender(v)]
<1>1. /\ phase' = "told"
      /\ answer' = [what |-> "diagnostics", success |-> n = 0, errors |-> n,
                    truncated |-> max # Absent /\ n > max, listed |-> rows]
  BY DEF Diagnose
<1>2. MaxErrors \in Nat /\ n \in Nat /\ (max # Absent => max \in Nat)
  BY SourceAssumption
<1>3. listed \in Nat /\ listed <= n /\ (listed < n <=> max # Absent /\ n > max)
  BY <1>2
<1> HIDE DEF listed
<1>4. Len(rows) = listed
  BY <1>3
<1> HIDE DEF rows
<1>5. /\ answer'.what = "diagnostics" /\ answer'.success = (n = 0) /\ answer'.errors = n
      /\ answer'.truncated = (max # Absent /\ n > max) /\ answer'.listed = rows
  BY <1>1
<1>6. SignalKept'
  BY <1>3, <1>4, <1>5 DEF SignalKept
<1> QED
  BY <1>1, <1>5, <1>6 DEF WalkInv

LEMMA RefuseKeeps ==
  ASSUME WalkInv, RefuseDeep
  PROVE  WalkInv'
<1>1. /\ phase' = "told"
      /\ \/ answer' = [what |-> "diagnostics", success |-> FALSE, errors |-> 1,
                       truncated |-> FALSE, listed |-> <<"refusal">>]
         \/ answer' = [what |-> "refused"]
  BY DEF RefuseDeep
<1>2. Len(<<"refusal">>) = 1
  OBVIOUS
<1>3. SignalKept' /\ answer'.what # "symbols"
  <2>1. CASE answer' = [what |-> "refused"]
    BY <2>1 DEF SignalKept
  <2>2. CASE answer' = [what |-> "diagnostics", success |-> FALSE, errors |-> 1,
                        truncated |-> FALSE, listed |-> <<"refusal">>]
    <3>1. /\ answer'.what = "diagnostics" /\ answer'.success = FALSE /\ answer'.errors = 1
          /\ answer'.truncated = FALSE /\ answer'.listed = <<"refusal">>
      BY <2>2
    <3> QED
      BY <1>2, <3>1 DEF SignalKept
  <2> QED
    BY <1>1, <2>1, <2>2
<1> QED
  BY <1>1, <1>3 DEF WalkInv

LEMMA OtherStepsKeepWalk ==
  ASSUME WalkInv
  PROVE  /\ AskText \/ ForgetText \/ ParseText => WalkInv'
         /\ \A t \in Tokens : Scan(t) => WalkInv'
         /\ \A n, recovered : Tally(n, recovered) => WalkInv'
<1>1. ASSUME AskText PROVE WalkInv'
  BY <1>1 DEF WalkInv, AskText, walkVars, Silent, SignalKept
<1>2. ASSUME ForgetText PROVE WalkInv'
  BY <1>2 DEF WalkInv, ForgetText, Silent, SignalKept
<1>3. ASSUME ParseText PROVE WalkInv'
  <2>1. /\ phase = "scan" /\ phase' \in {"walk", "parsed"} /\ answer' = answer
        /\ items' = items /\ frames' = frames /\ symbols' = symbols
    BY <1>3 DEF ParseText, walkVars
  <2>2. items = <<>> /\ frames = <<Scope(<<>>)>> /\ symbols = <<>> /\ answer = Silent
    BY <2>1 DEF WalkInv
  <2>3. Walked(items', frames', symbols', <<0>>)
    BY <2>1, <2>2, WalkedStarts
  <2> QED
    BY <2>1, <2>2, <2>3 DEF WalkInv, Silent, SignalKept
<1>4. ASSUME NEW t \in Tokens, Scan(t) PROVE WalkInv'
  <2>1. /\ phase = "scan" /\ phase' = phase /\ answer' = answer
        /\ items' = items /\ frames' = frames /\ symbols' = symbols
    BY <1>4 DEF Scan, walkVars
  <2> QED
    BY <2>1 DEF WalkInv, Silent, SignalKept
<1>5. ASSUME NEW n, NEW recovered, Tally(n, recovered) PROVE WalkInv'
  BY <1>5 DEF WalkInv, Tally, SignalKept
<1> QED
  BY <1>1, <1>2, <1>3, <1>4, <1>5

LEMMA WalkInvRight ==
  WalkInv => AnalysisRight
<1> SUFFICES ASSUME WalkInv, answer.what = "symbols" PROVE SymbolsRight
  BY DEF WalkInv, AnalysisRight, SymbolsRight
<1>1. SymbolsOf(items, symbols)
  BY DEF WalkInv
<1>2. ASSUME NEW i \in DOMAIN symbols
      PROVE  LET at == symbols[i].at
             IN  /\ at \in DeclaredIn(items)
                 /\ i > 1 => symbols[i - 1].at < at
                 /\ Len(symbols[i].module) > 0 <=> ScopeOf(at) # 0
                 /\ ScopeOf(at) # 0 => Last(symbols[i].module) = items[ScopeOf(at)].name
                 /\ symbols[i].exported <=>
                      \/ items[at].exported
                      \/ \E k \in DOMAIN items :
                           /\ items[k].kind = "export" /\ ScopeOf(k) = ScopeOf(at)
                           /\ items[at].name \in items[k].names
  BY <1>1 DEF SymbolsOf, SymbolRight, Listed, ScopeOf
<1>3. Len(symbols) = Cardinality(DeclaredIn(items))
  BY <1>1 DEF SymbolsOf
<1> QED
  BY <1>2, <1>3 DEF SymbolsRight, DeclaredIn

\* analyze/symbols.rs:52-63, model.rs: the symbols are the declarations of the text,
\* each once, in its module and exported by its scope alone, and the count of errors
\* is the count before the caller's maximum, for texts of every size and depth.
THEOREM AnalysisIsRight == SrcSpec => []AnalysisRight
<1>1. SrcInit => WalkInv
  BY DEF SrcInit, WalkInv, Silent, SignalKept
<1>2. ASSUME WalkInv, [SrcNext]_srcVars PROVE WalkInv'
  <2>1. ASSUME NEW n \in 0..MaxErrors, NEW max \in 0..MaxErrors \cup {Absent}, NEW v \in Rendered,
               Diagnose(n, max, v)
        PROVE  WalkInv'
    BY <1>2, <2>1, DiagnoseKeeps
  <2>2. ASSUME NEW name \in Names, NEW exported \in BOOLEAN,
               Declare(name, exported) \/ EnterModule(name, exported)
        PROVE  WalkInv'
    BY <1>2, <2>2, DeclareKeeps, EnterModuleKeeps
  <2>3. ASSUME NEW names \in SUBSET Names \ {{}}, Export(names) PROVE WalkInv'
    BY <1>2, <2>3, ExportKeeps
  <2>4. CASE UNCHANGED srcVars
    BY <1>2, <2>4 DEF srcVars, WalkInv, SignalKept
  <2>5. CASE RefuseDeep \/ Leave \/ Finish
    BY <1>2, <2>5, RefuseKeeps, LeaveKeeps, FinishKeeps
  <2> QED
    BY <1>2, <2>1, <2>2, <2>3, <2>4, <2>5, OtherStepsKeepWalk DEF SrcNext
<1> QED
  BY <1>1, <1>2, WalkInvRight, PTL DEF SrcSpec

-----------------------------------------------------------------------------
(* Induction, from the least element of a set of numbers *)

LEMMA LeastNat ==
  ASSUME NEW T \in SUBSET Nat, T # {}
  PROVE  \E n \in T : \A m \in T : n <= m
<1> DEFINE F == {0..n : n \in T}
<1>1. F \in SUBSET (SUBSET Nat) /\ F # {}
  <2>1. \A n \in T : 0..n \in SUBSET Nat
    OBVIOUS
  <2>2. PICK n \in T : TRUE
    OBVIOUS
  <2>3. 0..n \in F
    BY <2>2
  <2> QED
    BY <2>1, <2>3
<1>2. \A x \in F : IsFiniteSet(x)
  BY FS_Interval
<1>3. \A n \in T : 0..n \in F
  OBVIOUS
<1>4. \A x \in F : \E n \in T : x = 0..n
  OBVIOUS
<1> HIDE DEF F
<1>5. PICK x \in F : \A y \in F : y \subseteq x => y = x
  <2>1. F \subseteq FiniteSubsetsOf(Nat)
    BY <1>1, <1>2 DEF FiniteSubsetsOf
  <2>2. PICK x \in F : \A y \in F : ~(<<y, x>> \in StrictSubsetOrdering(Nat))
    BY <1>1, <2>1, FS_StrictSubsetOrderingWellFounded, WFMin, Zenon
  <2>3. \A y \in F : <<y, x>> \in StrictSubsetOrdering(Nat) <=> (y \subseteq x /\ y # x)
    BY <1>1 DEF StrictSubsetOrdering
  <2>4. \A y \in F : y \subseteq x => y = x
    BY <2>2, <2>3
  <2> QED
    BY <2>4
<1>6. PICK n \in T : x = 0..n
  BY <1>4
<1>7. ASSUME NEW m \in T PROVE n <= m
  <2> SUFFICES ASSUME m < n PROVE FALSE
    OBVIOUS
  <2>1. 0..m \subseteq 0..n /\ n \in 0..n /\ n \notin 0..m
    OBVIOUS
  <2>2. 0..m = 0..n
    BY <1>3, <1>5, <1>6, <2>1
  <2> QED
    BY <2>1, <2>2
<1> QED
  BY <1>7

LEMMA Induct ==
  ASSUME NEW T \in SUBSET Nat, 0 \in T, \A n \in T : n + 1 \in T
  PROVE  T = Nat
<1> SUFFICES ASSUME T # Nat PROVE FALSE
  OBVIOUS
<1> DEFINE U == Nat \ T
<1>1. U \in SUBSET Nat /\ U # {}
  OBVIOUS
<1> HIDE DEF U
<1>2. PICK n \in U : \A m \in U : n <= m
  BY <1>1, LeastNat
<1>3. n \in Nat /\ n \notin T /\ \A m \in Nat : m \in U \/ m \in T
  BY DEF U
<1>4. n # 0 /\ n - 1 \in Nat /\ (n - 1) + 1 = n
  BY <1>3
<1>5. n - 1 \notin U
  BY <1>2, <1>3, <1>4
<1>6. n - 1 \in T
  BY <1>3, <1>4, <1>5
<1> QED
  BY <1>3, <1>4, <1>6

-----------------------------------------------------------------------------
(* Source: the levels of the brackets *)

LevelStep(ts, f, n) ==
  IF n = 0 THEN 1
  ELSE IF ts[n] \in Openers THEN f[n - 1] + 1
  ELSE IF ts[n] \in Closers /\ f[n - 1] > 1 THEN f[n - 1] - 1
  ELSE f[n - 1]

\* The levels are what their definition says.
LEMMA LevelsExist ==
  ASSUME NEW ts \in Seq(Tokens)
  PROVE  LevelIn(ts) = [n \in 0..Len(ts) |-> LevelStep(ts, LevelIn(ts), n)]
<1> DEFINE Good(k) == \E f : f = [n \in 0..k |-> LevelStep(ts, f, n)]
           T == {k \in Nat : Good(k)}
<1>1. 0 \in T
  <2> DEFINE f == [n \in 0..0 |-> 1]
  <2>1. \A n \in 0..0 : LevelStep(ts, f, n) = 1
    BY DEF LevelStep
  <2>2. f = [n \in 0..0 |-> LevelStep(ts, f, n)]
    BY <2>1
  <2>3. Good(0)
    BY <2>2
  <2> QED
    BY <2>3
<1>2. ASSUME NEW k \in Nat, Good(k) PROVE Good(k + 1)
  <2>1. PICK f : f = [n \in 0..k |-> LevelStep(ts, f, n)]
    BY <1>2
  <2> DEFINE g == [n \in 0..k + 1 |-> IF n = k + 1 THEN LevelStep(ts, f, k + 1) ELSE f[n]]
  <2>2. ASSUME NEW n \in 0..k + 1 PROVE g[n] = LevelStep(ts, g, n)
    <3>1. n # 0 => n - 1 \in 0..k + 1 /\ n - 1 # k + 1
      OBVIOUS
    <3>2. n # 0 => g[n - 1] = f[n - 1]
      BY <3>1
    <3>3. LevelStep(ts, g, n) = LevelStep(ts, f, n)
      <4> HIDE DEF g
      <4> QED
        BY <3>2 DEF LevelStep
    <3>4. n # k + 1 => n \in 0..k
      OBVIOUS
    <3>5. n # k + 1 => f[n] = LevelStep(ts, f, n)
      <4> SUFFICES ASSUME n # k + 1 PROVE f[n] = LevelStep(ts, f, n)
        OBVIOUS
      <4>1. n \in 0..k
        BY <3>4
      <4> QED
        BY <2>1, <4>1
    <3> QED
      BY <3>3, <3>5
  <2>3. g = [n \in 0..k + 1 |-> LevelStep(ts, g, n)]
    <3>1. g = [n \in 0..k + 1 |-> g[n]]
      OBVIOUS
    <3> HIDE DEF g
    <3> QED
      BY <2>2, <3>1
  <2> QED
    BY <2>3
<1>3. Len(ts) \in T
  <2> HIDE DEF Good
  <2>1. T \in SUBSET Nat /\ 0 \in T /\ \A k \in T : k + 1 \in T
    BY <1>1, <1>2
  <2> HIDE DEF T
  <2>2. T = Nat
    BY <2>1, Induct
  <2> QED
    BY <2>2
<1>4. PICK f : f = [n \in 0..Len(ts) |-> LevelStep(ts, f, n)]
  BY <1>3
<1> QED
  BY <1>4 DEF LevelIn, LevelStep

LEMMA LevelFacts ==
  ASSUME NEW ts \in Seq(Tokens)
  PROVE  /\ LevelIn(ts)[0] = 1
         /\ \A n \in 1..Len(ts) : LevelIn(ts)[n] = LevelStep(ts, LevelIn(ts), n)
         /\ \A n \in 0..Len(ts) : LevelIn(ts)[n] \in Nat \ {0}
<1> DEFINE lev == LevelIn(ts)
           N == Len(ts)
           T == {n \in Nat : n \in 0..N => lev[n] \in Nat \ {0}}
<1>1. \A n \in 0..N : lev[n] = LevelStep(ts, lev, n)
  <2>1. lev = [n \in 0..N |-> LevelStep(ts, lev, n)]
    BY LevelsExist
  <2> HIDE DEF lev
  <2> QED
    BY <2>1
<1>2. N \in Nat
  OBVIOUS
<1> HIDE DEF lev, N
<1>3. lev[0] = 1
  BY <1>1, <1>2 DEF LevelStep
<1>4. 0 \in T /\ \A n \in T : n + 1 \in T
  <2>1. 0 \in T
    BY <1>3
  <2>2. ASSUME NEW n \in T PROVE n + 1 \in T
    <3> SUFFICES ASSUME n + 1 \in 0..N PROVE lev[n + 1] \in Nat \ {0}
      OBVIOUS
    <3>1. n \in 0..N /\ (n + 1) - 1 = n /\ n + 1 # 0
      BY <1>2
    <3>2. lev[n] \in Nat \ {0}
      BY <3>1
    <3>3. lev[n + 1] = LevelStep(ts, lev, n + 1)
      BY <1>1
    <3> HIDE DEF T
    <3> QED
      BY <3>1, <3>2, <3>3 DEF LevelStep
  <2> QED
    BY <2>1, <2>2
<1>5. T = Nat
  <2>1. T \in SUBSET Nat
    OBVIOUS
  <2> HIDE DEF T
  <2> QED
    BY <1>4, <2>1, Induct
<1>6. \A n \in 0..N : lev[n] \in Nat \ {0}
  BY <1>2, <1>5
<1>7. \A n \in 1..N : n \in 0..N
  BY <1>2
<1> QED
  BY <1>1, <1>3, <1>6, <1>7 DEF lev, N

\* One more token does not change the levels before it.
LEMMA LevelKeeps ==
  ASSUME NEW ts \in Seq(Tokens), NEW t \in Tokens
  PROVE  /\ \A n \in 0..Len(ts) : LevelIn(Append(ts, t))[n] = LevelIn(ts)[n]
         /\ LevelIn(Append(ts, t))[Len(ts) + 1] =
              IF t \in Openers THEN LevelIn(ts)[Len(ts)] + 1
              ELSE IF t \in Closers /\ LevelIn(ts)[Len(ts)] > 1 THEN LevelIn(ts)[Len(ts)] - 1
              ELSE LevelIn(ts)[Len(ts)]
<1> DEFINE lev == LevelIn(ts)
           new == Append(ts, t)
           more == LevelIn(new)
           N == Len(ts)
           T == {n \in Nat : n \in 0..N => more[n] = lev[n]}
<1>1. /\ new \in Seq(Tokens) /\ Len(new) = N + 1 /\ N \in Nat /\ new[N + 1] = t
      /\ \A n \in 1..N : new[n] = ts[n]
  BY AppendProperties
<1>2. lev[0] = 1 /\ \A n \in 1..N : lev[n] = LevelStep(ts, lev, n)
  BY LevelFacts
<1>3. more[0] = 1 /\ \A n \in 1..N + 1 : more[n] = LevelStep(new, more, n)
  BY <1>1, LevelFacts
<1> HIDE DEF lev, new, more, N
<1>4. 0 \in T /\ \A n \in T : n + 1 \in T
  <2>1. 0 \in T
    BY <1>2, <1>3
  <2>2. ASSUME NEW n \in T PROVE n + 1 \in T
    <3> SUFFICES ASSUME n + 1 \in 0..N PROVE more[n + 1] = lev[n + 1]
      OBVIOUS
    <3>1. n \in 0..N /\ (n + 1) - 1 = n /\ n + 1 # 0 /\ n + 1 \in 1..N /\ n + 1 \in 1..N + 1
      BY <1>1
    <3>2. more[n] = lev[n] /\ new[n + 1] = ts[n + 1]
      BY <1>1, <3>1
    <3>3. lev[n + 1] = LevelStep(ts, lev, n + 1) /\ more[n + 1] = LevelStep(new, more, n + 1)
      BY <1>2, <1>3, <3>1
    <3> HIDE DEF T
    <3> QED
      BY <3>1, <3>2, <3>3 DEF LevelStep
  <2> QED
    BY <2>1, <2>2
<1>5. T = Nat
  <2>1. T \in SUBSET Nat
    OBVIOUS
  <2> HIDE DEF T
  <2> QED
    BY <1>4, <2>1, Induct
<1>6. \A n \in 0..N : more[n] = lev[n]
  BY <1>1, <1>5
<1>7. more[N + 1] = LevelStep(new, more, N + 1) /\ N + 1 # 0 /\ (N + 1) - 1 = N /\ N \in 0..N
  BY <1>1, <1>3
<1>8. more[N + 1] = IF t \in Openers THEN lev[N] + 1
                    ELSE IF t \in Closers /\ lev[N] > 1 THEN lev[N] - 1
                    ELSE lev[N]
  BY <1>1, <1>6, <1>7 DEF LevelStep
<1> QED
  BY <1>6, <1>8 DEF lev, new, more, N

\* The last bracket that led to a level.
OpenerOf(ts, i, k, n) ==
  /\ i \in 1..n /\ ts[i] \in Openers /\ LevelIn(ts)[i] = k
  /\ \A j \in i + 1..n : ~(ts[j] \in Openers /\ LevelIn(ts)[j] = k)

IsCall(ts, i) == ts[i] = "open" /\ i > 1 /\ ts[i - 1] \in {"value"} \cup Closers

\* What is known once one more token was scanned.
LEMMA ScansMore ==
  ASSUME NEW ts \in Seq(Tokens), NEW t \in Tokens
  PROVE  LET new == Append(ts, t)
         IN  /\ new \in Seq(Tokens) /\ Len(new) = Len(ts) + 1 /\ Len(ts) \in Nat
             /\ new[Len(ts) + 1] = t /\ \A n \in 1..Len(ts) : new[n] = ts[n]
             /\ \A n \in 0..Len(ts) : LevelIn(new)[n] = LevelIn(ts)[n]
             /\ \A n \in 0..Len(ts) : LevelIn(ts)[n] \in Nat \ {0}
             /\ LevelIn(new)[Len(ts) + 1] \in Nat \ {0}
<1> DEFINE new == Append(ts, t)
           N == Len(ts)
<1>1. /\ new \in Seq(Tokens) /\ Len(new) = N + 1 /\ N \in Nat /\ new[N + 1] = t
      /\ \A n \in 1..N : new[n] = ts[n]
  BY AppendProperties
<1>2. \A n \in 0..N : LevelIn(new)[n] = LevelIn(ts)[n]
  BY LevelKeeps
<1>3. \A n \in 0..N : LevelIn(ts)[n] \in Nat \ {0}
  BY LevelFacts
<1>4. LevelIn(new)[N + 1] \in Nat \ {0}
  <2>1. \A n \in 0..Len(new) : LevelIn(new)[n] \in Nat \ {0}
    BY <1>1, LevelFacts
  <2>2. N + 1 \in 0..Len(new)
    BY <1>1
  <2> QED
    BY <2>1, <2>2
<1> QED
  BY <1>1, <1>2, <1>3, <1>4

LEMMA OpenerKeeps ==
  ASSUME NEW ts \in Seq(Tokens), NEW t \in Tokens, NEW i, NEW k, NEW n \in 0..Len(ts)
  PROVE  OpenerOf(Append(ts, t), i, k, n) <=> OpenerOf(ts, i, k, n)
<1> DEFINE new == Append(ts, t)
<1>1. /\ \A j \in 1..Len(ts) : new[j] = ts[j] /\ LevelIn(new)[j] = LevelIn(ts)[j]
      /\ Len(ts) \in Nat
  <2>1. /\ \A j \in 1..Len(ts) : new[j] = ts[j]
        /\ \A j \in 0..Len(ts) : LevelIn(new)[j] = LevelIn(ts)[j]
        /\ Len(ts) \in Nat
    BY ScansMore
  <2>2. \A j \in 1..Len(ts) : j \in 0..Len(ts)
    OBVIOUS
  <2> HIDE DEF new
  <2> QED
    BY <2>1, <2>2
<1>2. \A j \in 1..n : j \in 1..Len(ts)
  BY <1>1
<1>3. \A m \in 1..n : \A j \in m + 1..n : j \in 1..n
  BY <1>1
<1> HIDE DEF new
<1>4. OpenerOf(new, i, k, n) <=> OpenerOf(ts, i, k, n)
  BY <1>1, <1>2, <1>3 DEF OpenerOf
<1> QED
  BY <1>4 DEF new

LEMMA ClosesIsOpener ==
  ASSUME NEW ts, NEW j
  PROVE  ClosesCall(ts, j) <=>
           /\ ts[j] \in Closers /\ LevelIn(ts)[j - 1] > 1
           /\ \E i \in 2..j - 1 : OpenerOf(ts, i, LevelIn(ts)[j - 1], j - 1) /\ IsCall(ts, i)
<1>1. ASSUME NEW i PROVE Opens(ts, i, j) <=> OpenerOf(ts, i, LevelIn(ts)[j - 1], j - 1)
  BY DEF Opens, OpenerOf
<1>2. \A i \in 2..j - 1 : IsCall(ts, i) <=> (ts[i] = "open" /\ ts[i - 1] \in {"value"} \cup Closers)
  BY DEF IsCall
<1> QED
  BY <1>1, <1>2 DEF ClosesCall

LEMMA ClosesKeeps ==
  ASSUME NEW ts \in Seq(Tokens), NEW t \in Tokens, NEW j \in 1..Len(ts)
  PROVE  ClosesCall(Append(ts, t), j) <=> ClosesCall(ts, j)
<1> DEFINE new == Append(ts, t)
           lev == LevelIn(ts)[j - 1]
<1>1. /\ Len(ts) \in Nat /\ new[j] = ts[j] /\ LevelIn(new)[j - 1] = lev
      /\ \A n \in 1..Len(ts) : new[n] = ts[n]
  <2>1. j \in 1..Len(ts) /\ j - 1 \in 0..Len(ts)
    OBVIOUS
  <2> QED
    BY <2>1, ScansMore
<1>2. ASSUME NEW i \in 2..j - 1
      PROVE  /\ OpenerOf(new, i, lev, j - 1) <=> OpenerOf(ts, i, lev, j - 1)
             /\ IsCall(new, i) <=> IsCall(ts, i)
  <2>1. j - 1 \in 0..Len(ts) /\ i \in 1..Len(ts) /\ i - 1 \in 1..Len(ts)
    BY <1>1
  <2>2. OpenerOf(new, i, lev, j - 1) <=> OpenerOf(ts, i, lev, j - 1)
    BY <2>1, OpenerKeeps
  <2> HIDE DEF new
  <2>3. IsCall(new, i) <=> IsCall(ts, i)
    BY <1>1, <2>1 DEF IsCall
  <2> QED
    BY <2>2, <2>3
<1>3. ClosesCall(new, j) <=>
           /\ new[j] \in Closers /\ lev > 1
           /\ \E i \in 2..j - 1 : OpenerOf(new, i, lev, j - 1) /\ IsCall(new, i)
  BY <1>1, ClosesIsOpener
<1>4. ClosesCall(ts, j) <=>
           /\ ts[j] \in Closers /\ lev > 1
           /\ \E i \in 2..j - 1 : OpenerOf(ts, i, lev, j - 1) /\ IsCall(ts, i)
  BY ClosesIsOpener
<1> HIDE DEF new, lev
<1> QED
  BY <1>1, <1>2, <1>3, <1>4 DEF new

\* What is charged before a token, and after it.
LEMMA ChargedKeeps ==
  ASSUME NEW ts \in Seq(Tokens), NEW t \in Tokens, NEW n \in 0..Len(ts)
  PROVE  Charged(Append(ts, t), n) = Charged(ts, n)
<1> DEFINE new == Append(ts, t)
           lev == LevelIn(ts)
           more == LevelIn(new)
<1>1. /\ Len(ts) \in Nat /\ \A j \in 1..Len(ts) : new[j] = ts[j]
      /\ \A j \in 0..Len(ts) : more[j] = lev[j]
  BY ScansMore
<1>2. \A j \in 1..Len(ts) : ClosesCall(new, j) <=> ClosesCall(ts, j)
  BY ClosesKeeps
<1>3. \A i \in 1..n : /\ i \in 1..Len(ts) /\ i \in 0..Len(ts)
                      /\ \A j \in i + 1..n : j \in 1..Len(ts) /\ j - 1 \in 0..Len(ts)
                      /\ \A j \in i..n : j \in 1..Len(ts) /\ j \in 0..Len(ts)
  BY <1>1
<1> HIDE DEF new, lev, more
<1>4. Charged(new, n) =
        {i \in 1..n :
           /\ new[i] = "op" \/ ClosesCall(new, i)
           /\ ~\E j \in i + 1..n : new[j] \in Closers /\ more[j - 1] = more[i]
           /\ ~\E j \in i..n : new[j] \in {"semi", "end"} /\ more[j] = more[i]}
  BY DEF Charged, more
<1>5. Charged(ts, n) =
        {i \in 1..n :
           /\ ts[i] = "op" \/ ClosesCall(ts, i)
           /\ ~\E j \in i + 1..n : ts[j] \in Closers /\ lev[j - 1] = lev[i]
           /\ ~\E j \in i..n : ts[j] \in {"semi", "end"} /\ lev[j] = lev[i]}
  BY DEF Charged, lev
<1>6. ASSUME NEW i \in 1..n
      PROVE  /\ (new[i] = "op" \/ ClosesCall(new, i)) <=> (ts[i] = "op" \/ ClosesCall(ts, i))
             /\ (\E j \in i + 1..n : new[j] \in Closers /\ more[j - 1] = more[i])
                  <=> (\E j \in i + 1..n : ts[j] \in Closers /\ lev[j - 1] = lev[i])
             /\ (\E j \in i..n : new[j] \in {"semi", "end"} /\ more[j] = more[i])
                  <=> (\E j \in i..n : ts[j] \in {"semi", "end"} /\ lev[j] = lev[i])
  BY <1>1, <1>2, <1>3
<1>7. Charged(new, n) = Charged(ts, n)
  BY <1>4, <1>5, <1>6
<1> QED
  BY <1>7 DEF new

LEMMA ChargedNext ==
  ASSUME NEW ts \in Seq(Tokens), NEW t \in Tokens
  PROVE  LET N == Len(ts)
             new == Append(ts, t)
         IN  Charged(new, N + 1) =
               {i \in Charged(ts, N) :
                  /\ ~(t \in Closers /\ LevelIn(ts)[i] = LevelIn(ts)[N])
                  /\ ~(t \in {"semi", "end"} /\ LevelIn(ts)[i] = LevelIn(new)[N + 1])}
               \cup (IF t = "op" \/ (t = "close" /\ ClosesCall(new, N + 1)) THEN {N + 1} ELSE {})
<1> DEFINE N == Len(ts)
           new == Append(ts, t)
           lev == LevelIn(ts)
           more == LevelIn(new)
           stay == {i \in Charged(ts, N) :
                      /\ ~(t \in Closers /\ lev[i] = lev[N])
                      /\ ~(t \in {"semi", "end"} /\ lev[i] = more[N + 1])}
           added == t = "op" \/ (t = "close" /\ ClosesCall(new, N + 1))
<1>1. /\ N \in Nat /\ new[N + 1] = t /\ \A j \in 1..N : new[j] = ts[j]
      /\ \A j \in 0..N : more[j] = lev[j]
  BY ScansMore
<1>2. \A j \in 1..N : ClosesCall(new, j) <=> ClosesCall(ts, j)
  BY ClosesKeeps
<1>3. ClosesCall(new, N + 1) => new[N + 1] \in Closers
  BY DEF ClosesCall
<1> HIDE DEF N, new, lev, more
<1>4. Charged(new, N + 1) =
        {i \in 1..N + 1 :
           /\ new[i] = "op" \/ ClosesCall(new, i)
           /\ ~\E j \in i + 1..N + 1 : new[j] \in Closers /\ more[j - 1] = more[i]
           /\ ~\E j \in i..N + 1 : new[j] \in {"semi", "end"} /\ more[j] = more[i]}
  BY DEF Charged, more
<1>5. Charged(ts, N) =
        {i \in 1..N :
           /\ ts[i] = "op" \/ ClosesCall(ts, i)
           /\ ~\E j \in i + 1..N : ts[j] \in Closers /\ lev[j - 1] = lev[i]
           /\ ~\E j \in i..N : ts[j] \in {"semi", "end"} /\ lev[j] = lev[i]}
  BY DEF Charged, lev
<1>6. ASSUME NEW i \in 1..N PROVE i \in Charged(new, N + 1) <=> i \in stay
  <2>1. /\ i \in 0..N /\ i + 1..N + 1 = (i + 1..N) \cup {N + 1} /\ i..N + 1 = (i..N) \cup {N + 1}
        /\ \A j \in i + 1..N : j \in 1..N /\ j - 1 \in 0..N
        /\ \A j \in i..N : j \in 1..N /\ j \in 0..N
        /\ (N + 1) - 1 = N /\ N \in 0..N /\ i \in 1..N + 1
    BY <1>1
  <2>2. (\E j \in i + 1..N + 1 : new[j] \in Closers /\ more[j - 1] = more[i]) <=>
          \/ \E j \in i + 1..N : ts[j] \in Closers /\ lev[j - 1] = lev[i]
          \/ t \in Closers /\ lev[N] = lev[i]
    BY <1>1, <2>1
  <2>3. (\E j \in i..N + 1 : new[j] \in {"semi", "end"} /\ more[j] = more[i]) <=>
          \/ \E j \in i..N : ts[j] \in {"semi", "end"} /\ lev[j] = lev[i]
          \/ t \in {"semi", "end"} /\ more[N + 1] = lev[i]
    BY <1>1, <2>1
  <2>4. (new[i] = "op" \/ ClosesCall(new, i)) <=> (ts[i] = "op" \/ ClosesCall(ts, i))
    BY <1>1, <1>2
  <2>5. i \in Charged(new, N + 1) <=>
           /\ new[i] = "op" \/ ClosesCall(new, i)
           /\ ~\E j \in i + 1..N + 1 : new[j] \in Closers /\ more[j - 1] = more[i]
           /\ ~\E j \in i..N + 1 : new[j] \in {"semi", "end"} /\ more[j] = more[i]
    BY <1>4, <2>1
  <2>6. i \in Charged(ts, N) <=>
           /\ ts[i] = "op" \/ ClosesCall(ts, i)
           /\ ~\E j \in i + 1..N : ts[j] \in Closers /\ lev[j - 1] = lev[i]
           /\ ~\E j \in i..N : ts[j] \in {"semi", "end"} /\ lev[j] = lev[i]
    BY <1>5
  <2> QED
    BY <2>2, <2>3, <2>4, <2>5, <2>6
<1>7. N + 1 \in Charged(new, N + 1) <=> added
  <2>1. /\ (N + 1) + 1..N + 1 = {} /\ (N + 1)..N + 1 = {N + 1} /\ N + 1 \in 1..N + 1
    BY <1>1
  <2>2. N + 1 \in Charged(new, N + 1) <=>
           /\ new[N + 1] = "op" \/ ClosesCall(new, N + 1)
           /\ ~\E j \in (N + 1) + 1..N + 1 : new[j] \in Closers /\ more[j - 1] = more[N + 1]
           /\ ~\E j \in (N + 1)..N + 1 : new[j] \in {"semi", "end"} /\ more[j] = more[N + 1]
    BY <1>4, <2>1
  <2>3. N + 1 \in Charged(new, N + 1) <=>
          (t = "op" \/ ClosesCall(new, N + 1)) /\ t \notin {"semi", "end"}
    BY <1>1, <2>1, <2>2
  <2> QED
    BY <1>1, <1>3, <2>3 DEF Closers
<1>8. /\ Charged(new, N + 1) \subseteq (1..N) \cup {N + 1} /\ stay \subseteq 1..N
      /\ N + 1 \notin 1..N
  <2>1. 1..N + 1 = (1..N) \cup {N + 1} /\ N + 1 \notin 1..N
    BY <1>1
  <2> QED
    BY <1>4, <1>5, <2>1
<1> HIDE DEF stay, added
<1>9. Charged(new, N + 1) = stay \cup (IF added THEN {N + 1} ELSE {})
  BY <1>6, <1>7, <1>8
<1> QED
  BY <1>9 DEF stay, added, N, new, lev, more

\* What the levels count: the charges of each, and all of them.
Bracket == [ops : Nat, postfix : BOOLEAN]
ChargesAt(charged, lev, k) == {i \in charged : lev[i] = k}
Without(charged, lev, k) == {i \in charged : lev[i] # k}

Counts(ls, s, charged, lev) ==
  /\ ls \in Seq(Bracket) /\ Len(ls) > 0
  /\ IsFiniteSet(charged) /\ \A i \in charged : lev[i] \in 1..Len(ls)
  /\ \A k \in 1..Len(ls) : ls[k].ops = Cardinality(ChargesAt(charged, lev, k))
  /\ s = Cardinality(charged)

LEMMA CountsSame ==
  ASSUME NEW ls, NEW s, NEW charged, NEW lev, Counts(ls, s, charged, lev),
         NEW other, \A i \in charged : other[i] = lev[i]
  PROVE  Counts(ls, s, charged, other)
<1>1. \A k : ChargesAt(charged, other, k) = ChargesAt(charged, lev, k)
  BY DEF ChargesAt
<1> QED
  BY <1>1 DEF Counts

\* Without what is charged to the last level.
LEMMA WithoutLast ==
  ASSUME NEW ls, NEW s, NEW charged, NEW lev, Counts(ls, s, charged, lev)
  PROVE  LET rest == Without(charged, lev, Len(ls))
         IN  /\ IsFiniteSet(rest) /\ rest \subseteq charged
             /\ Minus(s, Last(ls).ops) = Cardinality(rest)
             /\ \A k : ChargesAt(rest, lev, k) =
                         IF k = Len(ls) THEN {} ELSE ChargesAt(charged, lev, k)
<1> DEFINE L == Len(ls)
           rest == Without(charged, lev, L)
           gone == ChargesAt(charged, lev, L)
<1>1. /\ ls \in Seq(Bracket) /\ L \in Nat /\ L > 0 /\ L \in 1..L
      /\ IsFiniteSet(charged) /\ s = Cardinality(charged)
      /\ ls[L].ops = Cardinality(gone)
  BY DEF Counts
<1>2. gone \subseteq charged /\ rest = charged \ gone
  BY DEF ChargesAt, Without
<1>3. \A k : ChargesAt(rest, lev, k) = IF k = L THEN {} ELSE ChargesAt(charged, lev, k)
  BY DEF ChargesAt, Without
<1>4. Last(ls).ops = Cardinality(gone)
  BY <1>1 DEF Last
<1> HIDE DEF L, rest, gone
<1>5. IsFiniteSet(rest) /\ rest \subseteq charged
  BY <1>1, <1>2, FS_Subset
<1>6. Cardinality(rest) = Cardinality(charged) - Cardinality(gone)
  <2>1. charged \cap gone = gone
    BY <1>2
  <2>2. Cardinality(charged \ gone) = Cardinality(charged) - Cardinality(charged \cap gone)
    BY <1>1, FS_Difference
  <2> QED
    BY <1>2, <2>1, <2>2
<1>7. IsFiniteSet(gone) /\ Cardinality(gone) <= Cardinality(charged)
  BY <1>1, <1>2, FS_Subset
<1>8. Cardinality(gone) \in Nat /\ Cardinality(charged) \in Nat
  BY <1>1, <1>7, FS_CardinalityType
<1>9. Minus(s, Last(ls).ops) = Cardinality(rest)
  <2> DEFINE a == Cardinality(charged)
             b == Cardinality(gone)
  <2>1. a \in Nat /\ b \in Nat /\ b <= a
    BY <1>7, <1>8
  <2> HIDE DEF a, b
  <2>2. Minus(a, b) = a - b
    BY <2>1 DEF Minus
  <2> QED
    BY <1>1, <1>4, <1>6, <2>2 DEF a, b
<1> QED
  BY <1>3, <1>5, <1>9 DEF rest, L

LEMMA OpensCounts ==
  ASSUME NEW ls, NEW s, NEW charged, NEW lev, Counts(ls, s, charged, lev), NEW b \in BOOLEAN
  PROVE  Counts(Append(ls, [ops |-> 0, postfix |-> b]), s, charged, lev)
<1> DEFINE L == Len(ls)
           top == [ops |-> 0, postfix |-> b]
           more == Append(ls, top)
<1>1. /\ ls \in Seq(Bracket) /\ L \in Nat /\ L > 0
      /\ IsFiniteSet(charged) /\ s = Cardinality(charged)
      /\ \A i \in charged : lev[i] \in 1..L
      /\ \A k \in 1..L : ls[k].ops = Cardinality(ChargesAt(charged, lev, k))
  BY DEF Counts
<1>2. top \in Bracket /\ top.ops = 0
  BY DEF Bracket
<1> HIDE DEF top
<1>3. /\ more \in Seq(Bracket) /\ Len(more) = L + 1 /\ more[L + 1] = top
      /\ \A k \in 1..L : more[k] = ls[k]
  BY <1>1, <1>2, AppendProperties
<1> HIDE DEF more, L
<1>4. 1..L + 1 = (1..L) \cup {L + 1} /\ L + 1 \notin 1..L
  BY <1>1
<1>5. ChargesAt(charged, lev, L + 1) = {}
  BY <1>1, <1>4 DEF ChargesAt
<1>6. \A k \in 1..L + 1 : more[k].ops = Cardinality(ChargesAt(charged, lev, k))
  BY <1>1, <1>2, <1>3, <1>4, <1>5, FS_EmptySet
<1>7. Len(more) > 0 /\ \A i \in charged : lev[i] \in 1..Len(more)
  BY <1>1, <1>3, <1>4
<1>8. Counts(more, s, charged, lev)
  BY <1>1, <1>3, <1>6, <1>7 DEF Counts
<1> QED
  BY <1>8 DEF more, top

LEMMA ClearsCounts ==
  ASSUME NEW ls, NEW s, NEW charged, NEW lev, Counts(ls, s, charged, lev)
  PROVE  /\ Counts(Cleared(ls), Minus(s, Last(ls).ops), Without(charged, lev, Len(ls)), lev)
         /\ Len(Cleared(ls)) = Len(ls)
         /\ \A k \in 1..Len(ls) : Cleared(ls)[k].postfix = ls[k].postfix
<1> DEFINE L == Len(ls)
           rest == Without(charged, lev, L)
           top == [ls[L] EXCEPT !.ops = 0]
           more == [ls EXCEPT ![L] = top]
<1>1. /\ ls \in Seq(Bracket) /\ L \in Nat /\ L > 0 /\ L \in 1..L /\ ls[L] \in Bracket
      /\ \A i \in charged : lev[i] \in 1..L
      /\ \A k \in 1..L : ls[k].ops = Cardinality(ChargesAt(charged, lev, k))
  BY DEF Counts
<1>2. /\ IsFiniteSet(rest) /\ rest \subseteq charged
      /\ Minus(s, Last(ls).ops) = Cardinality(rest)
      /\ \A k : ChargesAt(rest, lev, k) = IF k = L THEN {} ELSE ChargesAt(charged, lev, k)
  BY WithoutLast
<1>3. Cleared(ls) = more
  BY DEF Cleared
<1>4. top \in Bracket /\ top.ops = 0 /\ top.postfix = ls[L].postfix
  BY <1>1 DEF Bracket
<1> HIDE DEF top, L, rest
<1>5. /\ more \in Seq(Bracket) /\ Len(more) = L
      /\ \A k \in 1..L : more[k] = IF k = L THEN top ELSE ls[k]
  BY <1>1, <1>4, ExceptSeq DEF L
<1> HIDE DEF more
<1>6. \A k \in 1..L : more[k].ops = Cardinality(ChargesAt(rest, lev, k))
  BY <1>1, <1>2, <1>4, <1>5, FS_EmptySet
<1>7. \A k \in 1..L : more[k].postfix = ls[k].postfix
  BY <1>4, <1>5
<1>8. Counts(more, Minus(s, Last(ls).ops), rest, lev)
  BY <1>1, <1>2, <1>5, <1>6 DEF Counts
<1> QED
  BY <1>3, <1>5, <1>7, <1>8 DEF L, rest

LEMMA ChargesCounts ==
  ASSUME NEW ls, NEW s, NEW charged, NEW lev, Counts(ls, s, charged, lev),
         NEW x, x \notin charged, lev[x] = Len(ls)
  PROVE  /\ Counts(Charge(ls), s + 1, charged \cup {x}, lev)
         /\ Len(Charge(ls)) = Len(ls)
         /\ \A k \in 1..Len(ls) : Charge(ls)[k].postfix = ls[k].postfix
<1> DEFINE L == Len(ls)
           all == charged \cup {x}
           top == [ls[L] EXCEPT !.ops = @ + 1]
           more == [ls EXCEPT ![L] = top]
           mine == ChargesAt(charged, lev, L)
<1>1. /\ ls \in Seq(Bracket) /\ L \in Nat /\ L > 0 /\ L \in 1..L /\ ls[L] \in Bracket
      /\ IsFiniteSet(charged) /\ s = Cardinality(charged)
      /\ \A i \in charged : lev[i] \in 1..L
      /\ \A k \in 1..L : ls[k].ops = Cardinality(ChargesAt(charged, lev, k))
  BY DEF Counts
<1>2. Charge(ls) = more
  BY DEF Charge
<1>3. top \in Bracket /\ top.ops = ls[L].ops + 1 /\ top.postfix = ls[L].postfix
  BY <1>1 DEF Bracket
<1>4. lev[x] = L
  OBVIOUS
<1> HIDE DEF top, L, all, mine
<1>5. /\ more \in Seq(Bracket) /\ Len(more) = L
      /\ \A k \in 1..L : more[k] = IF k = L THEN top ELSE ls[k]
  BY <1>1, <1>3, ExceptSeq DEF L
<1> HIDE DEF more
<1>6. IsFiniteSet(all) /\ Cardinality(all) = s + 1
  BY <1>1, FS_AddElement DEF all
<1>7. ASSUME NEW k \in 1..L PROVE more[k].ops = Cardinality(ChargesAt(all, lev, k))
  <2>1. CASE k = L
    <3>1. ChargesAt(all, lev, k) = mine \cup {x} /\ mine \subseteq charged /\ x \notin mine
      BY <1>4, <2>1 DEF ChargesAt, all, mine
    <3>2. IsFiniteSet(mine)
      BY <1>1, <3>1, FS_Subset
    <3>3. Cardinality(ChargesAt(all, lev, k)) = Cardinality(mine) + 1
      BY <3>1, <3>2, FS_AddElement
    <3>4. ls[L].ops = Cardinality(mine)
      BY <1>1 DEF mine
    <3> QED
      BY <1>3, <1>5, <2>1, <3>3, <3>4
  <2>2. CASE k # L
    <3>1. ChargesAt(all, lev, k) = ChargesAt(charged, lev, k)
      BY <1>4, <2>2 DEF ChargesAt, all
    <3> QED
      BY <1>1, <1>5, <2>2, <3>1
  <2> QED
    BY <2>1, <2>2
<1>8. \A k \in 1..L : more[k].postfix = ls[k].postfix
  BY <1>3, <1>5
<1>9. \A i \in all : lev[i] \in 1..L
  BY <1>1, <1>4 DEF all
<1>10. Counts(more, s + 1, all, lev)
  BY <1>1, <1>5, <1>6, <1>7, <1>9 DEF Counts
<1> QED
  BY <1>2, <1>5, <1>8, <1>10 DEF L, all

\* A level is left, and never the last one.
LEMMA PopsCounts ==
  ASSUME NEW ls, NEW s, NEW charged, NEW lev, Counts(ls, s, charged, lev)
  PROVE  LET below == IF Len(ls) = 1 THEN <<Ground>> ELSE Front(ls)
         IN  /\ Counts(below, Minus(s, Last(ls).ops), Without(charged, lev, Len(ls)), lev)
             /\ Len(ls) > 1 => Len(below) = Len(ls) - 1
             /\ Len(ls) > 1 => \A k \in 1..Len(ls) - 1 : below[k] = ls[k]
<1> DEFINE L == Len(ls)
           rest == Without(charged, lev, L)
           below == IF L = 1 THEN <<Ground>> ELSE Front(ls)
<1>1. /\ ls \in Seq(Bracket) /\ L \in Nat /\ L > 0
      /\ \A i \in charged : lev[i] \in 1..L
      /\ \A k \in 1..L : ls[k].ops = Cardinality(ChargesAt(charged, lev, k))
  BY DEF Counts
<1>2. /\ IsFiniteSet(rest) /\ rest \subseteq charged
      /\ Minus(s, Last(ls).ops) = Cardinality(rest)
      /\ \A k : ChargesAt(rest, lev, k) = IF k = L THEN {} ELSE ChargesAt(charged, lev, k)
  BY WithoutLast
<1>3. CASE L = 1
  <2>1. below = <<Ground>> /\ Ground \in Bracket /\ Ground.ops = 0
    BY <1>3 DEF Ground, Bracket
  <2> HIDE DEF below, rest
  <2>2. /\ below \in Seq(Bracket) /\ Len(below) = 1 /\ below[1] = Ground
    BY <2>1
  <2>3. rest = {}
    <3>1. \A i \in charged : lev[i] = L
      BY <1>1, <1>3
    <3> QED
      BY <3>1 DEF rest, Without
  <2>4. \A k \in 1..Len(below) : below[k].ops = Cardinality(ChargesAt(rest, lev, k))
    <3>1. ChargesAt(rest, lev, 1) = {}
      BY <2>3 DEF ChargesAt
    <3>2. below[1].ops = Cardinality(ChargesAt(rest, lev, 1))
      BY <2>1, <2>2, <3>1, FS_EmptySet
    <3> QED
      BY <2>2, <3>2
  <2>5. Counts(below, Minus(s, Last(ls).ops), rest, lev)
    BY <1>2, <2>2, <2>3, <2>4 DEF Counts
  <2> QED
    BY <1>3, <2>5 DEF below, rest
<1>4. CASE L # 1
  <2>1. below = SubSeq(ls, 1, L - 1) /\ L > 1
    <3>1. below = Front(ls)
      BY <1>4
    <3>2. Front(ls) = SubSeq(ls, 1, L - 1)
      BY DEF Front
    <3> HIDE DEF L, below
    <3> QED
      BY <1>1, <1>4, <3>1, <3>2
  <2> HIDE DEF below, rest, L
  <2>2. /\ below \in Seq(Bracket) /\ Len(below) = L - 1
        /\ \A k \in 1..L - 1 : below[k] = ls[k]
    BY <1>1, <2>1, SubSeqProperties DEF L
  <2>3. \A k \in 1..L - 1 : k \in 1..L /\ k # L
    BY <1>1
  <2>4. \A k \in 1..L - 1 : below[k].ops = Cardinality(ChargesAt(rest, lev, k))
    BY <1>1, <1>2, <2>2, <2>3
  <2>5. \A i \in rest : lev[i] \in 1..L - 1
    <3>1. \A i \in rest : lev[i] \in 1..L /\ lev[i] # L
      BY <1>1 DEF rest, Without
    <3>2. \A k \in 1..L : k # L => k \in 1..L - 1
      BY <1>1
    <3> QED
      BY <3>1, <3>2
  <2>6. L - 1 > 0
    BY <1>1, <2>1
  <2>7. Counts(below, Minus(s, Last(ls).ops), rest, lev)
    BY <1>2, <2>2, <2>4, <2>5, <2>6 DEF Counts
  <2> QED
    BY <2>2, <2>7 DEF below, rest, L
<1> QED
  BY <1>3, <1>4

\* Which levels are of calls: each knows the bracket that led to it.
Marks(ts, ls) ==
  /\ ~ls[1].postfix
  /\ \A k \in 2..Len(ls) :
       \E i : OpenerOf(ts, i, k, Len(ts)) /\ (ls[k].postfix <=> IsCall(ts, i))

Scanned(ts, ls, s, e) ==
  /\ ts \in Seq(Tokens)
  /\ Counts(ls, s, Charged(ts, Len(ts)), LevelIn(ts))
  /\ Len(ls) = LevelIn(ts)[Len(ts)]
  /\ Marks(ts, ls)
  /\ e \in BOOLEAN /\ (e <=> (Len(ts) > 0 /\ ts[Len(ts)] \in {"value"} \cup Closers))

LEMMA CallKeeps ==
  ASSUME NEW ts \in Seq(Tokens), NEW t \in Tokens, NEW i \in 1..Len(ts)
  PROVE  IsCall(Append(ts, t), i) <=> IsCall(ts, i)
<1> DEFINE new == Append(ts, t)
<1>1. \A n \in 1..Len(ts) : new[n] = ts[n]
  BY ScansMore
<1>2. i > 1 => i - 1 \in 1..Len(ts)
  OBVIOUS
<1> HIDE DEF new
<1>3. IsCall(new, i) <=> IsCall(ts, i)
  BY <1>1, <1>2 DEF IsCall
<1> QED
  BY <1>3 DEF new

LEMMA MarksKeep ==
  ASSUME NEW ts \in Seq(Tokens), NEW t \in Tokens \ Openers, NEW ls, Marks(ts, ls),
         NEW more, Len(ls) \in Nat, Len(more) \in Nat, Len(more) > 0, Len(more) <= Len(ls),
         \A k \in 1..Len(more) : more[k].postfix = ls[k].postfix
  PROVE  Marks(Append(ts, t), more)
<1> DEFINE new == Append(ts, t)
           N == Len(ts)
<1>1. /\ Len(new) = N + 1 /\ N \in Nat /\ new[N + 1] = t /\ N \in 0..N
      /\ \A n \in 1..N : new[n] = ts[n]
  BY ScansMore
<1>2. ASSUME NEW k \in 2..Len(more)
      PROVE  \E i : OpenerOf(new, i, k, Len(new)) /\ (more[k].postfix <=> IsCall(new, i))
  <2>1. k \in 2..Len(ls) /\ k \in 1..Len(more)
    OBVIOUS
  <2>2. PICK i : OpenerOf(ts, i, k, N) /\ (ls[k].postfix <=> IsCall(ts, i))
    BY <2>1 DEF Marks
  <2>3. OpenerOf(new, i, k, N) /\ i \in 1..N
    <3>1. OpenerOf(new, i, k, N)
      BY <1>1, <2>2, OpenerKeeps
    <3> QED
      BY <2>2, <3>1 DEF OpenerOf
  <2>4. IsCall(new, i) <=> IsCall(ts, i)
    BY <2>3, CallKeeps
  <2>5. OpenerOf(new, i, k, N + 1)
    <3>1. i \in 1..N + 1 /\ \A j \in i + 1..N + 1 : j \in i + 1..N \/ j = N + 1
      BY <1>1, <2>3
    <3> HIDE DEF new, N
    <3> QED
      BY <1>1, <2>3, <3>1 DEF OpenerOf
  <2>6. OpenerOf(new, i, k, Len(new))
    BY <1>1, <2>5
  <2> HIDE DEF new
  <2> QED
    BY <2>1, <2>2, <2>4, <2>6
<1>3. ~more[1].postfix
  BY DEF Marks
<1> QED
  BY <1>2, <1>3 DEF Marks

LEMMA MarksOpen ==
  ASSUME NEW ts \in Seq(Tokens), NEW t \in Openers, NEW ls \in Seq(Bracket), Marks(ts, ls),
         Len(ls) > 0, Len(ls) = LevelIn(ts)[Len(ts)], NEW b \in BOOLEAN,
         b <=> IsCall(Append(ts, t), Len(ts) + 1)
  PROVE  Marks(Append(ts, t), Append(ls, [ops |-> 0, postfix |-> b]))
<1> DEFINE new == Append(ts, t)
           N == Len(ts)
           L == Len(ls)
           top == [ops |-> 0, postfix |-> b]
           more == Append(ls, top)
<1>1. /\ Len(new) = N + 1 /\ N \in Nat /\ new[N + 1] = t /\ N \in 0..N /\ t \in Tokens
      /\ \A n \in 1..N : new[n] = ts[n]
  BY ScansMore DEF Tokens
<1>2. LevelIn(new)[N + 1] = L + 1
  BY <1>1, LevelKeeps
<1>3. top \in Bracket /\ top.postfix = b
  BY DEF Bracket
<1>4. L \in Nat /\ L > 0
  OBVIOUS
<1> HIDE DEF top
<1>5. /\ Len(more) = L + 1 /\ more[L + 1] = top /\ \A k \in 1..L : more[k] = ls[k]
  BY <1>3, AppendProperties
<1> HIDE DEF more, L, new, N
<1>6. ASSUME NEW k \in 2..L
      PROVE  \E i : OpenerOf(new, i, k, N + 1) /\ (more[k].postfix <=> IsCall(new, i))
  <2>1. PICK i : OpenerOf(ts, i, k, N) /\ (ls[k].postfix <=> IsCall(ts, i))
    BY DEF Marks, L, N
  <2>2. OpenerOf(new, i, k, N) /\ i \in 1..N
    <3>1. OpenerOf(new, i, k, N)
      BY <1>1, <2>1, OpenerKeeps DEF new, N
    <3> QED
      BY <2>1, <3>1 DEF OpenerOf
  <2>3. IsCall(new, i) <=> IsCall(ts, i)
    BY <1>1, <2>2, CallKeeps DEF new, N
  <2>4. OpenerOf(new, i, k, N + 1)
    <3>1. i \in 1..N + 1 /\ \A j \in i + 1..N + 1 : j \in i + 1..N \/ j = N + 1
      BY <1>1, <2>2
    <3>2. L + 1 # k
      BY <1>4
    <3> QED
      BY <1>2, <2>2, <3>1, <3>2 DEF OpenerOf
  <2>5. more[k] = ls[k]
    BY <1>5
  <2> QED
    BY <2>1, <2>3, <2>4, <2>5
<1>7. OpenerOf(new, N + 1, L + 1, N + 1) /\ (more[L + 1].postfix <=> IsCall(new, N + 1))
  <2>1. N + 1 \in 1..N + 1 /\ (N + 1) + 1..N + 1 = {}
    BY <1>1
  <2>2. OpenerOf(new, N + 1, L + 1, N + 1)
    BY <1>1, <1>2, <2>1 DEF OpenerOf
  <2> QED
    BY <1>3, <1>5, <2>2 DEF new, N
<1>8. \A k \in 2..L + 1 : k \in 2..L \/ k = L + 1
  BY <1>4
<1>9. ~more[1].postfix
  <2>1. 1 \in 1..L
    BY <1>4
  <2> QED
    BY <1>5, <2>1 DEF Marks
<1>10. Marks(new, more)
  BY <1>1, <1>5, <1>6, <1>7, <1>8, <1>9 DEF Marks
<1> QED
  BY <1>10 DEF new, more, top

\* A closer closes a call exactly when the last level says so.
LEMMA TopIsCall ==
  ASSUME NEW ts, NEW ls, NEW s, NEW e, Scanned(ts, ls, s, e), NEW t \in Closers
  PROVE  ClosesCall(Append(ts, t), Len(ts) + 1) <=> Last(ls).postfix
<1> DEFINE new == Append(ts, t)
           N == Len(ts)
           L == Len(ls)
<1>1. ts \in Seq(Tokens) /\ Marks(ts, ls) /\ ls \in Seq(Bracket) /\ L > 0 /\ L = LevelIn(ts)[N]
  BY DEF Scanned, Counts
<1>2. t \in Tokens
  BY DEF Tokens
<1>3. /\ Len(new) = N + 1 /\ N \in Nat /\ new[N + 1] = t /\ N \in 0..N
      /\ \A n \in 1..N : new[n] = ts[n]
      /\ \A n \in 0..N : LevelIn(new)[n] = LevelIn(ts)[n]
  BY <1>1, <1>2, ScansMore
<1>4. (N + 1) - 1 = N /\ L \in Nat
  BY <1>1, <1>3
<1>5. Last(ls) = ls[L]
  BY DEF Last
<1>6. \A i : OpenerOf(new, i, L, N) <=> OpenerOf(ts, i, L, N)
  BY <1>1, <1>2, <1>3, OpenerKeeps
<1>7. \A i \in 1..N : IsCall(new, i) <=> IsCall(ts, i)
  BY <1>1, <1>2, CallKeeps
<1>8. ClosesCall(new, N + 1) <=>
        /\ new[N + 1] \in Closers /\ LevelIn(new)[(N + 1) - 1] > 1
        /\ \E i \in 2..(N + 1) - 1 :
             /\ OpenerOf(new, i, LevelIn(new)[(N + 1) - 1], (N + 1) - 1)
             /\ IsCall(new, i)
  BY ClosesIsOpener
<1>9. LevelIn(new)[N] = L
  BY <1>1, <1>3
<1> HIDE DEF new, N, L
<1>10. ClosesCall(new, N + 1) <=>
         L > 1 /\ \E i \in 2..N : OpenerOf(new, i, L, N) /\ IsCall(new, i)
  BY <1>3, <1>4, <1>8, <1>9
<1>11. CASE L = 1
  BY <1>1, <1>5, <1>10, <1>11 DEF Marks, new, N, L
<1>12. CASE L > 1
  <2>1. L \in 2..L
    BY <1>4, <1>12
  <2>2. PICK i : OpenerOf(ts, i, L, N) /\ (ls[L].postfix <=> IsCall(ts, i))
    BY <1>1, <2>1 DEF Marks, L, N
  <2>3. i \in 1..N
    BY <2>2 DEF OpenerOf
  <2>4. ASSUME NEW j, OpenerOf(ts, j, L, N) PROVE j = i
    <3>1. /\ j \in 1..N /\ ts[j] \in Openers /\ LevelIn(ts)[j] = L
          /\ ts[i] \in Openers /\ LevelIn(ts)[i] = L
          /\ \A m \in i + 1..N : ~(ts[m] \in Openers /\ LevelIn(ts)[m] = L)
          /\ \A m \in j + 1..N : ~(ts[m] \in Openers /\ LevelIn(ts)[m] = L)
      BY <2>2, <2>4 DEF OpenerOf
    <3>2. j \notin i + 1..N /\ i \notin j + 1..N
      BY <3>1
    <3> QED
      BY <1>3, <2>3, <3>1, <3>2
  <2>5. ClosesCall(new, N + 1) <=> \E j \in 2..N : OpenerOf(ts, j, L, N) /\ IsCall(ts, j)
    <3>1. \A j \in 2..N : j \in 1..N
      BY <1>3
    <3> QED
      BY <1>6, <1>7, <1>10, <1>12, <3>1
  <2>6. IsCall(ts, i) => i \in 2..N
    BY <1>3, <2>3 DEF IsCall
  <2>7. ClosesCall(new, N + 1) <=> IsCall(ts, i)
    BY <2>2, <2>4, <2>5, <2>6
  <2> QED
    BY <1>5, <2>2, <2>7 DEF new, N
<1>13. L = 1 \/ L > 1
  BY <1>1, <1>4 DEF L
<1> QED
  BY <1>11, <1>12, <1>13

\* What a token does to the charges and to the level, said of the levels.
LEMMA ScanStep ==
  ASSUME NEW ts, NEW ls, NEW s, NEW e, Scanned(ts, ls, s, e), NEW t \in Tokens
  PROVE  LET N == Len(ts)
             new == Append(ts, t)
             lev == LevelIn(new)
             C == Charged(ts, N)
             L == Len(ls)
         IN  /\ new \in Seq(Tokens) /\ Len(new) = N + 1 /\ new[N + 1] = t /\ N \in Nat
             /\ Counts(ls, s, C, lev) /\ N + 1 \notin C /\ L \in Nat /\ L > 0
             /\ lev[N + 1] = IF t \in Openers THEN L + 1
                             ELSE IF t \in Closers /\ L > 1 THEN L - 1 ELSE L
             /\ Charged(new, N + 1) =
                  {i \in C : /\ ~(t \in Closers /\ lev[i] = L)
                             /\ ~(t \in {"semi", "end"} /\ lev[i] = lev[N + 1])}
                  \cup (IF t = "op" \/ (t = "close" /\ ClosesCall(new, N + 1)) THEN {N + 1} ELSE {})
<1> DEFINE N == Len(ts)
           new == Append(ts, t)
           lev == LevelIn(new)
           old == LevelIn(ts)
           C == Charged(ts, N)
           L == Len(ls)
<1>1. /\ ts \in Seq(Tokens) /\ ls \in Seq(Bracket) /\ L > 0 /\ L = old[N] /\ L \in Nat
      /\ Counts(ls, s, C, old)
  BY DEF Scanned, Counts
<1>2. /\ new \in Seq(Tokens) /\ Len(new) = N + 1 /\ N \in Nat /\ new[N + 1] = t
      /\ \A n \in 0..N : lev[n] = old[n]
  BY <1>1, ScansMore
<1>3. C \subseteq 1..N
  BY DEF Charged
<1>4. \A i \in C : lev[i] = old[i]
  <2>1. \A i \in 1..N : i \in 0..N
    BY <1>2
  <2> HIDE DEF C, lev, old, N
  <2> QED
    BY <1>2, <1>3, <2>1
<1>5. Counts(ls, s, C, lev)
  <2> HIDE DEF C, lev, old
  <2> QED
    BY <1>1, <1>4, CountsSame
<1>6. N + 1 \notin C
  <2>1. N + 1 \notin 1..N
    BY <1>2
  <2> HIDE DEF C, N
  <2> QED
    BY <1>3, <2>1
<1>7. lev[N + 1] = IF t \in Openers THEN old[N] + 1
                   ELSE IF t \in Closers /\ old[N] > 1 THEN old[N] - 1 ELSE old[N]
  BY <1>1, LevelKeeps
<1>8. Charged(new, N + 1) =
        {i \in C : /\ ~(t \in Closers /\ old[i] = old[N])
                   /\ ~(t \in {"semi", "end"} /\ old[i] = lev[N + 1])}
        \cup (IF t = "op" \/ (t = "close" /\ ClosesCall(new, N + 1)) THEN {N + 1} ELSE {})
  BY <1>1, ChargedNext
<1> HIDE DEF C, lev, old, new, N, L
<1>9. {i \in C : /\ ~(t \in Closers /\ old[i] = old[N])
                 /\ ~(t \in {"semi", "end"} /\ old[i] = lev[N + 1])}
      = {i \in C : /\ ~(t \in Closers /\ lev[i] = L)
                   /\ ~(t \in {"semi", "end"} /\ lev[i] = lev[N + 1])}
  BY <1>1, <1>4
<1>10. lev[N + 1] = IF t \in Openers THEN L + 1
                    ELSE IF t \in Closers /\ L > 1 THEN L - 1 ELSE L
  BY <1>1, <1>7
<1>11. Charged(new, N + 1) =
        {i \in C : /\ ~(t \in Closers /\ lev[i] = L)
                   /\ ~(t \in {"semi", "end"} /\ lev[i] = lev[N + 1])}
        \cup (IF t = "op" \/ (t = "close" /\ ClosesCall(new, N + 1)) THEN {N + 1} ELSE {})
  BY <1>8, <1>9
<1> QED
  BY <1>1, <1>2, <1>5, <1>6, <1>10, <1>11 DEF C, lev, new, N, L

\* What is left to show of a token, once its levels are known.
LEMMA ScannedNext ==
  ASSUME NEW ts, NEW ls, NEW s, NEW e, Scanned(ts, ls, s, e), NEW t \in Tokens,
         NEW ls2, NEW s2,
         Counts(ls2, s2, Charged(Append(ts, t), Len(ts) + 1), LevelIn(Append(ts, t))),
         Len(ls2) = LevelIn(Append(ts, t))[Len(ts) + 1],
         Marks(Append(ts, t), ls2)
  PROVE  Scanned(Append(ts, t), ls2, s2, t \in {"value"} \cup Closers)
<1> DEFINE new == Append(ts, t)
           ends == t \in {"value"} \cup Closers
<1>1. new \in Seq(Tokens) /\ Len(new) = Len(ts) + 1 /\ new[Len(ts) + 1] = t /\ Len(ts) \in Nat
  BY ScanStep
<1>2. Len(new) > 0 /\ new[Len(new)] = t
  BY <1>1
<1>3. ends \in BOOLEAN /\ (ends <=> (Len(new) > 0 /\ new[Len(new)] \in {"value"} \cup Closers))
  BY <1>2
<1>4. /\ Counts(ls2, s2, Charged(new, Len(new)), LevelIn(new))
      /\ Len(ls2) = LevelIn(new)[Len(new)] /\ Marks(new, ls2)
  BY <1>1
<1> HIDE DEF new, ends
<1>5. Scanned(new, ls2, s2, ends)
  BY <1>1, <1>3, <1>4 DEF Scanned
<1> QED
  BY <1>5 DEF new, ends

LEMMA OpenScanned ==
  ASSUME Scanned(toks, levels, sum, ended), NEW t \in Openers
  PROVE  Scanned(Append(toks, t), Opened(t)[1], Opened(t)[2], t \in {"value"} \cup Closers)
<1> DEFINE N == Len(toks)
           new == Append(toks, t)
           lev == LevelIn(new)
           C == Charged(toks, N)
           b == t = "open" /\ ended
           ls == Append(levels, [ops |-> 0, postfix |-> b])
<1>1. t \in Tokens /\ t \notin Closers /\ t \notin {"semi", "end", "op", "close"}
  BY DEF Tokens, Openers, Closers
<1>2. /\ Len(new) = N + 1 /\ new[N + 1] = t /\ N \in Nat
      /\ Counts(levels, sum, C, lev) /\ Len(levels) \in Nat /\ Len(levels) > 0
      /\ lev[N + 1] = Len(levels) + 1
  BY <1>1, ScanStep
<1>3. Charged(new, N + 1) = C
  <2>1. Charged(new, N + 1) =
          {i \in C : /\ ~(t \in Closers /\ lev[i] = Len(levels))
                     /\ ~(t \in {"semi", "end"} /\ lev[i] = lev[N + 1])}
          \cup (IF t = "op" \/ (t = "close" /\ ClosesCall(new, N + 1)) THEN {N + 1} ELSE {})
    BY <1>1, ScanStep
  <2> HIDE DEF C, lev, new, N
  <2> QED
    BY <1>1, <2>1
<1>4. Opened(t)[1] = ls /\ Opened(t)[2] = sum
  BY DEF Opened
<1>5. /\ toks \in Seq(Tokens) /\ levels \in Seq(Bracket) /\ Marks(toks, levels)
      /\ Len(levels) = LevelIn(toks)[N]
      /\ ended \in BOOLEAN /\ (ended <=> (N > 0 /\ toks[N] \in {"value"} \cup Closers))
  BY DEF Scanned, Counts
<1>6. b \in BOOLEAN /\ (b <=> IsCall(new, N + 1))
  <2>1. N > 0 => new[N] = toks[N]
    <3>1. N > 0 => N \in 1..N
      BY <1>2
    <3>2. \A n \in 1..N : new[n] = toks[n]
      BY <1>1, <1>5, ScansMore
    <3> QED
      BY <3>1, <3>2
  <2>2. N + 1 > 1 <=> N > 0
    BY <1>2
  <2>3. (N + 1) - 1 = N
    BY <1>2
  <2> HIDE DEF new, N
  <2> QED
    BY <1>2, <1>5, <2>1, <2>2, <2>3 DEF IsCall
<1>7. Counts(ls, sum, C, lev)
  <2> HIDE DEF C, lev, b
  <2> QED
    BY <1>2, <1>6, OpensCounts
<1>8. Marks(new, ls)
  <2> HIDE DEF b
  <2> QED
    BY <1>2, <1>5, <1>6, MarksOpen
<1>9. Len(ls) = Len(levels) + 1
  <2>1. [ops |-> 0, postfix |-> b] \in Bracket
    BY <1>6 DEF Bracket
  <2> HIDE DEF b
  <2> QED
    BY <1>5, <2>1, AppendProperties
<1> HIDE DEF ls
<1>10. Scanned(new, ls, sum, t \in {"value"} \cup Closers)
  <2>1. Counts(ls, sum, Charged(new, N + 1), lev) /\ Len(ls) = lev[N + 1]
    BY <1>2, <1>3, <1>7, <1>9
  <2> QED
    BY <1>1, <1>8, <2>1, ScannedNext
<1> QED
  BY <1>4, <1>10

\* The end of a statement, a chain operator, and the rest.
LEMMA FlatScanned ==
  ASSUME Scanned(toks, levels, sum, ended), NEW t \in {"semi", "op", "value", "other"}
  PROVE  LET next == IF t = "semi" THEN Reset(levels, sum)
                     ELSE IF t = "op" THEN <<Charge(levels), sum + 1>>
                     ELSE <<levels, sum>>
         IN  Scanned(Append(toks, t), next[1], next[2], t \in {"value"} \cup Closers)
<1> DEFINE N == Len(toks)
           L == Len(levels)
           new == Append(toks, t)
           lev == LevelIn(new)
           C == Charged(toks, N)
           next == IF t = "semi" THEN Reset(levels, sum)
                   ELSE IF t = "op" THEN <<Charge(levels), sum + 1>>
                   ELSE <<levels, sum>>
<1>1. t \in Tokens /\ t \notin Openers /\ t \notin Closers /\ t # "end" /\ t # "close"
  BY DEF Tokens, Openers, Closers
<1>2. /\ Counts(levels, sum, C, lev) /\ N + 1 \notin C /\ L \in Nat /\ L > 0
      /\ lev[N + 1] = L
  BY <1>1, ScanStep
<1>3. Charged(new, N + 1) =
        {i \in C : ~(t = "semi" /\ lev[i] = L)} \cup (IF t = "op" THEN {N + 1} ELSE {})
  <2>1. Charged(new, N + 1) =
          {i \in C : /\ ~(t \in Closers /\ lev[i] = Len(levels))
                     /\ ~(t \in {"semi", "end"} /\ lev[i] = lev[N + 1])}
          \cup (IF t = "op" \/ (t = "close" /\ ClosesCall(new, N + 1)) THEN {N + 1} ELSE {})
    BY <1>1, ScanStep
  <2> HIDE DEF C, lev, new, N, L
  <2> QED
    BY <1>1, <1>2, <2>1 DEF L
<1>4. toks \in Seq(Tokens) /\ Marks(toks, levels)
  BY DEF Scanned
<1>5. /\ Counts(next[1], next[2], Charged(new, N + 1), lev) /\ Len(next[1]) = L
      /\ \A k \in 1..L : next[1][k].postfix = levels[k].postfix
  <2> HIDE DEF C, lev, new, N, L
  <2>1. CASE t = "semi"
    <3>1. next[1] = Cleared(levels) /\ next[2] = Minus(sum, Last(levels).ops)
      BY <2>1 DEF Reset
    <3>2. Charged(new, N + 1) = Without(C, lev, L)
      BY <1>3, <2>1 DEF Without
    <3> HIDE DEF next
    <3> QED
      BY <1>2, <3>1, <3>2, ClearsCounts DEF L
  <2>2. CASE t = "op"
    <3>1. next[1] = Charge(levels) /\ next[2] = sum + 1
      BY <2>2
    <3>2. Charged(new, N + 1) = C \cup {N + 1}
      BY <1>3, <2>2
    <3> HIDE DEF next
    <3> QED
      <4>1. lev[N + 1] = Len(levels) /\ N + 1 \notin C /\ Counts(levels, sum, C, lev)
        BY <1>2 DEF L
      <4> DEFINE x == N + 1
      <4> HIDE DEF x
      <4>2. lev[x] = Len(levels) /\ x \notin C
        BY <4>1 DEF x
      <4>3. /\ Counts(Charge(levels), sum + 1, C \cup {x}, lev)
            /\ Len(Charge(levels)) = Len(levels)
            /\ \A k \in 1..Len(levels) : Charge(levels)[k].postfix = levels[k].postfix
        BY <4>1, <4>2, ChargesCounts
      <4> QED
        BY <3>1, <3>2, <4>3 DEF L, x
  <2>3. CASE t \notin {"semi", "op"}
    <3>1. next[1] = levels /\ next[2] = sum
      BY <2>3
    <3>2. Charged(new, N + 1) = C
      BY <1>3, <2>3
    <3> HIDE DEF next
    <3> QED
      BY <1>2, <3>1, <3>2 DEF L
  <2> QED
    BY <2>1, <2>2, <2>3
<1> HIDE DEF next
<1>6. Marks(new, next[1])
  <2>1. t \in Tokens \ Openers /\ L <= L
    BY <1>1, <1>2
  <2> QED
    BY <1>2, <1>4, <1>5, <2>1, MarksKeep
<1>7. Scanned(new, next[1], next[2], t \in {"value"} \cup Closers)
  <2>1. Len(next[1]) = lev[N + 1]
    BY <1>2, <1>5
  <2> QED
    BY <1>1, <1>5, <1>6, <2>1, ScannedNext
<1> QED
  BY <1>7 DEF next

\* A bracket closes.
LEMMA PopCounts ==
  ASSUME Scanned(toks, levels, sum, ended), NEW t \in Closers
  PROVE  LET N == Len(toks)
             new == Append(toks, t)
             lev == LevelIn(new)
             C == Charged(toks, N)
             L == Len(levels)
         IN  /\ Counts(Popped[1], Popped[2],
                       Without(C, lev, L) \cup (IF ClosesCall(new, N + 1) THEN {N + 1} ELSE {}), lev)
             /\ Len(Popped[1]) = lev[N + 1] /\ Len(Popped[1]) <= L
             /\ \A k \in 1..Len(Popped[1]) : Popped[1][k].postfix = levels[k].postfix
<1> DEFINE N == Len(toks)
           new == Append(toks, t)
           lev == LevelIn(new)
           C == Charged(toks, N)
           L == Len(levels)
           top == Last(levels)
           below == IF L = 1 THEN <<Ground>> ELSE Front(levels)
           less == Minus(sum, top.ops)
           rest == Without(C, lev, L)
           all == rest \cup (IF ClosesCall(new, N + 1) THEN {N + 1} ELSE {})
<1>1. t \in Tokens /\ t \notin Openers
  BY DEF Tokens, Openers, Closers
<1>2. /\ Counts(levels, sum, C, lev) /\ N + 1 \notin C /\ L \in Nat /\ L > 0
      /\ lev[N + 1] = IF L > 1 THEN L - 1 ELSE L
  BY <1>1, ScanStep
<1>3. ClosesCall(new, N + 1) <=> top.postfix
  BY TopIsCall
<1>4. /\ levels \in Seq(Bracket) /\ \A k \in 1..L : levels[k] \in Bracket
      /\ ~levels[1].postfix /\ top = levels[L]
  BY DEF Scanned, Counts, Marks, Last
<1>5. /\ Counts(below, less, rest, lev)
      /\ L > 1 => Len(below) = L - 1
      /\ L > 1 => \A k \in 1..L - 1 : below[k] = levels[k]
  <2> HIDE DEF C, lev
  <2> QED
    BY <1>2, PopsCounts
<1>6. L = 1 => Len(below) = 1 /\ below[1].postfix = levels[1].postfix
  <2> SUFFICES ASSUME L = 1 PROVE Len(below) = 1 /\ below[1].postfix = levels[1].postfix
    OBVIOUS
  <2>1. below = <<Ground>> /\ Ground.postfix = FALSE
    BY DEF Ground
  <2>2. levels[1].postfix = FALSE
    <3>1. levels[1] \in Bracket
      BY <1>4
    <3> QED
      BY <1>4, <3>1 DEF Bracket
  <2> HIDE DEF below
  <2> QED
    BY <2>1, <2>2
<1>7. Popped = IF ~top.postfix THEN <<below, less>>
               ELSE <<IF L = 1 THEN below ELSE Charge(below), less + 1>>
  BY DEF Popped
<1> HIDE DEF N, new, lev, C, L, top, below, less, rest
<1>8. Len(below) = lev[N + 1] /\ Len(below) <= L
  <2> DEFINE l == Len(below)
             v == lev[N + 1]
  <2>1. /\ v = IF L > 1 THEN L - 1 ELSE L
        /\ L > 1 => l = L - 1
        /\ L = 1 => l = 1
        /\ L \in Nat /\ L > 0
    BY <1>2, <1>5, <1>6
  <2> HIDE DEF l, v
  <2>2. l = v /\ l <= L
    BY <2>1
  <2> QED
    BY <2>2 DEF l, v
<1>9. \A k \in 1..Len(below) : below[k].postfix = levels[k].postfix
  <2>1. CASE L = 1
    <3>1. \A k \in 1..Len(below) : k = 1
      <4>1. Len(below) = 1 /\ \A k \in 1..1 : k = 1
        BY <1>6, <2>1
      <4> QED
        BY <4>1
    <3> QED
      BY <1>6, <2>1, <3>1
  <2>2. CASE L > 1
    BY <1>2, <1>5, <2>2
  <2> QED
    BY <1>2, <2>1, <2>2
<1>10. CASE ~top.postfix
  <2>1. Popped[1] = below /\ Popped[2] = less /\ all = rest
    BY <1>3, <1>7, <1>10
  <2> HIDE DEF all
  <2>2. /\ Counts(Popped[1], Popped[2], all, lev) /\ Len(Popped[1]) = lev[N + 1]
        /\ Len(Popped[1]) <= L
        /\ \A k \in 1..Len(Popped[1]) : Popped[1][k].postfix = levels[k].postfix
    BY <1>5, <1>8, <1>9, <2>1
  <2> QED
    BY <2>2 DEF all, rest, N, new, lev, C, L
<1>11. CASE top.postfix
  <2>1. L # 1
    BY <1>4, <1>11
  <2>2. Popped[1] = Charge(below) /\ Popped[2] = less + 1 /\ all = rest \cup {N + 1}
    BY <1>3, <1>7, <1>11, <2>1
  <2> HIDE DEF all
  <2> DEFINE x == N + 1
  <2>3. x \notin rest /\ lev[x] = Len(below)
    BY <1>2, <1>8 DEF rest, Without
  <2> HIDE DEF x
  <2>4. /\ Counts(Charge(below), less + 1, rest \cup {x}, lev)
        /\ Len(Charge(below)) = Len(below)
        /\ \A k \in 1..Len(below) : Charge(below)[k].postfix = below[k].postfix
    BY <1>5, <2>3, ChargesCounts
  <2>5. /\ Counts(Popped[1], Popped[2], all, lev) /\ Len(Popped[1]) = lev[N + 1]
        /\ Len(Popped[1]) <= L
        /\ \A k \in 1..Len(Popped[1]) : Popped[1][k].postfix = levels[k].postfix
    BY <1>8, <1>9, <2>2, <2>4 DEF x
  <2> QED
    BY <2>5 DEF all, rest, N, new, lev, C, L
<1> QED
  BY <1>10, <1>11

LEMMA CloseScanned ==
  ASSUME Scanned(toks, levels, sum, ended), NEW t \in Closers
  PROVE  LET next == IF t = "close" THEN Popped ELSE Reset(Popped[1], Popped[2])
         IN  Scanned(Append(toks, t), next[1], next[2], t \in {"value"} \cup Closers)
<1> DEFINE N == Len(toks)
           new == Append(toks, t)
           lev == LevelIn(new)
           C == Charged(toks, N)
           L == Len(levels)
           P == Len(Popped[1])
           all == Without(C, lev, L) \cup (IF ClosesCall(new, N + 1) THEN {N + 1} ELSE {})
           next == IF t = "close" THEN Popped ELSE Reset(Popped[1], Popped[2])
<1>1. t \in Tokens /\ t \notin Openers /\ (t = "close" \/ t = "end") /\ t # "semi" /\ t # "op"
  BY DEF Tokens, Openers, Closers
<1>2. /\ Counts(Popped[1], Popped[2], all, lev) /\ P = lev[N + 1] /\ P <= L
      /\ \A k \in 1..P : Popped[1][k].postfix = levels[k].postfix
  BY PopCounts
<1>3. P \in Nat /\ P > 0 /\ L \in Nat
  BY <1>2 DEF Counts, Scanned
<1>4. toks \in Seq(Tokens) /\ Marks(toks, levels)
  BY DEF Scanned
<1>5. Charged(new, N + 1) =
        {i \in C : /\ ~(t \in Closers /\ lev[i] = L)
                   /\ ~(t \in {"semi", "end"} /\ lev[i] = lev[N + 1])}
        \cup (IF t = "op" \/ (t = "close" /\ ClosesCall(new, N + 1)) THEN {N + 1} ELSE {})
  BY <1>1, ScanStep
<1>6. /\ Counts(next[1], next[2], Charged(new, N + 1), lev) /\ Len(next[1]) = P
      /\ \A k \in 1..P : next[1][k].postfix = levels[k].postfix
  <2> HIDE DEF C, lev, new, N, L, P
  <2>1. CASE t = "close"
    <3>1. next[1] = Popped[1] /\ next[2] = Popped[2]
      BY <2>1
    <3>2. Charged(new, N + 1) = all
      BY <1>1, <1>5, <2>1 DEF Without
    <3> HIDE DEF next, all
    <3> QED
      BY <1>2, <3>1, <3>2 DEF P
  <2>2. CASE t = "end"
    <3>1. next[1] = Cleared(Popped[1]) /\ next[2] = Minus(Popped[2], Last(Popped[1]).ops)
      BY <2>2 DEF Reset
    <3>2. Charged(new, N + 1) = Without(all, lev, P)
      BY <1>1, <1>2, <1>5, <2>2 DEF Without
    <3> HIDE DEF next, all
    <3>3. /\ Counts(Cleared(Popped[1]), Minus(Popped[2], Last(Popped[1]).ops), Without(all, lev, P), lev)
          /\ Len(Cleared(Popped[1])) = P
          /\ \A k \in 1..P : Cleared(Popped[1])[k].postfix = Popped[1][k].postfix
      BY <1>2, ClearsCounts DEF P
    <3> QED
      BY <1>2, <3>1, <3>2, <3>3
  <2> QED
    BY <1>1, <2>1, <2>2
<1> HIDE DEF next
<1>7. Marks(new, next[1])
  <2>1. t \in Tokens \ Openers
    BY <1>1
  <2> HIDE DEF P, L
  <2>2. /\ Len(next[1]) \in Nat /\ Len(next[1]) > 0 /\ Len(next[1]) <= Len(levels)
        /\ Len(levels) \in Nat /\ \A k \in 1..Len(next[1]) : next[1][k].postfix = levels[k].postfix
    BY <1>2, <1>3, <1>6 DEF L
  <2> QED
    BY <1>4, <2>1, <2>2, MarksKeep
<1>8. Scanned(new, next[1], next[2], t \in {"value"} \cup Closers)
  <2>1. Len(next[1]) = lev[N + 1]
    BY <1>2, <1>6
  <2> QED
    BY <1>1, <1>6, <1>7, <2>1, ScannedNext
<1> QED
  BY <1>8 DEF next

\* Whatever the token.
LEMMA AfterScanned ==
  ASSUME Scanned(toks, levels, sum, ended), NEW t \in Tokens
  PROVE  Scanned(Append(toks, t), After(t)[1], After(t)[2], t \in {"value"} \cup Closers)
<1>1. CASE t \in Openers
  <2>1. After(t) = Opened(t)
    BY <1>1 DEF After, Openers
  <2> QED
    BY <1>1, <2>1, OpenScanned
<1>2. CASE t \in Closers
  <2> DEFINE next == IF t = "close" THEN Popped ELSE Reset(Popped[1], Popped[2])
  <2>1. After(t) = next
    BY <1>2 DEF After, Openers, Closers
  <2>2. Scanned(Append(toks, t), next[1], next[2], t \in {"value"} \cup Closers)
    BY <1>2, CloseScanned
  <2> HIDE DEF next
  <2> QED
    BY <2>1, <2>2
<1>3. CASE t \in {"semi", "op", "value", "other"}
  <2> DEFINE next == IF t = "semi" THEN Reset(levels, sum)
                     ELSE IF t = "op" THEN <<Charge(levels), sum + 1>>
                     ELSE <<levels, sum>>
  <2>1. After(t) = next
    BY <1>3 DEF After, Openers
  <2>2. Scanned(Append(toks, t), next[1], next[2], t \in {"value"} \cup Closers)
    BY <1>3, FlatScanned
  <2> HIDE DEF next
  <2> QED
    BY <2>1, <2>2
<1> QED
  BY <1>1, <1>2, <1>3 DEF Tokens

\* How deep the text is at a token, and the most of it.
DepthIn(ts, n) == LevelIn(ts)[n] + Cardinality(Charged(ts, n))
PeakOf(ts, p) ==
  /\ p \in Nat
  /\ \A n \in 0..Len(ts) : DepthIn(ts, n) <= p
  /\ \E n \in 0..Len(ts) : DepthIn(ts, n) = p

ScanInv ==
  /\ phase = "idle" =>
       toks = <<>> /\ levels = <<Ground>> /\ sum = 0 /\ peak = 1 /\ ended = FALSE
  /\ phase = "scan" => Scanned(toks, levels, sum, ended) /\ PeakOf(toks, peak)

LEMMA DepthKeeps ==
  ASSUME NEW ts \in Seq(Tokens), NEW t \in Tokens, NEW n \in 0..Len(ts)
  PROVE  DepthIn(Append(ts, t), n) = DepthIn(ts, n)
<1>1. LevelIn(Append(ts, t))[n] = LevelIn(ts)[n]
  BY LevelKeeps
<1>2. Charged(Append(ts, t), n) = Charged(ts, n)
  BY ChargedKeeps
<1> QED
  BY <1>1, <1>2 DEF DepthIn

LEMMA DepthOfScanned ==
  ASSUME NEW ts, NEW ls, NEW s, NEW e, Scanned(ts, ls, s, e)
  PROVE  Len(ls) + s = DepthIn(ts, Len(ts)) /\ Len(ls) + s \in Nat
<1>1. Len(ls) = LevelIn(ts)[Len(ts)] /\ ls \in Seq(Bracket)
  BY DEF Scanned, Counts
<1>2. s = Cardinality(Charged(ts, Len(ts))) /\ IsFiniteSet(Charged(ts, Len(ts)))
  BY DEF Scanned, Counts
<1>3. s \in Nat
  BY <1>2, FS_CardinalityType
<1>4. Len(ls) \in Nat
  BY <1>1
<1>5. Len(ls) + s = DepthIn(ts, Len(ts))
  BY <1>1, <1>2 DEF DepthIn
<1> QED
  BY <1>3, <1>4, <1>5

LEMMA PeakNext ==
  ASSUME NEW ts \in Seq(Tokens), NEW t \in Tokens, NEW p, PeakOf(ts, p),
         NEW cur \in Nat, cur = DepthIn(Append(ts, t), Len(ts) + 1)
  PROVE  PeakOf(Append(ts, t), IF cur > p THEN cur ELSE p)
<1> DEFINE new == Append(ts, t)
           N == Len(ts)
           q == IF cur > p THEN cur ELSE p
<1>1. Len(new) = N + 1 /\ N \in Nat
  BY ScansMore
<1>2. \A n \in 0..N : DepthIn(new, n) = DepthIn(ts, n)
  BY DepthKeeps
<1>3. /\ p \in Nat /\ \A n \in 0..N : DepthIn(ts, n) <= p
      /\ \E n \in 0..N : DepthIn(ts, n) = p
  BY DEF PeakOf
<1>4. DepthIn(new, N + 1) = cur
  OBVIOUS
<1> HIDE DEF new, N
<1>5. 0..N + 1 = (0..N) \cup {N + 1}
  BY <1>1
<1>6. q \in Nat /\ cur <= q /\ p <= q /\ (q = cur \/ q = p)
  BY <1>3
<1> HIDE DEF q
<1>7. ASSUME NEW n \in 0..N + 1 PROVE DepthIn(new, n) <= q
  <2>1. CASE n \in 0..N
    <3> DEFINE d == DepthIn(new, n)
    <3>1. d <= p /\ d = DepthIn(ts, n)
      BY <1>2, <1>3, <2>1
    <3>2. d \in Nat
      <4>1. LevelIn(ts)[n] \in Nat
        BY <2>1, LevelFacts DEF N
      <4>2. Charged(ts, n) \subseteq 1..n
        BY DEF Charged
      <4>5. n \in Int
        BY <2>1
      <4>6. IsFiniteSet(1..n)
        BY <4>5, FS_Interval
      <4>3. IsFiniteSet(Charged(ts, n))
        BY <4>2, <4>6, FS_Subset
      <4>4. Cardinality(Charged(ts, n)) \in Nat
        BY <4>3, FS_CardinalityType
      <4> QED
        BY <3>1, <4>1, <4>4 DEF DepthIn
    <3> HIDE DEF d
    <3>3. d <= q
      BY <1>3, <1>6, <3>1, <3>2
    <3> QED
      BY <3>3 DEF d
  <2>2. CASE n = N + 1
    BY <1>4, <1>6, <2>2
  <2> QED
    BY <1>5, <2>1, <2>2
<1>8. \E n \in 0..N + 1 : DepthIn(new, n) = q
  <2>1. PICK n \in 0..N : DepthIn(ts, n) = p
    BY <1>3
  <2>2. DepthIn(new, n) = p /\ n \in 0..N + 1 /\ N + 1 \in 0..N + 1
    BY <1>2, <1>5, <2>1
  <2> QED
    BY <1>4, <1>6, <2>2
<1>9. PeakOf(new, q)
  BY <1>1, <1>6, <1>7, <1>8 DEF PeakOf
<1> QED
  BY <1>9 DEF new, q

\* The scan from its start: no token yet, and one level.
LEMMA ScanStarts ==
  Scanned(<<>>, <<Ground>>, 0, FALSE) /\ PeakOf(<<>>, 1)
<1>1. Charged(<<>>, 0) = {}
  BY DEF Charged
<1>2. <<>> \in Seq(Tokens) /\ Len(<<>>) = 0
  OBVIOUS
<1>3. LevelIn(<<>>)[0] = 1
  BY <1>2, LevelFacts
<1>4. <<Ground>> \in Seq(Bracket) /\ Len(<<Ground>>) = 1 /\ <<Ground>>[1] = Ground
  BY DEF Ground, Bracket
<1>5. Ground.ops = 0 /\ Ground.postfix = FALSE
  BY DEF Ground
<1>6. Counts(<<Ground>>, 0, {}, LevelIn(<<>>))
  <2>1. \A k : ChargesAt({}, LevelIn(<<>>), k) = {}
    BY DEF ChargesAt
  <2>2. \A k \in 1..1 : <<Ground>>[k].ops = 0
    BY <1>4, <1>5
  <2>3. IsFiniteSet({}) /\ Cardinality({}) = 0
    BY FS_EmptySet
  <2> DEFINE ls == <<Ground>>
             lv == LevelIn(<<>>)
  <2>4. Len(ls) = 1 /\ ls \in Seq(Bracket) /\ \A k \in 1..1 : ls[k].ops = 0
    BY <1>4, <2>2
  <2>5. \A k : Cardinality(ChargesAt({}, lv, k)) = 0
    BY <2>1, <2>3
  <2> HIDE DEF ls, lv
  <2>6. \A k \in 1..Len(ls) : ls[k].ops = Cardinality(ChargesAt({}, lv, k))
    BY <2>4, <2>5
  <2>7. Counts(ls, 0, {}, lv)
    BY <2>3, <2>4, <2>6 DEF Counts
  <2> QED
    BY <2>7 DEF ls, lv
<1>7. Marks(<<>>, <<Ground>>)
  <2>1. 2..Len(<<Ground>>) = {}
    BY <1>4
  <2> QED
    BY <1>4, <1>5, <2>1 DEF Marks
<1>8. Scanned(<<>>, <<Ground>>, 0, FALSE)
  BY <1>1, <1>2, <1>3, <1>4, <1>6, <1>7 DEF Scanned
<1>9. DepthIn(<<>>, 0) = 1
  <2>1. Cardinality(Charged(<<>>, 0)) = 0
    BY <1>1, FS_EmptySet
  <2> QED
    BY <1>3, <2>1 DEF DepthIn
<1>10. 0..Len(<<>>) = {0}
  BY <1>2
<1>11. PeakOf(<<>>, 1)
  BY <1>9, <1>10 DEF PeakOf
<1> QED
  BY <1>8, <1>11

LEMMA ScanKeeps ==
  ASSUME ScanInv, NEW t \in Tokens, Scan(t)
  PROVE  ScanInv'
<1> DEFINE new == Append(toks, t)
           cur == Len(levels') + sum'
<1>1. /\ phase = "scan" /\ phase' = "scan" /\ toks' = new
      /\ levels' = After(t)[1] /\ sum' = After(t)[2]
      /\ ended' = (t \in {"value"} \cup Closers)
      /\ peak' = IF cur > peak THEN cur ELSE peak
  BY DEF Scan
<1>2. Scanned(toks, levels, sum, ended) /\ PeakOf(toks, peak) /\ toks \in Seq(Tokens)
  BY <1>1 DEF ScanInv, Scanned
<1>3. Scanned(new, levels', sum', ended')
  BY <1>1, <1>2, AfterScanned
<1>4. Len(new) = Len(toks) + 1
  BY <1>2, ScansMore
<1>5. cur = DepthIn(new, Len(toks) + 1) /\ cur \in Nat
  <2>1. cur = DepthIn(new, Len(new)) /\ cur \in Nat
    BY <1>3, DepthOfScanned
  <2> QED
    BY <1>4, <2>1
<1> HIDE DEF cur
<1>6. PeakOf(new, IF cur > peak THEN cur ELSE peak)
  BY <1>2, <1>5, PeakNext
<1> QED
  BY <1>1, <1>3, <1>6 DEF ScanInv

LEMMA ScanInvRight ==
  ScanInv => DepthRight
<1> SUFFICES ASSUME ScanInv, phase = "scan" PROVE DepthRight
  BY DEF DepthRight
<1> DEFINE N == Len(toks)
           C == Charged(toks, N)
<1>1. Scanned(toks, levels, sum, ended) /\ PeakOf(toks, peak)
  BY DEF ScanInv
<1>2. \A n : DepthAt(n) = DepthIn(toks, n)
  BY DEF DepthAt, DepthIn
<1>3. Depth = DepthAt(N)
  BY <1>1, <1>2, DepthOfScanned DEF Depth
<1>4. toks \in Seq(Tokens) /\ DOMAIN toks = 1..N /\ N \in Nat
  BY <1>1 DEF Scanned
<1>5. \A n \in DOMAIN toks : n \in 0..N
  BY <1>4
<1>6. (\A n \in DOMAIN toks : DepthAt(n) <= peak) /\ (\E n \in 0..N : DepthAt(n) = peak)
  BY <1>1, <1>2, <1>5 DEF PeakOf
<1>7. Counts(levels, sum, C, LevelIn(toks))
  BY <1>1 DEF Scanned
<1>8. /\ DOMAIN levels = 1..Len(levels) /\ sum = Cardinality(C)
      /\ \A k \in 1..Len(levels) : levels[k].ops = Cardinality(ChargesAt(C, LevelIn(toks), k))
  BY <1>7 DEF Counts
<1>9. \A k \in DOMAIN levels : levels[k].ops = Cardinality({i \in C : LevelIn(toks)[i] = k})
  BY <1>8 DEF ChargesAt
<1> QED
  BY <1>3, <1>6, <1>8, <1>9 DEF DepthRight

\* analyze/mod.rs:28-32, the estimate of the depth is the most there ever is of open
\* brackets and of chain operators and calls since the last statement of their level,
\* for texts of every length and whatever the closers in them close.
THEOREM DepthIsRight == SrcSpec => []DepthRight
<1>1. SrcInit => ScanInv
  BY DEF SrcInit, ScanInv
<1>2. ASSUME ScanInv, [SrcNext]_srcVars PROVE ScanInv'
  <2>1. CASE AskText
    BY <1>2, <2>1, ScanStarts DEF AskText, scanVars, ScanInv
  <2>2. ASSUME NEW t \in Tokens, Scan(t) PROVE ScanInv'
    BY <1>2, <2>2, ScanKeeps
  <2>3. CASE phase' \notin {"idle", "scan"}
    BY <2>3 DEF ScanInv
  <2>4. CASE ForgetText
    BY <2>4 DEF ForgetText, ScanInv
  <2>5. CASE UNCHANGED srcVars
    BY <1>2, <2>5 DEF srcVars, ScanInv
  <2>6. ASSUME NEW n \in 0..MaxErrors, NEW max \in 0..MaxErrors \cup {Absent}, NEW v \in Rendered,
               Diagnose(n, max, v)
        PROVE  phase' = "told"
    BY <2>6 DEF Diagnose
  <2>7. ASSUME NEW n, NEW recovered, Tally(n, recovered) PROVE phase' = "told"
    BY <2>7 DEF Tally
  <2>8. ASSUME NEW name, NEW exported, Declare(name, exported) \/ EnterModule(name, exported)
        PROVE  phase' = "walk"
    BY <2>8 DEF Declare, EnterModule, Walking, Walk
  <2>9. ASSUME NEW names, Export(names) PROVE phase' = "walk"
    BY <2>9 DEF Export, Walking, Walk
  <2>10. ASSUME RefuseDeep \/ ParseText \/ Leave \/ Finish
         PROVE  phase' \in {"told", "walk", "parsed"}
    BY <2>10 DEF RefuseDeep, ParseText, Leave, Finish, Walk
  <2> QED
    BY <1>2, <2>1, <2>2, <2>3, <2>4, <2>5, <2>6, <2>7, <2>8, <2>9, <2>10 DEF SrcNext
<1> QED
  BY <1>1, <1>2, ScanInvRight, PTL DEF SrcSpec

-----------------------------------------------------------------------------
(* Output: lines and their order *)

LEMMA SameSize ==
  ASSUME NEW A, NEW B, IsFiniteSet(B), NEW g \in [A -> B],
         \A x, y \in A : g[x] = g[y] => x = y,
         \A y \in B : \E x \in A : g[x] = y
  PROVE  IsFiniteSet(A) /\ Cardinality(A) = Cardinality(B)
<1>1. g \in Injection(A, B)
  BY DEF Injection, IsInjective
<1>2. g \in Surjection(A, B)
  BY DEF Surjection
<1> QED
  BY <1>1, <1>2, FS_Injection

\* Where a run ends, and that it is one.
LEMMA PastIs ==
  ASSUME NEW text, NEW from \in Nat, NEW ts, Len(text) \in Nat, from <= Len(text) + 1
  PROVE  /\ Past(text, from, ts) \in from..Len(text) + 1
         /\ \A i \in from..Past(text, from, ts) - 1 : text[i] \in ts
         /\ Past(text, from, ts) = Len(text) + 1 \/ text[Past(text, from, ts)] \notin ts
<1> DEFINE L == Len(text)
           E == {i \in from..L + 1 : i = L + 1 \/ text[i] \notin ts}
           p == Past(text, from, ts)
<1>1. E \in SUBSET Nat /\ L + 1 \in E
  OBVIOUS
<1>2. p = Min(E)
  BY DEF Past
<1>3. p \in E /\ \A i \in E : p <= i
  <2> HIDE DEF E, p
  <2>1. \E x \in E : \A y \in E : x <= y
    BY <1>1, LeastNat
  <2> QED
    BY <1>2, <2>1 DEF Min
<1> HIDE DEF p
<1>4. p \in from..L + 1 /\ (p = L + 1 \/ text[p] \notin ts)
  BY <1>3
<1>5. ASSUME NEW i \in from..p - 1 PROVE text[i] \in ts
  <2>1. i \in from..L + 1 /\ i # L + 1 /\ ~(p <= i)
    BY <1>4
  <2>2. i \notin E
    BY <1>3, <2>1
  <2> QED
    BY <2>1, <2>2
<1> QED
  BY <1>4, <1>5 DEF p

\* A set of numbers in its order: each member once.
LEMMA OrderedIs ==
  ASSUME NEW S \in SUBSET Nat, IsFiniteSet(S)
  PROVE  /\ Cardinality(S) \in Nat
         /\ Ordered(S) \in [1..Cardinality(S) -> S]
         /\ \A i, k \in 1..Cardinality(S) : Ordered(S)[i] = Ordered(S)[k] => i = k
         /\ \A x \in S : \E k \in 1..Cardinality(S) : Ordered(S)[k] = x
<1> DEFINE N == Cardinality(S)
           Upto(i) == {j \in S : j <= i}
           rank == [i \in S |-> Cardinality(Upto(i))]
<1>1. N \in Nat
  BY FS_CardinalityType
<1>2. ASSUME NEW i \in S PROVE IsFiniteSet(Upto(i)) /\ Cardinality(Upto(i)) \in 1..N
  <2>1. Upto(i) \in SUBSET S /\ i \in Upto(i)
    OBVIOUS
  <2> HIDE DEF Upto
  <2>2. IsFiniteSet(Upto(i)) /\ Cardinality(Upto(i)) <= N
    BY <2>1, FS_Subset
  <2>3. Cardinality(Upto(i)) \in Nat /\ Cardinality(Upto(i)) # 0
    BY <2>1, <2>2, FS_CardinalityType, FS_EmptySet
  <2> QED
    BY <1>1, <2>2, <2>3
<1>3. ASSUME NEW i \in S, NEW k \in S, i < k PROVE Cardinality(Upto(i)) # Cardinality(Upto(k))
  <2>4. i \in Nat /\ k \in Nat /\ \A j \in S : j \in Nat
    OBVIOUS
  <2>2. \A j \in S : j <= i => j <= k
    BY <1>3, <2>4
  <2>3. k <= k /\ ~(k <= i)
    BY <1>3, <2>4
  <2>1. Upto(i) \in SUBSET Upto(k) /\ k \in Upto(k) /\ k \notin Upto(i)
    BY <2>2, <2>3
  <2> HIDE DEF Upto
  <2> QED
    BY <1>2, <2>1, FS_Subset
<1>4. rank \in [S -> 1..N]
  BY <1>2
<1>5. \A i, k \in S : rank[i] = rank[k] => i = k
  <2> SUFFICES ASSUME NEW i \in S, NEW k \in S, i # k PROVE rank[i] # rank[k]
    OBVIOUS
  <2>1. i < k \/ k < i
    OBVIOUS
  <2> HIDE DEF Upto
  <2> QED
    BY <1>3, <2>1
<1>6. \A n \in 1..N : \E i \in S : rank[i] = n
  <2> HIDE DEF rank, N
  <2>1. rank \in Injection(S, 1..N)
    BY <1>4, <1>5 DEF Injection, IsInjective
  <2>2. IsFiniteSet(1..N) /\ Cardinality(1..N) = N
    BY <1>1, FS_Interval
  <2>3. rank \in Surjection(S, 1..N)
    BY <2>1, <2>2, FS_Injection DEF N
  <2> QED
    BY <2>3 DEF Surjection
<1> DEFINE o == Ordered(S)
<1>7. o = [k \in 1..N |-> CHOOSE i \in S : rank[i] = k]
  <2>1. \A k \in 1..N : (CHOOSE i \in S : rank[i] = k) = CHOOSE i \in S : Cardinality({j \in S : j <= i}) = k
    <3>1. \A i \in S : rank[i] = Cardinality({j \in S : j <= i})
      OBVIOUS
    <3> HIDE DEF rank
    <3> QED
      BY <3>1
  <2> QED
    BY <2>1 DEF Ordered
<1> HIDE DEF rank, N
<1>8. \A k \in 1..N : o[k] \in S /\ rank[o[k]] = k
  BY <1>6, <1>7
<1>9. o \in [1..N -> S]
  BY <1>7, <1>8
<1>10. \A i, k \in 1..N : o[i] = o[k] => i = k
  BY <1>8
<1>11. ASSUME NEW x \in S PROVE \E k \in 1..N : o[k] = x
  <2>1. rank[x] \in 1..N
    BY <1>4
  <2>2. o[rank[x]] = x
    BY <1>5, <1>8, <2>1
  <2> QED
    BY <2>1, <2>2
<1> QED
  BY <1>1, <1>9, <1>10, <1>11 DEF N

\* A line: from its break to the next.
LEMMA LineIs ==
  ASSUME NEW text \in Seq(Glyphs), NEW b \in Breaks(text)
  PROVE  /\ b \in 0..Len(text) /\ Line(text, b) \in Seq(Glyphs)
         /\ b + Len(Line(text, b)) \in b..Len(text)
         /\ \A k \in 1..Len(Line(text, b)) :
              /\ Line(text, b)[k] = text[b + k] /\ b + k \in 1..Len(text)
              /\ text[b + k] # "nl"
         /\ \/ b + Len(Line(text, b)) = Len(text)
            \/ text[b + Len(Line(text, b)) + 1] = "nl"
<1> DEFINE L == Len(text)
           e == Past(text, b + 1, Glyphs \ {"nl"})
           line == Line(text, b)
<1>1. L \in Nat /\ \A i \in 1..L : text[i] \in Glyphs
  OBVIOUS
<1>2. b \in 0..L
  BY <1>1 DEF Breaks
<1>3. /\ e \in b + 1..L + 1
      /\ \A i \in b + 1..e - 1 : text[i] \in Glyphs \ {"nl"}
      /\ e = L + 1 \/ text[e] \notin Glyphs \ {"nl"}
  <2>1. b + 1 \in Nat /\ b + 1 <= L + 1
    BY <1>1, <1>2
  <2> QED
    BY <1>1, <2>1, PastIs
<1>4. line = SubSeq(text, b + 1, e - 1)
  BY DEF Line
<1> HIDE DEF e, L, line
<1>5. b + 1 \in 1..L + 1 /\ e - 1 \in b..L /\ b \in Nat /\ e \in Nat
  BY <1>1, <1>2, <1>3
<1>6. /\ line \in Seq(Glyphs) /\ Len(line) = (e - 1) - b
      /\ \A k \in 1..(e - 1) - b : line[k] = text[b + k]
  <2>1. /\ SubSeq(text, b + 1, e - 1) \in Seq(Glyphs)
        /\ Len(SubSeq(text, b + 1, e - 1)) =
             IF b + 1 <= e - 1 THEN (e - 1) - (b + 1) + 1 ELSE 0
        /\ \A k \in 1..(e - 1) - (b + 1) + 1 : SubSeq(text, b + 1, e - 1)[k] = text[(b + 1) + k - 1]
    BY <1>1, <1>5, SubSeqProperties DEF L
  <2>2. /\ (IF b + 1 <= e - 1 THEN (e - 1) - (b + 1) + 1 ELSE 0) = (e - 1) - b
        /\ (e - 1) - (b + 1) + 1 = (e - 1) - b
        /\ \A k \in 1..(e - 1) - b : (b + 1) + k - 1 = b + k
    BY <1>5
  <2> QED
    BY <1>4, <2>1, <2>2
<1>7. b + Len(line) = e - 1
  BY <1>5, <1>6
<1>8. ASSUME NEW k \in 1..Len(line)
      PROVE  line[k] = text[b + k] /\ b + k \in 1..L /\ text[b + k] # "nl"
  <2>0. k \in 1..(e - 1) - b
    BY <1>6
  <2>2. k \in Nat /\ k >= 1 /\ k <= (e - 1) - b
    BY <2>0, <1>5
  <2>1. k \in 1..(e - 1) - b /\ b + k \in b + 1..e - 1 /\ b + k \in 1..L
    BY <1>1, <1>5, <2>0, <2>2
  <2> QED
    BY <1>3, <1>6, <2>1
<1>9. e - 1 = L \/ text[(e - 1) + 1] = "nl"
  <2>1. CASE e = L + 1
    BY <1>1, <2>1
  <2>2. CASE e # L + 1
    <3>1. e \in 1..L /\ (e - 1) + 1 = e
      BY <1>1, <1>3, <1>5, <2>2
    <3>2. text[e] \in Glyphs
      BY <1>1, <3>1
    <3>3. text[e] = "nl"
      BY <1>3, <2>2, <3>2
    <3> QED
      BY <3>1, <3>3
  <2> QED
    BY <2>1, <2>2
<1> QED
  BY <1>2, <1>5, <1>6, <1>7, <1>8, <1>9 DEF L, line

\* Every token but a line end is in a line,
LEMMA InALine ==
  ASSUME NEW text \in Seq(Glyphs), NEW p \in 1..Len(text), text[p] # "nl"
  PROVE  \E b \in Breaks(text) : \E k \in 1..Len(Line(text, b)) : p = b + k
<1> DEFINE B == {b \in Breaks(text) : b < p}
           D == {p - b : b \in B}
           L == Len(text)
<1>1. L \in Nat /\ p \in Nat /\ p > 0
  OBVIOUS
<1>2. \A b \in Breaks(text) : b \in 0..L
  BY <1>1 DEF Breaks
<1>3. D \in SUBSET Nat /\ p \in D
  <2>1. \A b \in B : p - b \in Nat
    BY <1>1, <1>2
  <2>2. 0 \in B /\ p - 0 = p
    BY <1>1 DEF Breaks
  <2> HIDE DEF B
  <2> QED
    BY <2>1, <2>2
<1>4. PICK d \in D : \A x \in D : d <= x
  <2> HIDE DEF D
  <2> QED
    BY <1>3, LeastNat
<1>5. PICK b \in B : d = p - b
  OBVIOUS
<1>6. \A c \in B : c <= b
  <2> SUFFICES ASSUME NEW c \in B PROVE c <= b
    OBVIOUS
  <2>1. p - b <= p - c
    BY <1>4, <1>5
  <2> QED
    BY <1>1, <1>2, <2>1
<1>7. /\ b \in Breaks(text) /\ b \in 0..L /\ b < p
      /\ \A i \in 1..L : i < p /\ text[i] = "nl" => i <= b
  <2>1. \A i \in 1..L : text[i] = "nl" => i \in Breaks(text)
    BY <1>1 DEF Breaks
  <2> QED
    BY <1>2, <1>6, <2>1
<1> DEFINE n == Len(Line(text, b))
<1>8. /\ n \in Nat /\ b + n \in b..L
      /\ b + n = L \/ text[b + n + 1] = "nl"
  BY <1>7, LineIs
<1> HIDE DEF n, B, D, L
<1>9. p <= b + n
  <2> SUFFICES ASSUME p > b + n PROVE FALSE
    BY <1>1, <1>7, <1>8
  <2>1. p \in 1..L
    BY DEF L
  <2>2. b + n # L /\ b + n + 1 \in 1..L /\ b + n + 1 <= p
    BY <1>1, <1>7, <1>8, <2>1
  <2>3. text[b + n + 1] = "nl"
    BY <1>8, <2>2
  <2>4. b + n + 1 < p
    BY <1>1, <1>7, <1>8, <2>2, <2>3
  <2>5. b + n + 1 <= b
    BY <1>7, <2>2, <2>3, <2>4
  <2> QED
    BY <1>7, <1>8, <2>5
<1>10. p - b \in 1..n /\ p = b + (p - b)
  BY <1>1, <1>7, <1>8, <1>9
<1> QED
  BY <1>7, <1>10 DEF n

\* and in one line only.
LEMMA InOneLine ==
  ASSUME NEW text \in Seq(Glyphs), NEW b \in Breaks(text), NEW c \in Breaks(text),
         NEW k \in 1..Len(Line(text, b)), NEW m \in 1..Len(Line(text, c)), b + k = c + m
  PROVE  b = c /\ k = m
<1> DEFINE L == Len(text)
<1>1. \A x \in Breaks(text) : x \in 0..L /\ (x = 0 \/ text[x] = "nl")
  BY DEF Breaks
<1>2. \A x \in Breaks(text) :
        /\ Len(Line(text, x)) \in Nat
        /\ \A j \in 1..Len(Line(text, x)) : text[x + j] # "nl"
  BY LineIs
<1> HIDE DEF L
<1>3. b \in Nat /\ c \in Nat /\ k \in Nat /\ m \in Nat /\ k > 0 /\ m > 0
  BY <1>1, <1>2
<1>4. CASE b < c
  <2>1. c - b \in 1..Len(Line(text, b)) /\ b + (c - b) = c /\ c # 0
    BY <1>2, <1>3, <1>4
  <2> QED
    BY <1>1, <1>2, <2>1
<1>5. CASE c < b
  <2>1. b - c \in 1..Len(Line(text, c)) /\ c + (b - c) = b /\ b # 0
    BY <1>2, <1>3, <1>5
  <2> QED
    BY <1>1, <1>2, <2>1
<1>6. b = c
  BY <1>3, <1>4, <1>5
<1> QED
  BY <1>3, <1>6

LEMMA BreaksFinite ==
  ASSUME NEW text \in Seq(Glyphs)
  PROVE  Breaks(text) \in SUBSET Nat /\ IsFiniteSet(Breaks(text))
<1>1. Breaks(text) \subseteq 0..Len(text) /\ Len(text) \in Nat
  BY DEF Breaks
<1>2. IsFiniteSet(0..Len(text))
  BY <1>1, FS_Interval
<1> QED
  BY <1>1, <1>2, FS_Subset

-----------------------------------------------------------------------------
(* Output: parse_compactc_output *)

Known(text) == {b \in Breaks(text) : Structured(Line(text, b))}
Rest(text) == {b \in Breaks(text) \ Known(text) : ~Blank(Line(text, b))}

LEMMA PartsFinite ==
  ASSUME NEW text \in Seq(Glyphs)
  PROVE  /\ Known(text) \in SUBSET Nat /\ IsFiniteSet(Known(text)) /\ Cardinality(Known(text)) \in Nat
         /\ Rest(text) \in SUBSET Nat /\ IsFiniteSet(Rest(text)) /\ Cardinality(Rest(text)) \in Nat
         /\ Known(text) \cap Rest(text) = {}
<1>1. Known(text) \subseteq Breaks(text) /\ Rest(text) \subseteq Breaks(text)
      /\ Known(text) \cap Rest(text) = {}
  BY DEF Known, Rest
<1>2. Breaks(text) \in SUBSET Nat /\ IsFiniteSet(Breaks(text))
  BY BreaksFinite
<1>3. IsFiniteSet(Known(text)) /\ IsFiniteSet(Rest(text))
  BY <1>1, <1>2, FS_Subset
<1> QED
  BY <1>1, <1>2, <1>3, FS_CardinalityType

\* The diagnostics: the structured lines one by one, then the rest.
LEMMA ParseParts ==
  ASSUME NEW text \in Seq(Glyphs), NEW ds, ds = Parse(text)
  PROVE  /\ DOMAIN ds = 1..Cardinality(Known(text)) + (IF Rest(text) = {} THEN 0 ELSE 1)
         /\ Len(ds) = Cardinality(Known(text)) + (IF Rest(text) = {} THEN 0 ELSE 1)
         /\ \A d \in 1..Cardinality(Known(text)) :
              ds[d] = [raw |-> FALSE, lines |-> <<Line(text, Ordered(Known(text))[d])>>]
         /\ Rest(text) # {} =>
              ds[Cardinality(Known(text)) + 1] = [raw |-> TRUE, lines |-> LinesAt(text, Rest(text))]
<1> DEFINE K == Known(text)
           R == Rest(text)
           N == Cardinality(K)
           S == [raw : BOOLEAN, lines : Seq(Seq(Glyphs))]
           one == [d \in 1..N |-> [raw |-> FALSE, lines |-> <<Line(text, Ordered(K)[d])>>]]
           two == IF R = {} THEN <<>> ELSE <<[raw |-> TRUE, lines |-> LinesAt(text, R)]>>
<1>1. /\ N \in Nat /\ Ordered(K) \in [1..N -> K] /\ Ordered(R) \in [1..Cardinality(R) -> R]
      /\ Cardinality(R) \in Nat
  BY PartsFinite, OrderedIs
<1>2. /\ \A b \in K : Line(text, b) \in Seq(Glyphs)
      /\ \A b \in R : Line(text, b) \in Seq(Glyphs)
  BY LineIs DEF Known, Rest
<1>3. LinesAt(text, R) \in Seq(Seq(Glyphs))
  <2>1. \A k \in 1..Cardinality(R) : Line(text, Ordered(R)[k]) \in Seq(Glyphs)
    BY <1>1, <1>2
  <2> DEFINE M == Cardinality(R)
             ls == [k \in 1..M |-> Line(text, Ordered(R)[k])]
  <2>2. ls = LinesAt(text, R)
    BY DEF LinesAt
  <2>4. M \in Nat /\ \A k \in 1..M : Line(text, Ordered(R)[k]) \in Seq(Glyphs)
    BY <1>1, <2>1
  <2> HIDE DEF M, R
  <2>3. ls \in Seq(Seq(Glyphs))
    BY <2>4
  <2> QED
    BY <2>2, <2>3
<1>4. ds = one \o two
  <2>1. \A d \in 1..N : LinesAt(text, K)[d] = Line(text, Ordered(K)[d])
    BY DEF LinesAt
  <2>2. one = [d \in 1..N |-> [raw |-> FALSE, lines |-> <<LinesAt(text, K)[d]>>]]
    BY <2>1
  <2> HIDE DEF one
  <2> QED
    BY <2>2 DEF Parse, Known, Rest
<1>5. one \in Seq(S) /\ Len(one) = N /\ \A d \in 1..N : one[d] = [raw |-> FALSE, lines |-> <<Line(text, Ordered(K)[d])>>]
  <2>1. \A d \in 1..N : [raw |-> FALSE, lines |-> <<Line(text, Ordered(K)[d])>>] \in S
    BY <1>1, <1>2
  <2> HIDE DEF S
  <2> QED
    BY <1>1, <2>1
<1>6. /\ two \in Seq(S) /\ Len(two) = (IF R = {} THEN 0 ELSE 1)
      /\ R # {} => two[1] = [raw |-> TRUE, lines |-> LinesAt(text, R)]
  <2>1. [raw |-> TRUE, lines |-> LinesAt(text, R)] \in S
    BY <1>3
  <2> HIDE DEF S, R
  <2> QED
    BY <2>1
<1> HIDE DEF one, two, N, S, R
<1>7. /\ Len(one \o two) = Len(one) + Len(two) /\ one \o two \in Seq(S)
      /\ \A i \in 1..Len(one) + Len(two) :
           (one \o two)[i] = IF i <= Len(one) THEN one[i] ELSE two[i - Len(one)]
  BY <1>5, <1>6, ConcatProperties
<1>8. Len(ds) = N + (IF R = {} THEN 0 ELSE 1) /\ DOMAIN ds = 1..Len(ds)
  BY <1>4, <1>5, <1>6, <1>7
<1>9. ASSUME NEW d \in 1..N PROVE ds[d] = one[d]
  BY <1>1, <1>4, <1>5, <1>6, <1>7
<1>10. ASSUME R # {} PROVE ds[N + 1] = two[1]
  <2>1. Len(two) = 1 /\ N + 1 \in 1..N + 1 /\ ~(N + 1 <= N) /\ (N + 1) - N = 1
    BY <1>1, <1>6, <1>10
  <2> QED
    BY <1>4, <1>5, <1>7, <2>1
<1> QED
  BY <1>5, <1>6, <1>8, <1>9, <1>10 DEF N, R

\* Where a line that a diagnostic shows begins.
From(text, d, l) ==
  IF d <= Cardinality(Known(text)) THEN Ordered(Known(text))[d] ELSE Ordered(Rest(text))[l]

LEMMA ParseShows ==
  ASSUME NEW text \in Seq(Glyphs), NEW ds, ds = Parse(text)
  PROVE  /\ \A d \in DOMAIN ds : \A l \in DOMAIN ds[d].lines :
              /\ From(text, d, l) \in Known(text) \cup Rest(text)
              /\ ds[d].lines[l] = Line(text, From(text, d, l))
         /\ \A d, e \in DOMAIN ds : \A l \in DOMAIN ds[d].lines, m \in DOMAIN ds[e].lines :
              From(text, d, l) = From(text, e, m) => d = e /\ l = m
         /\ \A b \in Known(text) \cup Rest(text) :
              \E d \in DOMAIN ds : \E l \in DOMAIN ds[d].lines : From(text, d, l) = b
<1> DEFINE K == Known(text)
           R == Rest(text)
           N == Cardinality(K)
           M == Cardinality(R)
           ok == Ordered(K)
           or == Ordered(R)
<1>1. /\ DOMAIN ds = 1..N + (IF R = {} THEN 0 ELSE 1)
      /\ \A d \in 1..N : ds[d].raw = FALSE /\ ds[d].lines = <<Line(text, ok[d])>>
      /\ R # {} => ds[N + 1].lines = LinesAt(text, R)
  <2>1. /\ DOMAIN ds = 1..N + (IF R = {} THEN 0 ELSE 1)
        /\ \A d \in 1..N : ds[d] = [raw |-> FALSE, lines |-> <<Line(text, ok[d])>>]
        /\ R # {} => ds[N + 1] = [raw |-> TRUE, lines |-> LinesAt(text, R)]
    BY ParseParts
  <2> HIDE DEF N, R, ok
  <2>2. ASSUME NEW d \in 1..N PROVE ds[d].raw = FALSE /\ ds[d].lines = <<Line(text, ok[d])>>
    <3> DEFINE ls == <<Line(text, ok[d])>>
    <3>1. ds[d] = [raw |-> FALSE, lines |-> ls]
      BY <2>1
    <3> HIDE DEF ls
    <3>2. ds[d].raw = FALSE /\ ds[d].lines = ls
      BY <3>1
    <3> QED
      BY <3>2 DEF ls
  <2>3. R # {} => ds[N + 1].lines = LinesAt(text, R)
    BY <2>1
  <2> QED
    BY <2>1, <2>2, <2>3
<1>2. /\ N \in Nat /\ ok \in [1..N -> K] /\ (\A i, k \in 1..N : ok[i] = ok[k] => i = k)
      /\ \A x \in K : \E k \in 1..N : ok[k] = x
  BY PartsFinite, OrderedIs
<1>3. /\ M \in Nat /\ or \in [1..M -> R] /\ (\A i, k \in 1..M : or[i] = or[k] => i = k)
      /\ \A x \in R : \E k \in 1..M : or[k] = x
  BY PartsFinite, OrderedIs
<1>4. K \cap R = {}
  BY PartsFinite
<1>5. \A d, l : From(text, d, l) = IF d <= N THEN ok[d] ELSE or[l]
  BY DEF From
<1>6. LinesAt(text, R) = [k \in 1..M |-> Line(text, or[k])]
  BY DEF LinesAt
<1> HIDE DEF K, R, N, M, ok, or
<1>7. \A d \in 1..N : DOMAIN ds[d].lines = {1} /\ ds[d].lines[1] = Line(text, ok[d])
  BY <1>1
<1>8. R # {} => DOMAIN ds[N + 1].lines = 1..M /\ \A l \in 1..M : ds[N + 1].lines[l] = Line(text, or[l])
  BY <1>1, <1>6
<1>9. ASSUME NEW d \in DOMAIN ds
      PROVE  (d \in 1..N /\ d <= N) \/ (d = N + 1 /\ R # {} /\ ~(d <= N))
  BY <1>1, <1>2
<1>10. ASSUME NEW d \in DOMAIN ds, NEW l \in DOMAIN ds[d].lines
       PROVE  /\ d <= N => d \in 1..N /\ l = 1 /\ From(text, d, l) = ok[d] /\ ok[d] \in K
                           /\ ds[d].lines[l] = Line(text, ok[d])
              /\ ~(d <= N) => d = N + 1 /\ l \in 1..M /\ From(text, d, l) = or[l] /\ or[l] \in R
                              /\ ds[d].lines[l] = Line(text, or[l])
  <2>1. CASE d \in 1..N /\ d <= N
    BY <1>2, <1>5, <1>7, <2>1
  <2>2. CASE d = N + 1 /\ R # {} /\ ~(d <= N)
    BY <1>3, <1>5, <1>8, <2>2
  <2> QED
    BY <1>9, <2>1, <2>2
<1>11. ASSUME NEW d \in DOMAIN ds, NEW l \in DOMAIN ds[d].lines
       PROVE  /\ From(text, d, l) \in K \cup R
              /\ ds[d].lines[l] = Line(text, From(text, d, l))
  BY <1>10
<1>12. ASSUME NEW d \in DOMAIN ds, NEW e \in DOMAIN ds,
              NEW l \in DOMAIN ds[d].lines, NEW m \in DOMAIN ds[e].lines,
              From(text, d, l) = From(text, e, m)
       PROVE  d = e /\ l = m
  <2>1. (d <= N) <=> (e <= N)
    BY <1>4, <1>10, <1>12
  <2>2. CASE d <= N
    BY <1>2, <1>10, <1>12, <2>1, <2>2
  <2>3. CASE ~(d <= N)
    BY <1>3, <1>10, <1>12, <2>1, <2>3
  <2> QED
    BY <2>2, <2>3
<1>13. ASSUME NEW b \in K \cup R
       PROVE  \E d \in DOMAIN ds : \E l \in DOMAIN ds[d].lines : From(text, d, l) = b
  <2>1. CASE b \in K
    <3>1. PICK d \in 1..N : ok[d] = b
      BY <1>2, <2>1
    <3>2. d \in DOMAIN ds /\ d <= N /\ 1 \in DOMAIN ds[d].lines
      BY <1>1, <1>2, <1>7
    <3> QED
      BY <1>5, <3>1, <3>2
  <2>2. CASE b \in R
    <3>1. PICK l \in 1..M : or[l] = b
      BY <1>3, <2>2
    <3>3. R # {}
      BY <2>2
    <3>4. DOMAIN ds = 1..N + 1 /\ N \in Nat
      BY <1>1, <1>2, <3>3
    <3>5. N + 1 \in 1..N + 1 /\ ~(N + 1 <= N)
      BY <3>4
    <3>2. N + 1 \in DOMAIN ds /\ ~(N + 1 <= N) /\ l \in DOMAIN ds[N + 1].lines
      BY <1>8, <3>1, <3>3, <3>4, <3>5
    <3> QED
      BY <1>5, <3>1, <3>2
  <2> QED
    BY <2>1, <2>2
<1> QED
  BY <1>11, <1>12, <1>13 DEF K, R

LEMMA InShown ==
  ASSUME NEW token, NEW ds
  PROVE  /\ \A x \in Shown(token, ds) :
              \E d \in DOMAIN ds : \E l \in DOMAIN ds[d].lines : \E k \in DOMAIN ds[d].lines[l] :
                x = <<d, l, k>> /\ ds[d].lines[l][k] = token
         /\ \A d \in DOMAIN ds : \A l \in DOMAIN ds[d].lines : \A k \in DOMAIN ds[d].lines[l] :
              ds[d].lines[l][k] = token => <<d, l, k>> \in Shown(token, ds)
  BY DEF Shown

\* Each place of a token in the text is one place of it in the diagnostics.
LEMMA ShownOnce ==
  ASSUME NEW text \in Seq(Glyphs), NEW token, token \notin {"nl", "gap"},
         NEW ds, ds = Parse(text)
  PROVE  Cardinality(Shown(token, ds)) = Count(token, text)
<1> DEFINE A == Shown(token, ds)
           B == {p \in DOMAIN text : text[p] = token}
           L == Len(text)
           line(b) == Line(text, b)
           at(d, l) == From(text, d, l)
           g == [x \in A |-> at(x[1], x[2]) + x[3]]
<1>1. /\ \A d \in DOMAIN ds : \A l \in DOMAIN ds[d].lines :
           at(d, l) \in Known(text) \cup Rest(text) /\ ds[d].lines[l] = line(at(d, l))
      /\ \A d, e \in DOMAIN ds : \A l \in DOMAIN ds[d].lines, m \in DOMAIN ds[e].lines :
           at(d, l) = at(e, m) => d = e /\ l = m
      /\ \A b \in Known(text) \cup Rest(text) :
           \E d \in DOMAIN ds : \E l \in DOMAIN ds[d].lines : at(d, l) = b
  BY ParseShows
<1>2. /\ Known(text) \cup Rest(text) \subseteq Breaks(text)
      /\ \A b \in Breaks(text) : ~Blank(line(b)) => b \in Known(text) \cup Rest(text)
  BY DEF Known, Rest
<1>3. \A b \in Breaks(text) :
        /\ line(b) \in Seq(Glyphs) /\ DOMAIN line(b) = 1..Len(line(b))
        /\ \A k \in 1..Len(line(b)) : line(b)[k] = text[b + k] /\ b + k \in 1..L
  BY LineIs
<1>4. DOMAIN text = 1..L /\ L \in Nat
  OBVIOUS
<1>5. \A b, c \in Breaks(text) : \A k \in 1..Len(line(b)), m \in 1..Len(line(c)) :
        b + k = c + m => b = c /\ k = m
  BY InOneLine
<1>6. \A p \in 1..L : text[p] # "nl" =>
        \E b \in Breaks(text) : \E k \in 1..Len(line(b)) : p = b + k
  BY InALine
<1> HIDE DEF line, at, L
<1>7. IsFiniteSet(B)
  <2>1. IsFiniteSet(1..L) /\ B \subseteq 1..L
    BY <1>4, FS_Interval
  <2> HIDE DEF B
  <2> QED
    BY <2>1, FS_Subset
<1>8. ASSUME NEW x \in A
      PROVE  \E d \in DOMAIN ds : \E l \in DOMAIN ds[d].lines : \E k \in 1..Len(line(at(d, l))) :
               /\ x = <<d, l, k>> /\ at(d, l) \in Breaks(text) /\ g[x] = at(d, l) + k
               /\ text[at(d, l) + k] = token /\ at(d, l) + k \in 1..L
  <2>1. PICK d \in DOMAIN ds : \E l \in DOMAIN ds[d].lines : \E k \in DOMAIN ds[d].lines[l] :
          x = <<d, l, k>> /\ ds[d].lines[l][k] = token
    BY InShown
  <2>2. PICK l \in DOMAIN ds[d].lines : \E k \in DOMAIN ds[d].lines[l] :
          x = <<d, l, k>> /\ ds[d].lines[l][k] = token
    BY <2>1
  <2>3. PICK k \in DOMAIN ds[d].lines[l] : x = <<d, l, k>> /\ ds[d].lines[l][k] = token
    BY <2>2
  <2>4. at(d, l) \in Breaks(text) /\ ds[d].lines[l] = line(at(d, l))
    BY <1>1, <1>2
  <2>5. k \in 1..Len(line(at(d, l)))
    BY <1>3, <2>3, <2>4
  <2>6. text[at(d, l) + k] = token /\ at(d, l) + k \in 1..L
    BY <1>3, <2>3, <2>4, <2>5
  <2>7. g[x] = at(d, l) + k
    BY <2>3
  <2> HIDE DEF g, A
  <2> QED
    BY <2>3, <2>4, <2>5, <2>6, <2>7
<1>9. g \in [A -> B]
  <2>1. \A x \in A : g[x] \in B
    <3> SUFFICES ASSUME NEW x \in A PROVE g[x] \in B
      OBVIOUS
    <3> HIDE DEF g, A
    <3> QED
      BY <1>4, <1>8
  <2> HIDE DEF A, B
  <2> QED
    BY <2>1
<1> HIDE DEF g
<1>10. ASSUME NEW x \in A, NEW y \in A, g[x] = g[y] PROVE x = y
  <2>1. PICK d \in DOMAIN ds : \E l \in DOMAIN ds[d].lines : \E k \in 1..Len(line(at(d, l))) :
          x = <<d, l, k>> /\ at(d, l) \in Breaks(text) /\ g[x] = at(d, l) + k
    BY <1>8
  <2>7. PICK l \in DOMAIN ds[d].lines : \E k \in 1..Len(line(at(d, l))) :
          x = <<d, l, k>> /\ at(d, l) \in Breaks(text) /\ g[x] = at(d, l) + k
    BY <2>1
  <2>2. PICK k \in 1..Len(line(at(d, l))) :
          x = <<d, l, k>> /\ at(d, l) \in Breaks(text) /\ g[x] = at(d, l) + k
    BY <2>7
  <2>3. PICK e \in DOMAIN ds : \E m \in DOMAIN ds[e].lines : \E n \in 1..Len(line(at(e, m))) :
          y = <<e, m, n>> /\ at(e, m) \in Breaks(text) /\ g[y] = at(e, m) + n
    BY <1>8
  <2>8. PICK m \in DOMAIN ds[e].lines : \E n \in 1..Len(line(at(e, m))) :
          y = <<e, m, n>> /\ at(e, m) \in Breaks(text) /\ g[y] = at(e, m) + n
    BY <2>3
  <2>4. PICK n \in 1..Len(line(at(e, m))) :
          y = <<e, m, n>> /\ at(e, m) \in Breaks(text) /\ g[y] = at(e, m) + n
    BY <2>8
  <2>5. at(d, l) = at(e, m) /\ k = n
    BY <1>5, <1>10, <2>2, <2>4
  <2>6. d = e /\ l = m
    BY <1>1, <2>5
  <2> QED
    BY <2>2, <2>4, <2>5, <2>6
<1>11. ASSUME NEW p \in B PROVE \E x \in A : g[x] = p
  <2>1. p \in 1..L /\ text[p] = token
    BY <1>4
  <2>2. PICK b \in Breaks(text) : \E k \in 1..Len(line(b)) : p = b + k
    BY <1>6, <2>1
  <2>3. PICK k \in 1..Len(line(b)) : p = b + k
    BY <2>2
  <2>4. line(b)[k] = token /\ DOMAIN line(b) = 1..Len(line(b)) /\ k \in DOMAIN line(b)
    BY <1>3, <2>1, <2>3
  <2>5. ~Blank(line(b))
    BY <2>4 DEF Blank, ToSet
  <2>6. PICK d \in DOMAIN ds : \E l \in DOMAIN ds[d].lines : at(d, l) = b
    BY <1>1, <1>2, <2>5
  <2>7. PICK l \in DOMAIN ds[d].lines : at(d, l) = b
    BY <2>6
  <2>8. ds[d].lines[l] = line(b)
    BY <1>1, <2>7
  <2>9. <<d, l, k>> \in A
    BY <2>4, <2>8, InShown
  <2>10. g[<<d, l, k>>] = b + k
    BY <2>7, <2>9 DEF g
  <2> QED
    BY <2>3, <2>9, <2>10
<1>12. Cardinality(A) = Cardinality(B)
  BY <1>7, <1>9, <1>10, <1>11, SameSize
<1> QED
  BY <1>12 DEF Count

\* Which diagnostics are raw.
LEMMA RawIsLast ==
  ASSUME NEW text \in Seq(Glyphs), NEW ds, ds = Parse(text)
  PROVE  /\ \A d \in DOMAIN ds : ds[d].raw => d = Len(ds)
         /\ Cardinality({d \in DOMAIN ds : ~ds[d].raw}) = Cardinality(Known(text))
<1> DEFINE N == Cardinality(Known(text))
           R == Rest(text)
<1>1. /\ DOMAIN ds = 1..N + (IF R = {} THEN 0 ELSE 1) /\ N \in Nat
      /\ Len(ds) = N + (IF R = {} THEN 0 ELSE 1)
  BY ParseParts, PartsFinite
<1>2. ASSUME NEW d \in 1..N PROVE ds[d].raw = FALSE
  <2> DEFINE ls == <<Line(text, Ordered(Known(text))[d])>>
  <2>1. ds[d] = [raw |-> FALSE, lines |-> ls]
    BY ParseParts
  <2> HIDE DEF ls
  <2> QED
    BY <2>1
<1>3. ASSUME R # {} PROVE ds[N + 1].raw = TRUE
  <2> DEFINE ls == LinesAt(text, R)
  <2>1. ds[N + 1] = [raw |-> TRUE, lines |-> ls]
    BY <1>3, ParseParts
  <2> HIDE DEF ls
  <2> QED
    BY <2>1
<1> HIDE DEF N, R
<1>4. ASSUME NEW d \in DOMAIN ds
      PROVE  d \in 1..N \/ (d = N + 1 /\ R # {} /\ d = Len(ds) /\ d \notin 1..N)
  BY <1>1
<1>5. \A d \in DOMAIN ds : ds[d].raw => d = Len(ds)
  BY <1>2, <1>4
<1>6. \A d \in DOMAIN ds : ~ds[d].raw <=> d \in 1..N
  <2> SUFFICES ASSUME NEW d \in DOMAIN ds PROVE ~ds[d].raw <=> d \in 1..N
    OBVIOUS
  <2>1. CASE d \in 1..N
    BY <1>2, <2>1
  <2>2. CASE d = N + 1 /\ R # {} /\ d \notin 1..N
    BY <1>3, <2>2
  <2> QED
    BY <1>4, <2>1, <2>2
<1>7. 1..N \subseteq DOMAIN ds
  BY <1>1
<1>8. {d \in DOMAIN ds : ~ds[d].raw} = 1..N
  BY <1>6, <1>7
<1>9. Cardinality(1..N) = N
  BY <1>1, FS_Interval
<1> QED
  BY <1>5, <1>8, <1>9 DEF N

\* From the position i on, the text shows what VSCODE_LINE matches.
Excepted(text, i) ==
  /\ text[i] = "ex1"
  /\ \E j, m \in DOMAIN text :
       /\ i <= j /\ j + 2 <= m /\ OnLine(text, i, m)
       /\ text[j] = "ex1" /\ text[j + 1] = "ex2" /\ text[j + 2] \in {"gap", "sep"}
       /\ text[m] # "gap"

LEMMA InExceptions ==
  ASSUME NEW text \in Seq(Glyphs)
  PROVE  \A i : i \in Exceptions(text) <=>
           i \in 1..Len(text) /\ (i = 1 \/ text[i - 1] = "nl") /\ Excepted(text, i)
<1>1. DOMAIN text = 1..Len(text)
  OBVIOUS
<1> QED
  BY <1>1 DEF Exceptions, Starts, Excepted

LEMMA Apart ==
  ASSUME NEW d \in Int, NEW i \in Nat, NEW j \in Nat, NEW m \in Nat, NEW e \in Nat,
         i <= j, j + 2 <= m, m < e
  PROVE  /\ i \in i..e - 1 /\ j \in i..e - 1 /\ j + 1 \in i..e - 1 /\ j + 2 \in i..e - 1
         /\ m \in i..e - 1
         /\ d + i <= d + j /\ (d + j) + 2 <= d + m
         /\ (d + j) + 1 = d + (j + 1) /\ (d + j) + 2 = d + (j + 2)
         /\ d + i <= d + m /\ d + m \in Int
  OBVIOUS

\* It is a matter of one line: another text that goes on the same way, from d
\* further on, up to the line's end shows it too.
LEMMA LineCarries ==
  ASSUME NEW s \in Seq(Glyphs), NEW t \in Seq(Glyphs), NEW d \in Int,
         NEW i \in Nat, NEW e \in Nat, i < e,
         \A k \in i..e - 1 : d + k \in 1..Len(t) /\ t[d + k] = s[k],
         e = Len(s) + 1 \/ s[e] = "nl",
         Excepted(s, i)
  PROVE  Excepted(t, d + i)
<1>1. PICK j \in DOMAIN s, m \in DOMAIN s :
        /\ i <= j /\ j + 2 <= m /\ OnLine(s, i, m)
        /\ s[j] = "ex1" /\ s[j + 1] = "ex2" /\ s[j + 2] \in {"gap", "sep"}
        /\ s[m] # "gap"
  BY DEF Excepted
<1>2. /\ j \in Nat /\ m \in Nat /\ m <= Len(s) /\ Len(s) \in Nat
      /\ \A k \in i..m : s[k] # "nl"
  <2>1. DOMAIN s = 1..Len(s) /\ Len(s) \in Nat
    OBVIOUS
  <2>2. \A k \in i..m : s[k] # "nl"
    BY <1>1 DEF OnLine
  <2> QED
    BY <2>1, <2>2
<1>3. m < e
  <2> SUFFICES ASSUME e <= m PROVE FALSE
    BY <1>2
  <2>1. e \in i..m /\ e # Len(s) + 1
    BY <1>2
  <2> QED
    BY <1>2, <2>1
<1>4. /\ i \in i..e - 1 /\ j \in i..e - 1 /\ j + 1 \in i..e - 1 /\ j + 2 \in i..e - 1
      /\ m \in i..e - 1
      /\ d + i <= d + j /\ (d + j) + 2 <= d + m
      /\ (d + j) + 1 = d + (j + 1) /\ (d + j) + 2 = d + (j + 2)
      /\ d + i <= d + m /\ d + m \in Int
  BY <1>1, <1>2, <1>3, Apart
<1>5. /\ t[d + i] = "ex1" /\ t[d + j] = "ex1" /\ t[d + (j + 1)] = "ex2"
      /\ t[d + (j + 2)] \in {"gap", "sep"} /\ t[d + m] # "gap"
      /\ d + j \in 1..Len(t) /\ d + m \in 1..Len(t)
  BY <1>1, <1>4 DEF Excepted
<1>6. ASSUME NEW k \in d + i..d + m PROVE t[k] # "nl"
  <2>1. k - d \in i..m /\ k - d \in i..e - 1 /\ d + (k - d) = k
    BY <1>2, <1>3
  <2> QED
    BY <1>2, <2>1
<1>7. OnLine(t, d + i, d + m)
  <2>1. d + m \in d + i..Len(t)
    BY <1>1, <1>2, <1>5
  <2> QED
    BY <1>6, <2>1 DEF OnLine
<1>8. DOMAIN t = 1..Len(t)
  OBVIOUS
<1>9. \E j1, m1 \in DOMAIN t :
        /\ d + i <= j1 /\ j1 + 2 <= m1 /\ OnLine(t, d + i, m1)
        /\ t[j1] = "ex1" /\ t[j1 + 1] = "ex2" /\ t[j1 + 2] \in {"gap", "sep"}
        /\ t[m1] # "gap"
  <2>1. /\ d + j \in DOMAIN t /\ d + m \in DOMAIN t
        /\ t[(d + j) + 1] = "ex2" /\ t[(d + j) + 2] \in {"gap", "sep"}
    BY <1>4, <1>5, <1>8
  <2> QED
    BY <1>4, <1>5, <1>7, <2>1
<1> QED
  BY <1>5, <1>9 DEF Excepted

LEMMA StructuredIs ==
  ASSUME NEW line \in Seq(Glyphs), \A k \in 1..Len(line) : line[k] # "nl"
  PROVE  Structured(line) <=> Len(line) >= 1 /\ Excepted(line, 1)
<1>1. Len(line) \in Nat /\ DOMAIN line = 1..Len(line)
  OBVIOUS
<1>2. ASSUME Structured(line) PROVE Excepted(line, 1)
  <2>1. PICK i \in 1..Len(line) - 2 :
          /\ line[i] = "ex1" /\ line[i + 1] = "ex2" /\ line[i + 2] \in {"gap", "sep"}
          /\ \E k \in i + 2..Len(line) : line[k] # "gap"
    BY <1>2 DEF Structured
  <2>2. PICK k \in i + 2..Len(line) : line[k] # "gap"
    BY <2>1
  <2>3. /\ i \in DOMAIN line /\ k \in DOMAIN line /\ 1 <= i /\ i + 2 <= k
        /\ OnLine(line, 1, k)
    BY <1>1 DEF OnLine
  <2> QED
    BY <1>2, <2>1, <2>2, <2>3 DEF Structured, Excepted
<1>3. ASSUME Len(line) >= 1, Excepted(line, 1) PROVE Structured(line)
  <2>1. PICK j \in DOMAIN line, m \in DOMAIN line :
          /\ 1 <= j /\ j + 2 <= m
          /\ line[j] = "ex1" /\ line[j + 1] = "ex2" /\ line[j + 2] \in {"gap", "sep"}
          /\ line[m] # "gap"
    BY <1>3 DEF Excepted
  <2>2. j \in 1..Len(line) - 2 /\ m \in j + 2..Len(line)
    BY <1>1, <2>1
  <2> QED
    BY <1>3, <2>1, <2>2 DEF Structured, Excepted
<1>4. Structured(line) => Len(line) >= 1
  BY DEF Structured
<1> QED
  BY <1>2, <1>3, <1>4

\* A structured line is where the text says so.
LEMMA KnownAreExceptions ==
  ASSUME NEW text \in Seq(Glyphs)
  PROVE  /\ IsFiniteSet(Exceptions(text))
         /\ Cardinality(Known(text)) = Cardinality(Exceptions(text))
<1> DEFINE K == Known(text)
           E == Exceptions(text)
           L == Len(text)
           g == [b \in K |-> b + 1]
<1>1. L \in Nat /\ DOMAIN text = 1..L
  OBVIOUS
<1>2. IsFiniteSet(E)
  <2>1. E \subseteq 1..L /\ IsFiniteSet(1..L)
    BY <1>1, FS_Interval DEF Exceptions, Starts
  <2> HIDE DEF E
  <2> QED
    BY <2>1, FS_Subset
<1>3. \A i : i \in E <=> i \in 1..L /\ (i = 1 \/ text[i - 1] = "nl") /\ Excepted(text, i)
  BY InExceptions
<1>4. \A b \in Breaks(text) :
        /\ Line(text, b) \in Seq(Glyphs)
        /\ Len(Line(text, b)) \in Nat /\ b \in 0..L /\ b + Len(Line(text, b)) \in b..L
        /\ \A k \in 1..Len(Line(text, b)) :
             Line(text, b)[k] = text[b + k] /\ b + k \in 1..L /\ text[b + k] # "nl"
        /\ b + Len(Line(text, b)) = L \/ text[b + Len(Line(text, b)) + 1] = "nl"
  BY LineIs
<1>5. \A b : b \in Breaks(text) <=> b = 0 \/ (b \in 1..L /\ text[b] = "nl")
  BY <1>1 DEF Breaks
<1>6. \A b : b \in K <=> b \in Breaks(text) /\ Structured(Line(text, b))
  BY DEF Known
<1> HIDE DEF K, E
<1>7. ASSUME NEW b \in Breaks(text)
      PROVE  b \in K <=> b + 1 \in 1..L /\ Excepted(text, b + 1)
  <2> DEFINE line == Line(text, b)
             n == Len(line)
  <2>1. /\ line \in Seq(Glyphs) /\ n \in Nat /\ b \in 0..L /\ b \in Int /\ b + n \in b..L
        /\ \A k \in 1..n : line[k] = text[b + k] /\ b + k \in 1..L /\ text[b + k] # "nl"
        /\ b + n = L \/ text[b + n + 1] = "nl"
    BY <1>4
  <2>2. Structured(line) <=> n >= 1 /\ Excepted(line, 1)
    <3>1. \A k \in 1..n : line[k] # "nl"
      BY <2>1
    <3> HIDE DEF line
    <3> QED
      BY <2>1, <3>1, StructuredIs
  <2> HIDE DEF line
  <2>3. ASSUME n >= 1, Excepted(line, 1) PROVE b + 1 \in 1..L /\ Excepted(text, b + 1)
    <3>1. \A k \in 1..(n + 1) - 1 : b + k \in 1..Len(text) /\ text[b + k] = line[k]
      BY <2>1
    <3>2. 1 \in Nat /\ n + 1 \in Nat /\ 1 < n + 1 /\ n + 1 = Len(line) + 1 /\ 1 \in 1..n
      BY <2>1, <2>3
    <3> QED
      BY <2>1, <2>3, <3>1, <3>2, LineCarries
  <2>4. ASSUME b + 1 \in 1..L, Excepted(text, b + 1) PROVE n >= 1 /\ Excepted(line, 1)
    <3>1. n # 0
      <4> SUFFICES ASSUME n = 0 PROVE FALSE
        OBVIOUS
      <4>a. L \in Nat
        BY <1>1
      <4>b. b \in 0..L
        BY <2>1
      <4>c. b + 1 \in 1..L
        BY <2>4
      <4>0. L \in Nat /\ b \in Nat /\ b + 1 <= L
        BY <4>a, <4>b, <4>c
      <4>1. b + n # L /\ b + n + 1 = b + 1
        BY <4>0
      <4>2. text[b + 1] = "nl"
        BY <2>1, <4>1
      <4> QED
        BY <2>4, <4>2 DEF Excepted
    <3> DEFINE d == 0 - b
               e == b + n + 1
    <3>2. /\ d \in Int /\ b + 1 \in Nat /\ e \in Nat /\ b + 1 < e /\ d + (b + 1) = 1
          /\ n >= 1
      BY <2>1, <3>1
    <3>3. \A k \in b + 1..e - 1 : d + k \in 1..Len(line) /\ line[d + k] = text[k]
      <4> SUFFICES ASSUME NEW k \in b + 1..e - 1
                   PROVE  d + k \in 1..n /\ line[d + k] = text[k]
        OBVIOUS
      <4>0. b \in Nat /\ n \in Nat /\ k \in Int /\ b + 1 <= k /\ k <= b + n
        BY <2>1
      <4>1. d + k \in 1..n /\ b + (d + k) = k
        BY <4>0
      <4> QED
        BY <2>1, <4>1
    <3>4. e = Len(text) + 1 \/ text[e] = "nl"
      BY <2>1
    <3> HIDE DEF d, e
    <3>5. Excepted(line, d + (b + 1))
      BY <2>1, <2>4, <3>2, <3>3, <3>4, LineCarries
    <3> QED
      BY <3>2, <3>5
  <2> QED
    BY <1>6, <2>2, <2>3, <2>4 DEF line
<1> HIDE DEF L
<1>8. ASSUME NEW b \in K PROVE b + 1 \in E /\ b \in Nat
  <2>1. b \in Breaks(text) /\ b \in Nat /\ (b = 0 \/ text[b] = "nl")
    BY <1>1, <1>5, <1>6
  <2>2. (b + 1) - 1 = b /\ (b = 0 => b + 1 = 1)
    BY <2>1
  <2> QED
    BY <1>3, <1>7, <2>1, <2>2
<1>9. ASSUME NEW i \in E PROVE i - 1 \in K /\ (i - 1) + 1 = i
  <2>1. i \in 1..L /\ (i = 1 \/ text[i - 1] = "nl") /\ Excepted(text, i)
    BY <1>3
  <2>2. (i - 1) + 1 = i /\ (i = 1 => i - 1 = 0) /\ (i # 1 => i - 1 \in 1..L)
    BY <1>1, <2>1
  <2>3. i - 1 \in Breaks(text)
    BY <1>5, <2>1, <2>2
  <2> QED
    BY <1>7, <2>1, <2>2, <2>3
<1>10. g \in [K -> E]
  BY <1>8
<1>11. \A b, c \in K : g[b] = g[c] => b = c
  BY <1>8
<1>12. \A i \in E : \E b \in K : g[b] = i
  BY <1>9
<1> HIDE DEF g
<1>13. Cardinality(K) = Cardinality(E)
  BY <1>2, <1>10, <1>11, <1>12, SameSize
<1> QED
  BY <1>2, <1>13 DEF K, E

-----------------------------------------------------------------------------
(* Output: texts put one behind the other *)

LEMMA Joins ==
  ASSUME NEW a \in Seq(Glyphs), NEW b \in Seq(Glyphs)
  PROVE  /\ a \o b \in Seq(Glyphs) /\ Len(a) \in Nat /\ Len(b) \in Nat
         /\ Len(a \o b) = Len(a) + Len(b)
         /\ \A i \in 1..Len(a) : (a \o b)[i] = a[i]
         /\ \A i \in 1..Len(b) : (a \o b)[Len(a) + i] = b[i]
<1>1. /\ Len(a \o b) = Len(a) + Len(b) /\ a \o b \in Seq(Glyphs)
      /\ \A i \in 1..Len(a) + Len(b) : (a \o b)[i] = IF i <= Len(a) THEN a[i] ELSE b[i - Len(a)]
  BY ConcatProperties
<1> DEFINE m == Len(a)
           n == Len(b)
           c == a \o b
<1>2. m \in Nat /\ n \in Nat
  OBVIOUS
<1> HIDE DEF m, n, c
<1>3. ASSUME NEW i \in 1..m PROVE c[i] = a[i]
  <2>1. i \in 1..m + n /\ i <= m
    BY <1>2
  <2> QED
    BY <1>1, <2>1 DEF m, n, c
<1>4. ASSUME NEW i \in 1..n PROVE c[m + i] = b[i]
  <2>1. m + i \in 1..m + n /\ ~(m + i <= m) /\ (m + i) - m = i
    BY <1>2
  <2>2. c[m + i] = IF m + i <= m THEN a[m + i] ELSE b[(m + i) - m]
    BY <1>1, <2>1 DEF m, n, c
  <2> QED
    BY <2>1, <2>2
<1> QED
  BY <1>1, <1>2, <1>3, <1>4 DEF m, n, c

\* Sets of positions in a and in b, told apart.
Shift(m, B) == {m + i : i \in B}

LEMMA JoinedSets ==
  ASSUME NEW m \in Nat, NEW n \in Nat, NEW A \in SUBSET (1..m), NEW B \in SUBSET (1..n)
  PROVE  /\ IsFiniteSet(A) /\ IsFiniteSet(B) /\ Cardinality(A) \in Nat /\ Cardinality(B) \in Nat
         /\ Cardinality(A \cup Shift(m, B)) = Cardinality(A) + Cardinality(B)
<1> DEFINE D == {m + i : i \in B}
           g == [i \in B |-> m + i]
           h == [x \in D |-> x - m]
<1>1. IsFiniteSet(A) /\ IsFiniteSet(B)
  <2>1. IsFiniteSet(1..m) /\ IsFiniteSet(1..n)
    BY FS_Interval
  <2> QED
    BY <2>1, FS_Subset
<1>2. Cardinality(A) \in Nat /\ Cardinality(B) \in Nat
  BY <1>1, FS_CardinalityType
<1>3. IsFiniteSet(D) /\ Cardinality(D) = Cardinality(B)
  <2>1. \A i \in B : i \in Nat /\ (m + i) - m = i
    OBVIOUS
  <2>2. h \in [D -> B]
    BY <2>1
  <2>3. \A x, y \in D : h[x] = h[y] => x = y
    BY <2>1
  <2>4. \A i \in B : \E x \in D : h[x] = i
    BY <2>1
  <2> HIDE DEF h, D
  <2> QED
    BY <1>1, <2>2, <2>3, <2>4, SameSize
<1>4. A \cap D = {}
  <2>1. \A i \in B : ~(m + i <= m)
    OBVIOUS
  <2> QED
    BY <2>1
<1> HIDE DEF D
<1>5. Cardinality(A \cup D) = Cardinality(A) + Cardinality(D) - Cardinality({})
  BY <1>1, <1>3, <1>4, FS_Union
<1> QED
  BY <1>1, <1>2, <1>3, <1>5, FS_EmptySet DEF D, Shift

LEMMA CountJoins ==
  ASSUME NEW a \in Seq(Glyphs), NEW b \in Seq(Glyphs), NEW token
  PROVE  /\ Count(token, a) \in Nat /\ Count(token, b) \in Nat
         /\ Count(token, a \o b) = Count(token, a) + Count(token, b)
<1> DEFINE m == Len(a)
           n == Len(b)
           c == a \o b
           A == {i \in DOMAIN a : a[i] = token}
           B == {i \in DOMAIN b : b[i] = token}
           C == {i \in DOMAIN c : c[i] = token}
<1>1. /\ c \in Seq(Glyphs) /\ m \in Nat /\ n \in Nat /\ Len(c) = m + n
      /\ \A i \in 1..m : c[i] = a[i]
      /\ \A i \in 1..n : c[m + i] = b[i]
  BY Joins
<1>2. DOMAIN a = 1..m /\ DOMAIN b = 1..n
  OBVIOUS
<1>3. DOMAIN c = 1..m + n
  BY <1>1
<1> HIDE DEF c, m, n
<1>4. A \in SUBSET (1..m) /\ B \in SUBSET (1..n)
  BY <1>2
<1>5. C = A \cup Shift(m, B)
  <2>1. ASSUME NEW x \in C PROVE x \in A \cup {m + i : i \in B}
    <3>1. x \in 1..m \/ (x - m \in 1..n /\ m + (x - m) = x)
      BY <1>1, <1>3
    <3> QED
      BY <1>1, <1>2, <3>1
  <2>2. \A i \in A : i \in C
    <3>1. \A i \in 1..m : i \in 1..m + n
      BY <1>1
    <3> QED
      BY <1>1, <1>2, <1>3, <3>1
  <2>3. \A i \in B : m + i \in C
    <3>1. \A i \in 1..n : m + i \in 1..m + n
      BY <1>1
    <3> QED
      BY <1>1, <1>2, <1>3, <3>1
  <2> HIDE DEF A, B, C
  <2> QED
    BY <2>1, <2>2, <2>3 DEF Shift
<1> HIDE DEF A, B, C
<1>6. /\ Cardinality(A) \in Nat /\ Cardinality(B) \in Nat
      /\ Cardinality(C) = Cardinality(A) + Cardinality(B)
  <2>1. /\ Cardinality(A) \in Nat /\ Cardinality(B) \in Nat
        /\ Cardinality(A \cup Shift(m, B)) = Cardinality(A) + Cardinality(B)
    BY <1>1, <1>4, JoinedSets
  <2> QED
    BY <1>5, <2>1
<1> QED
  BY <1>6 DEF A, B, C, c, Count

LEMMA ExceptionsJoin ==
  ASSUME NEW a \in Seq(Glyphs), NEW b \in Seq(Glyphs), a = <<>> \/ Last(a) = "nl"
  PROVE  Cardinality(Exceptions(a \o b)) = Cardinality(Exceptions(a)) + Cardinality(Exceptions(b))
<1> DEFINE m == Len(a)
           n == Len(b)
           c == a \o b
           A == Exceptions(a)
           B == Exceptions(b)
           C == Exceptions(c)
<1>1. /\ c \in Seq(Glyphs) /\ m \in Nat /\ n \in Nat /\ Len(c) = m + n
      /\ \A i \in 1..m : c[i] = a[i]
      /\ \A i \in 1..n : c[m + i] = b[i]
  BY Joins
<1>2. /\ m = Len(a) /\ n = Len(b)
      /\ m = 0 \/ (m \in 1..m /\ a[m] = "nl")
  BY DEF Last
<1>3. /\ \A i : i \in A <=> i \in 1..m /\ (i = 1 \/ a[i - 1] = "nl") /\ Excepted(a, i)
      /\ \A i : i \in B <=> i \in 1..n /\ (i = 1 \/ b[i - 1] = "nl") /\ Excepted(b, i)
  BY InExceptions
<1>4. \A i : i \in C <=> i \in 1..m + n /\ (i = 1 \/ c[i - 1] = "nl") /\ Excepted(c, i)
  <2>1. \A i : i \in C <=> i \in 1..Len(c) /\ (i = 1 \/ c[i - 1] = "nl") /\ Excepted(c, i)
    <3> HIDE DEF c
    <3> QED
      BY <1>1, InExceptions
  <2> HIDE DEF m, n, c, C
  <2> QED
    BY <1>1, <2>1
<1> HIDE DEF m, n, c, A, B, C
<1>5. A \in SUBSET (1..m) /\ B \in SUBSET (1..n)
  BY <1>3
<1>6. ASSUME NEW i \in 1..m PROVE i \in C <=> i \in A
  <2>1. a[m] = "nl" /\ c[m] = "nl" /\ m \in Nat /\ i \in Nat /\ i <= m
    BY <1>1, <1>2
  <2>2. CASE i = m
    <3>1. ~Excepted(a, i) /\ ~Excepted(c, i)
      BY <2>1, <2>2 DEF Excepted
    <3> QED
      BY <1>3, <1>4, <3>1
  <2>3. CASE i # m
    <3>1. /\ i < m /\ 0 \in Int /\ 0 + i = i /\ i \in 1..m + n
          /\ \A k \in i..m - 1 : 0 + k \in 1..m /\ 0 + k \in 1..m + n /\ 0 + k = k
          /\ i # 1 => i - 1 \in 1..m
      BY <1>1, <2>1, <2>3
    <3>2. Excepted(a, i) => Excepted(c, 0 + i)
      <4>1. \A k \in i..m - 1 : 0 + k \in 1..Len(c) /\ c[0 + k] = a[k]
        BY <1>1, <3>1
      <4> QED
        BY <1>1, <2>1, <3>1, <4>1, LineCarries
    <3>3. Excepted(c, i) => Excepted(a, 0 + i)
      <4>1. \A k \in i..m - 1 : 0 + k \in 1..Len(a) /\ a[0 + k] = c[k]
        BY <1>1, <1>2, <3>1
      <4> QED
        BY <1>1, <2>1, <3>1, <4>1, LineCarries
    <3>4. i = 1 \/ c[i - 1] = a[i - 1]
      BY <1>1, <3>1
    <3> QED
      BY <1>3, <1>4, <3>1, <3>2, <3>3, <3>4
  <2> QED
    BY <2>2, <2>3
<1>7. ASSUME NEW i \in 1..n PROVE m + i \in C <=> i \in B
  <2>1. /\ m + i \in 1..m + n /\ m + i \in Nat /\ i \in Nat /\ m \in Int /\ 0 - m \in Int
        /\ n + 1 \in Nat /\ m + n + 1 \in Nat /\ i < n + 1 /\ m + i < m + n + 1
        /\ (0 - m) + (m + i) = i
        /\ i # 1 => i - 1 \in 1..n /\ m + (i - 1) = (m + i) - 1
    BY <1>1
  <2>2. Excepted(b, i) => Excepted(c, m + i)
    <3>1. \A k \in i..(n + 1) - 1 : m + k \in 1..Len(c) /\ c[m + k] = b[k]
      <4> SUFFICES ASSUME NEW k \in i..(n + 1) - 1
                   PROVE  m + k \in 1..Len(c) /\ c[m + k] = b[k]
        OBVIOUS
      <4>1. k \in 1..n /\ m + k \in 1..m + n
        BY <1>1
      <4> QED
        BY <1>1, <4>1
    <3> QED
      BY <1>1, <1>2, <2>1, <3>1, LineCarries
  <2>3. Excepted(c, m + i) => Excepted(b, (0 - m) + (m + i))
    <3>1. \A k \in m + i..(m + n + 1) - 1 : (0 - m) + k \in 1..Len(b) /\ b[(0 - m) + k] = c[k]
      <4> SUFFICES ASSUME NEW k \in m + i..(m + n + 1) - 1
                   PROVE  (0 - m) + k \in 1..Len(b) /\ b[(0 - m) + k] = c[k]
        OBVIOUS
      <4>1. (0 - m) + k \in 1..n /\ m + ((0 - m) + k) = k
        BY <1>1
      <4> QED
        BY <1>1, <1>2, <4>1
    <3>2. m + n + 1 = Len(c) + 1
      BY <1>1
    <3> QED
      BY <1>1, <2>1, <3>1, <3>2, LineCarries
  <2>4. (m + i = 1 \/ c[(m + i) - 1] = "nl") <=> (i = 1 \/ b[i - 1] = "nl")
    <3>1. CASE i = 1
      <4>1. (m + i) - 1 = m /\ (m = 0 => m + i = 1)
        BY <1>1, <3>1
      <4>2. m # 0 => c[m] = "nl"
        BY <1>1, <1>2
      <4> QED
        BY <3>1, <4>1, <4>2
    <3>2. CASE i # 1
      <4>1. c[(m + i) - 1] = b[i - 1]
        BY <1>1, <2>1, <3>2
      <4>2. m + i # 1
        BY <1>1, <3>2
      <4> QED
        BY <3>2, <4>1, <4>2
    <3> QED
      BY <3>1, <3>2
  <2> QED
    BY <1>3, <1>4, <2>1, <2>2, <2>3, <2>4
<1>8. C = A \cup Shift(m, B)
  <2>1. ASSUME NEW x \in C PROVE x \in A \cup {m + i : i \in B}
    <3>1. x \in 1..m + n
      BY <1>4
    <3>2. x \in 1..m \/ (x - m \in 1..n /\ m + (x - m) = x)
      BY <1>1, <3>1
    <3> QED
      BY <1>6, <1>7, <3>2
  <2>2. \A i \in A : i \in C
    BY <1>5, <1>6
  <2>3. \A i \in B : m + i \in C
    BY <1>5, <1>7
  <2> QED
    BY <2>1, <2>2, <2>3 DEF Shift
<1>9. Cardinality(C) = Cardinality(A) + Cardinality(B)
  <2>1. Cardinality(A \cup Shift(m, B)) = Cardinality(A) + Cardinality(B)
    BY <1>1, <1>5, JoinedSets
  <2> QED
    BY <1>8, <2>1
<1> QED
  BY <1>9 DEF A, B, C, c

\* What the marker adds.
Marker == <<"nl", "mark">>

LEMMA MarkerAdds ==
  /\ Marker \in Seq(Glyphs)
  /\ \A token : token \notin {"nl", "mark"} => Count(token, Marker) = 0
  /\ Count("mark", Marker) = 1
  /\ \A a \in Seq(Glyphs) : Cardinality(Exceptions(a \o Marker)) = Cardinality(Exceptions(a))
<1>1. /\ Marker \in Seq(Glyphs) /\ Len(Marker) = 2 /\ DOMAIN Marker = 1..2
      /\ Marker[1] = "nl" /\ Marker[2] = "mark"
  BY DEF Marker, Glyphs
<1>2. 1..2 = {1, 2}
  OBVIOUS
<1>3. ASSUME NEW token, token \notin {"nl", "mark"} PROVE Count(token, Marker) = 0
  <2>1. {i \in DOMAIN Marker : Marker[i] = token} = {}
    BY <1>1, <1>2, <1>3
  <2> QED
    BY <2>1, FS_EmptySet DEF Count
<1>4. Count("mark", Marker) = 1
  <2>1. {i \in DOMAIN Marker : Marker[i] = "mark"} = {2}
    BY <1>1, <1>2
  <2> QED
    BY <2>1, FS_Singleton DEF Count
<1>5. ASSUME NEW a \in Seq(Glyphs)
      PROVE  Exceptions(a \o Marker) = Exceptions(a)
  <2> DEFINE c == a \o Marker
             m == Len(a)
  <2>1. /\ c \in Seq(Glyphs) /\ m \in Nat /\ Len(c) = m + 2 /\ DOMAIN c = 1..m + 2
        /\ \A i \in 1..m : c[i] = a[i]
        /\ \A i \in 1..2 : c[m + i] = Marker[i]
        /\ DOMAIN a = 1..m
    <3>1. /\ c \in Seq(Glyphs) /\ m \in Nat /\ Len(c) = m + Len(Marker)
          /\ \A i \in 1..m : c[i] = a[i]
          /\ \A i \in 1..Len(Marker) : c[m + i] = Marker[i]
      BY <1>1, Joins
    <3>2. DOMAIN a = 1..m
      OBVIOUS
    <3> HIDE DEF c, m
    <3> QED
      BY <1>1, <3>1, <3>2
  <2> HIDE DEF c, m
  <2>2. c[m + 1] = "nl" /\ c[m + 2] = "mark"
    BY <1>1, <1>2, <2>1
  <2>3. ASSUME NEW i \in 1..m PROVE i \in Exceptions(c) <=> i \in Exceptions(a)
    <3>1. /\ i \in Nat /\ m + 1 \in Nat /\ i < m + 1 /\ 0 \in Int /\ 0 + i = i /\ i \in 1..m + 2
          /\ \A k \in i..(m + 1) - 1 : 0 + k \in 1..m /\ 0 + k \in 1..m + 2 /\ 0 + k = k
          /\ m + 1 = Len(a) + 1
          /\ i # 1 => i - 1 \in 1..m
      BY <2>1 DEF m
    <3>2. Excepted(a, i) => Excepted(c, 0 + i)
      <4>1. \A k \in i..(m + 1) - 1 : 0 + k \in 1..Len(c) /\ c[0 + k] = a[k]
        BY <2>1, <3>1
      <4> QED
        BY <2>1, <3>1, <4>1, LineCarries
    <3>3. Excepted(c, i) => Excepted(a, 0 + i)
      <4>1. \A k \in i..(m + 1) - 1 : 0 + k \in 1..Len(a) /\ a[0 + k] = c[k]
        BY <2>1, <3>1 DEF m
      <4> QED
        BY <2>1, <2>2, <3>1, <4>1, LineCarries
    <3>4. i = 1 \/ c[i - 1] = a[i - 1]
      BY <2>1, <3>1
    <3>5. i \in Exceptions(a) <=> (i = 1 \/ a[i - 1] = "nl") /\ Excepted(a, i)
      BY InExceptions DEF m
    <3>6. i \in Exceptions(c) <=> (i = 1 \/ c[i - 1] = "nl") /\ Excepted(c, i)
      BY <2>1, <3>1, InExceptions
    <3> QED
      BY <3>1, <3>2, <3>3, <3>4, <3>5, <3>6
  <2>4. ASSUME NEW i \in Exceptions(c) PROVE i \in 1..m
    <3>1. i \in 1..m + 2 /\ c[i] = "ex1"
      BY <2>1, InExceptions DEF Excepted
    <3>2. i # m + 1 /\ i # m + 2
      BY <2>2, <3>1
    <3> QED
      BY <2>1, <3>1, <3>2
  <2>5. \A i \in Exceptions(a) : i \in 1..m
    BY <2>1 DEF Exceptions, Starts
  <2>6. Exceptions(c) = Exceptions(a)
    BY <2>3, <2>4, <2>5
  <2> QED
    BY <2>6 DEF c
<1> QED
  BY <1>1, <1>3, <1>4, <1>5

-----------------------------------------------------------------------------
(* Output: parse_list *)

VersionAt(line) == Past(line, Past(line, Past(line, 1, {"gap"}), {"arrow"}), {"gap"})

\* A version of a line: before it an arrow at most, after it nothing or a
\* separator that does not end the line.
Before(line, i) ==
  /\ \A k \in 1..i - 1 : line[k] \in {"gap", "arrow"}
  /\ ~\E a, b, c \in 1..i : a < b /\ b < c /\ line[a] = "arrow"
                            /\ line[b] = "gap" /\ line[c] = "arrow"
Splits(line, k) == line[k] = "sep" /\ \E m \in k + 1..Len(line) : line[m] # "gap"
Behind(line, i) ==
  \A k \in i + 1..Len(line) :
    (\A m \in i + 1..k - 1 : line[m] = "gap") => line[k] = "gap" \/ Splits(line, k)
VersionIn(line, i) == i \in 1..Len(line) /\ line[i] = "ver" /\ Before(line, i) /\ Behind(line, i)

\* How far the three runs before a version reach.
LEMMA Runs ==
  ASSUME NEW line \in Seq(Glyphs), NEW x, NEW y, NEW z,
         x = Past(line, 1, {"gap"}), y = Past(line, x, {"arrow"}), z = Past(line, y, {"gap"})
  PROVE  /\ Len(line) \in Nat /\ x \in Nat /\ y \in Nat /\ z \in Nat
         /\ 1 <= x /\ x <= y /\ y <= z /\ z <= Len(line) + 1
         /\ \A i \in 1..x - 1 : line[i] = "gap"
         /\ \A i \in x..y - 1 : line[i] = "arrow"
         /\ \A i \in y..z - 1 : line[i] = "gap"
         /\ x = Len(line) + 1 \/ line[x] # "gap"
         /\ y = Len(line) + 1 \/ line[y] # "arrow"
         /\ z = Len(line) + 1 \/ line[z] # "gap"
<1> DEFINE L == Len(line)
<1>1. L \in Nat
  OBVIOUS
<1>2. /\ x \in 1..L + 1 /\ \A i \in 1..x - 1 : line[i] \in {"gap"}
      /\ x = L + 1 \/ line[x] \notin {"gap"}
  <2>1. 1 \in Nat /\ 1 <= L + 1
    BY <1>1
  <2> QED
    BY <1>1, <2>1, PastIs
<1>3. /\ y \in x..L + 1 /\ \A i \in x..y - 1 : line[i] \in {"arrow"}
      /\ y = L + 1 \/ line[y] \notin {"arrow"}
  <2>1. x \in Nat /\ x <= L + 1
    BY <1>1, <1>2
  <2> QED
    BY <1>1, <2>1, PastIs
<1>4. /\ z \in y..L + 1 /\ \A i \in y..z - 1 : line[i] \in {"gap"}
      /\ z = L + 1 \/ line[z] \notin {"gap"}
  <2>1. y \in Nat /\ y <= L + 1
    BY <1>1, <1>2, <1>3
  <2> QED
    BY <1>1, <2>1, PastIs
<1> HIDE DEF L
<1>5. x \in Nat /\ y \in Nat /\ z \in Nat /\ 1 <= x /\ x <= y /\ y <= z /\ z <= L + 1
  BY <1>1, <1>2, <1>3, <1>4
<1> QED
  BY <1>1, <1>2, <1>3, <1>4, <1>5 DEF L

\* What Versioned says of what follows.
LEMMA Follows ==
  ASSUME NEW line \in Seq(Glyphs), NEW at \in 1..Len(line)
  PROVE  Behind(line, at) <=>
           LET after == Past(line, at + 1, {"gap"})
           IN  after > Len(line) \/ Splits(line, after)
<1> DEFINE L == Len(line)
           p == Past(line, at + 1, {"gap"})
<1>1. L \in Nat /\ at \in 1..L
  OBVIOUS
<1>2. /\ p \in at + 1..L + 1 /\ \A i \in at + 1..p - 1 : line[i] = "gap"
      /\ p = L + 1 \/ line[p] # "gap"
  <2>1. at + 1 \in Nat /\ at + 1 <= L + 1
    BY <1>1
  <2>2. /\ p \in at + 1..L + 1 /\ \A i \in at + 1..p - 1 : line[i] \in {"gap"}
        /\ p = L + 1 \/ line[p] \notin {"gap"}
    BY <1>1, <2>1, PastIs
  <2> HIDE DEF p, L
  <2> QED
    BY <2>2
<1> HIDE DEF p, L
<1>3. ASSUME \A k \in at + 1..L : (\A m \in at + 1..k - 1 : line[m] = "gap") => line[k] = "gap" \/ Splits(line, k)
      PROVE  p > L \/ Splits(line, p)
  <2> SUFFICES ASSUME ~(p > L) PROVE Splits(line, p)
    OBVIOUS
  <2>1. p \in at + 1..L /\ p # L + 1
    BY <1>1, <1>2
  <2> QED
    BY <1>2, <1>3, <2>1
<1>4. ASSUME p > L \/ Splits(line, p), NEW k \in at + 1..L,
             \A m \in at + 1..k - 1 : line[m] = "gap"
      PROVE  line[k] = "gap" \/ Splits(line, k)
  <2>1. CASE k < p
    <3>1. k \in at + 1..p - 1
      BY <1>1, <1>2, <2>1
    <3> QED
      BY <1>2, <3>1
  <2>2. CASE k = p
    <3>1. ~(p > L)
      BY <1>1, <2>2
    <3> QED
      BY <1>4, <2>2, <3>1
  <2>3. CASE p < k
    <3>1. p \in at + 1..k - 1 /\ p # L + 1 /\ ~(p > L)
      BY <1>1, <1>2, <2>3
    <3>2. line[p] = "gap" /\ line[p] # "gap"
      BY <1>2, <1>4, <3>1
    <3> QED
      BY <3>2
  <2> QED
    BY <1>1, <1>2, <2>1, <2>2, <2>3
<1>5. Behind(line, at) <=> \A k \in at + 1..L : (\A m \in at + 1..k - 1 : line[m] = "gap") => line[k] = "gap" \/ Splits(line, k)
  BY DEF Behind, L
<1>6. Behind(line, at) <=> (p > L \/ Splits(line, p))
  BY <1>3, <1>4, <1>5
<1> QED
  BY <1>6 DEF p, L

LEMMA VersionedIs ==
  ASSUME NEW line \in Seq(Glyphs)
  PROVE  Versioned(line) <=> /\ VersionAt(line) \in 1..Len(line) /\ line[VersionAt(line)] = "ver"
                             /\ Behind(line, VersionAt(line))
<1> DEFINE x == Past(line, 1, {"gap"})
           y == Past(line, x, {"arrow"})
           z == Past(line, y, {"gap"})
<1>1. z = VersionAt(line)
  BY DEF VersionAt
<1>2. Len(line) \in Nat /\ z \in Nat /\ 1 <= z
  <2>1. /\ Len(line) \in Nat /\ x \in Nat /\ y \in Nat /\ z \in Nat
        /\ 1 <= x /\ x <= y /\ y <= z
    BY Runs
  <2> HIDE DEF x, y, z
  <2> QED
    BY <2>1
<1>3. Versioned(line) <=> /\ z <= Len(line) /\ line[z] = "ver"
                          /\ LET after == Past(line, z + 1, {"gap"})
                             IN  after > Len(line) \/ Splits(line, after)
  BY DEF Versioned, Splits
<1> HIDE DEF z
<1>4. z <= Len(line) <=> z \in 1..Len(line)
  BY <1>2
<1>5. z \in 1..Len(line) =>
        (Behind(line, z) <=> LET after == Past(line, z + 1, {"gap"})
                            IN  after > Len(line) \/ Splits(line, after))
  BY Follows
<1> QED
  BY <1>1, <1>3, <1>4, <1>5

LEMMA VersionedHas ==
  ASSUME NEW line \in Seq(Glyphs), Versioned(line)
  PROVE  VersionIn(line, VersionAt(line))
<1> DEFINE x == Past(line, 1, {"gap"})
           y == Past(line, x, {"arrow"})
           z == Past(line, y, {"gap"})
<1>1. z = VersionAt(line)
  BY DEF VersionAt
<1>2. z \in 1..Len(line) /\ line[z] = "ver" /\ Behind(line, z)
  BY <1>1, VersionedIs
<1>3. /\ Len(line) \in Nat /\ x \in Nat /\ y \in Nat /\ z \in Nat
      /\ 1 <= x /\ x <= y /\ y <= z
      /\ \A i \in 1..x - 1 : line[i] = "gap"
      /\ \A i \in x..y - 1 : line[i] = "arrow"
      /\ \A i \in y..z - 1 : line[i] = "gap"
  BY Runs
<1> HIDE DEF x, y, z
<1>4. ASSUME NEW k \in 1..z - 1
      PROVE  (k \in 1..x - 1 /\ line[k] = "gap") \/ (k \in x..y - 1 /\ line[k] = "arrow")
             \/ (k \in y..z - 1 /\ line[k] = "gap")
  <2>1. k \in 1..x - 1 \/ k \in x..y - 1 \/ k \in y..z - 1
    BY <1>3
  <2> QED
    BY <1>3, <2>1
<1>5. ASSUME NEW k \in 1..z, line[k] = "arrow" PROVE k \in x..y - 1
  <2>1. k # z
    BY <1>2, <1>5
  <2>2. k \in 1..z - 1
    BY <1>3, <2>1
  <2> QED
    BY <1>4, <1>5, <2>2
<1>6. ASSUME NEW a \in 1..z, NEW b \in 1..z, NEW c \in 1..z, a < b, b < c,
             line[a] = "arrow", line[b] = "gap", line[c] = "arrow"
      PROVE  FALSE
  <2>1. a \in x..y - 1 /\ c \in x..y - 1
    BY <1>5, <1>6
  <2>2. b \in x..y - 1
    BY <1>3, <1>6, <2>1
  <2> QED
    BY <1>3, <1>6, <2>2
<1>7. Before(line, z)
  BY <1>4, <1>6 DEF Before
<1> QED
  BY <1>1, <1>2, <1>7 DEF VersionIn

LEMMA HasVersioned ==
  ASSUME NEW line \in Seq(Glyphs), NEW i, VersionIn(line, i)
  PROVE  Versioned(line) /\ i = VersionAt(line)
<1> DEFINE x == Past(line, 1, {"gap"})
           y == Past(line, x, {"arrow"})
           z == Past(line, y, {"gap"})
           L == Len(line)
<1>1. z = VersionAt(line)
  BY DEF VersionAt
<1>2. /\ L \in Nat /\ x \in Nat /\ y \in Nat /\ z \in Nat
      /\ 1 <= x /\ x <= y /\ y <= z /\ z <= L + 1
      /\ \A k \in 1..x - 1 : line[k] = "gap"
      /\ \A k \in x..y - 1 : line[k] = "arrow"
      /\ \A k \in y..z - 1 : line[k] = "gap"
      /\ x = L + 1 \/ line[x] # "gap"
      /\ y = L + 1 \/ line[y] # "arrow"
      /\ z = L + 1 \/ line[z] # "gap"
  BY Runs
<1>3. /\ i \in 1..L /\ line[i] = "ver"
      /\ \A k \in 1..i - 1 : line[k] \in {"gap", "arrow"}
      /\ ~\E a, b, c \in 1..i : a < b /\ b < c /\ line[a] = "arrow"
                                /\ line[b] = "gap" /\ line[c] = "arrow"
  BY DEF VersionIn, Before
<1> HIDE DEF x, y, z, L
<1>4. x <= i
  <2> SUFFICES ASSUME ~(x <= i) PROVE FALSE
    OBVIOUS
  <2>1. i \in 1..x - 1
    BY <1>2, <1>3
  <2> QED
    BY <1>2, <1>3, <2>1
<1>5. y <= i
  <2> SUFFICES ASSUME ~(y <= i) PROVE FALSE
    OBVIOUS
  <2>1. i \in x..y - 1
    BY <1>2, <1>3, <1>4
  <2> QED
    BY <1>2, <1>3, <2>1
<1>6. z <= i
  <2> SUFFICES ASSUME ~(z <= i) PROVE FALSE
    OBVIOUS
  <2>1. i \in y..z - 1
    BY <1>2, <1>3, <1>5
  <2> QED
    BY <1>2, <1>3, <2>1
<1>7. ~(z < i)
  <2> SUFFICES ASSUME z < i PROVE FALSE
    OBVIOUS
  <2>1. z \in 1..i - 1 /\ z \in 1..i /\ z # L + 1
    BY <1>2, <1>3
  <2>2. line[z] = "arrow"
    BY <1>2, <1>3, <2>1
  <2>3. y # z /\ y # L + 1
    BY <1>2, <1>3, <2>1, <2>2
  <2>4. y < z /\ y \in y..z - 1 /\ y \in 1..i
    BY <1>2, <1>3, <2>1, <2>3
  <2>5. line[y] = "gap"
    BY <1>2, <2>4
  <2>6. x # y /\ x # L + 1
    BY <1>2, <1>3, <2>3, <2>4, <2>5
  <2>7. x < y /\ x \in x..y - 1 /\ x \in 1..i
    BY <1>2, <1>3, <2>4, <2>6
  <2>8. line[x] = "arrow"
    BY <1>2, <2>7
  <2> QED
    BY <1>3, <2>1, <2>2, <2>4, <2>5, <2>7, <2>8
<1>8. i = z
  BY <1>2, <1>3, <1>6, <1>7
<1> QED
  BY <1>1, <1>3, <1>8, VersionedIs DEF VersionIn, L

\* A version of a line is one of the text.
LEMMA LineToText ==
  ASSUME NEW text \in Seq(Glyphs), NEW b \in Breaks(text),
         NEW k, VersionIn(Line(text, b), k)
  PROVE  b + k \in VersionsIn(text)
<1> DEFINE line == Line(text, b)
           n == Len(line)
           L == Len(text)
           i == b + k
<1>1. /\ L \in Nat /\ DOMAIN text = 1..L /\ n \in Nat /\ b \in 0..L /\ b + n \in b..L
      /\ \A m \in 1..n : line[m] = text[b + m] /\ b + m \in 1..L /\ text[b + m] # "nl"
      /\ b + n = L \/ text[b + n + 1] = "nl"
  BY LineIs
<1>2. b = 0 \/ text[b] = "nl"
  BY DEF Breaks
<1>3. /\ k \in 1..n /\ line[k] = "ver"
      /\ \A m \in 1..k - 1 : line[m] \in {"gap", "arrow"}
      /\ ~\E u, v, w \in 1..k : u < v /\ v < w /\ line[u] = "arrow"
                                /\ line[v] = "gap" /\ line[w] = "arrow"
      /\ \A m \in k + 1..n :
           (\A u \in k + 1..m - 1 : line[u] = "gap") =>
             \/ line[m] = "gap"
             \/ line[m] = "sep" /\ \E u \in m + 1..n : line[u] # "gap"
  BY DEF VersionIn, Before, Behind, Splits
<1> HIDE DEF line, n, L
<1>4. k \in Nat /\ i \in Nat /\ b \in Nat /\ i \in 1..L /\ text[i] = "ver" /\ b + 1 <= i /\ k >= 1 /\ k <= n
  BY <1>1, <1>3
<1>5. \A p \in b + 1..b + n : p - b \in 1..n /\ line[p - b] = text[p] /\ b + (p - b) = p
  <2> SUFFICES ASSUME NEW p \in b + 1..b + n
               PROVE  p - b \in 1..n /\ line[p - b] = text[p] /\ b + (p - b) = p
    OBVIOUS
  <2>1. p - b \in 1..n /\ b + (p - b) = p
    BY <1>1, <1>4
  <2> QED
    BY <1>1, <2>1
<1> HIDE DEF i
<1>6. i = b + k
  BY DEF i
<1>7. b + 1 \in Starts(text)
  <2>1. b + 1 \in 1..L /\ (b + 1) - 1 = b /\ (b = 0 => b + 1 = 1)
    BY <1>1, <1>4
  <2> QED
    BY <1>1, <1>2, <2>1 DEF Starts
<1>8. ASSUME NEW p \in b + 1..i - 1 PROVE text[p] \in {"gap", "arrow"}
  <2>1. p \in b + 1..b + n /\ p - b \in 1..k - 1
    BY <1>1, <1>4, <1>6
  <2> QED
    BY <1>3, <1>5, <2>1
<1>9. ASSUME NEW u \in b + 1..i, NEW v \in b + 1..i, NEW w \in b + 1..i, u < v, v < w,
             text[u] = "arrow", text[v] = "gap", text[w] = "arrow"
      PROVE  FALSE
  <2>1. /\ u \in b + 1..b + n /\ v \in b + 1..b + n /\ w \in b + 1..b + n
        /\ u - b \in 1..k /\ v - b \in 1..k /\ w - b \in 1..k
        /\ u - b < v - b /\ v - b < w - b
    BY <1>1, <1>4, <1>6, <1>9
  <2>2. line[u - b] = "arrow" /\ line[v - b] = "gap" /\ line[w - b] = "arrow"
    BY <1>5, <1>9, <2>1
  <2> QED
    BY <1>3, <2>1, <2>2
<1>10. ASSUME NEW p \in i + 1..L, \A m \in i + 1..p - 1 : text[m] = "gap"
       PROVE  \/ text[p] \in {"gap", "nl"}
              \/ text[p] = "sep" /\ \E m \in p + 1..L : OnLine(text, p, m) /\ text[m] # "gap"
  <2>1. CASE p <= b + n
    <3>1. p \in b + 1..b + n /\ p - b \in k + 1..n
      BY <1>1, <1>4, <1>6, <2>1
    <3>2. ASSUME NEW u \in k + 1..(p - b) - 1 PROVE line[u] = "gap"
      <4>1. b + u \in i + 1..p - 1 /\ u \in 1..n
        BY <1>1, <1>4, <1>6, <3>1
      <4>2. text[b + u] = "gap" /\ line[u] = text[b + u]
        BY <1>1, <1>10, <4>1
      <4> QED
        BY <4>2
    <3>3. \/ line[p - b] = "gap"
          \/ line[p - b] = "sep" /\ \E u \in (p - b) + 1..n : line[u] # "gap"
      BY <1>3, <3>1, <3>2
    <3>4. line[p - b] = text[p]
      BY <1>5, <3>1
    <3>5. CASE line[p - b] = "gap"
      BY <3>4, <3>5
    <3>6. ASSUME line[p - b] = "sep", NEW u \in (p - b) + 1..n, line[u] # "gap"
          PROVE  \E m \in p + 1..L : OnLine(text, p, m) /\ text[m] # "gap"
      <4>1. p \in Nat /\ p - b \in k + 1..n /\ u \in Nat /\ u <= n /\ (p - b) + 1 <= u
        BY <1>1, <1>4, <3>1
      <4>2. u \in 1..n /\ b + u \in p + 1..L /\ b + u <= b + n
        BY <1>1, <1>4, <4>1
      <4>3. text[b + u] # "gap"
        BY <1>1, <3>6, <4>2
      <4>4. ASSUME NEW q \in p..b + u PROVE text[q] # "nl"
        <5>1. q - b \in 1..n /\ b + (q - b) = q
          BY <1>1, <1>4, <4>1, <4>2
        <5> QED
          BY <1>1, <5>1
      <4>5. b + u \in p..L
        BY <1>1, <4>1, <4>2
      <4>6. OnLine(text, p, b + u)
        BY <4>4, <4>5 DEF OnLine, L
      <4> QED
        BY <4>2, <4>3, <4>6
    <3> QED
      BY <3>3, <3>4, <3>5, <3>6
  <2>2. CASE ~(p <= b + n)
    <3>1. b + n # L /\ b + n + 1 \in i + 1..p
      BY <1>1, <1>4, <1>6, <2>2
    <3>2. text[b + n + 1] = "nl"
      BY <1>1, <3>1
    <3>3. b + n + 1 \notin i + 1..p - 1
      BY <1>10, <3>2
    <3>4. b + n + 1 = p
      BY <1>1, <1>4, <1>6, <3>1, <3>3
    <3> QED
      BY <3>2, <3>4
  <2> QED
    BY <2>1, <2>2
<1>11. i \in VersionsIn(text)
  <2>1. /\ b + 1 <= i /\ \A p \in b + 1..i - 1 : text[p] \in {"gap", "arrow"}
        /\ ~\E u, v, w \in b + 1..i : u < v /\ v < w /\ text[u] = "arrow"
                                      /\ text[v] = "gap" /\ text[w] = "arrow"
    BY <1>4, <1>8, <1>9
  <2>2. \A p \in i + 1..Len(text) :
          (\A m \in i + 1..p - 1 : text[m] = "gap") =>
            \/ text[p] \in {"gap", "nl"}
            \/ text[p] = "sep" /\ \E m \in p + 1..Len(text) :
                                   OnLine(text, p, m) /\ text[m] # "gap"
    BY <1>10 DEF L
  <2> QED
    BY <1>1, <1>4, <1>7, <2>1, <2>2 DEF VersionsIn
<1> QED
  BY <1>11 DEF i

\* A version of the text is one of its line.
LEMMA TextToLine ==
  ASSUME NEW text \in Seq(Glyphs), NEW b \in Breaks(text), NEW k \in 1..Len(Line(text, b)),
         b + k \in VersionsIn(text)
  PROVE  VersionIn(Line(text, b), k)
<1> DEFINE line == Line(text, b)
           n == Len(line)
           L == Len(text)
           i == b + k
<1>1. /\ L \in Nat /\ DOMAIN text = 1..L /\ n \in Nat /\ b \in 0..L /\ b + n \in b..L
      /\ \A m \in 1..n : line[m] = text[b + m] /\ b + m \in 1..L /\ text[b + m] # "nl"
      /\ b + n = L \/ text[b + n + 1] = "nl"
  BY LineIs
<1>2. b = 0 \/ text[b] = "nl"
  BY DEF Breaks
<1>0. i \in VersionsIn(text) /\ i = b + k /\ k \in 1..n
  OBVIOUS
<1> HIDE DEF i, line, n
<1>3. /\ i \in 1..L /\ text[i] = "ver"
      /\ \A p \in i + 1..L :
           (\A m \in i + 1..p - 1 : text[m] = "gap") =>
             \/ text[p] \in {"gap", "nl"}
             \/ text[p] = "sep" /\ \E m \in p + 1..L : OnLine(text, p, m) /\ text[m] # "gap"
  <2>1. /\ i \in DOMAIN text /\ text[i] = "ver"
        /\ \A p \in i + 1..Len(text) :
             (\A m \in i + 1..p - 1 : text[m] = "gap") =>
               \/ text[p] \in {"gap", "nl"}
               \/ text[p] = "sep" /\ \E m \in p + 1..Len(text) :
                                      OnLine(text, p, m) /\ text[m] # "gap"
    BY <1>0, Zenon DEF VersionsIn
  <2>2. DOMAIN text = 1..L
    BY <1>1
  <2>3. i \in 1..L
    BY <2>1, <2>2
  <2> QED
    BY <2>1, <2>3, Zenon DEF L
<1>4. PICK j \in Starts(text) :
        /\ j <= i /\ \A p \in j..i - 1 : text[p] \in {"gap", "arrow"}
        /\ ~\E u, v, w \in j..i : u < v /\ v < w /\ text[u] = "arrow"
                                  /\ text[v] = "gap" /\ text[w] = "arrow"
  BY <1>0 DEF VersionsIn
<1>5. j \in 1..L /\ (j = 1 \/ text[j - 1] = "nl")
  BY <1>1 DEF Starts
<1> HIDE DEF L
<1>6. i = b + k /\ k \in 1..n /\ k \in Nat /\ b \in Nat /\ i \in Nat /\ j \in Nat
  BY <1>0, <1>1, <1>5
<1>7. j = b + 1
  <2>1. ~(j <= b)
    <3> SUFFICES ASSUME j <= b PROVE FALSE
      OBVIOUS
    <3>1. b \in j..i - 1 /\ b # 0
      BY <1>5, <1>6
    <3> QED
      BY <1>2, <1>4, <3>1
  <2>2. ~(j > b + 1)
    <3> SUFFICES ASSUME j > b + 1 PROVE FALSE
      OBVIOUS
    <3>1. j # 1 /\ (j - 1) - b \in 1..n /\ b + ((j - 1) - b) = j - 1
      BY <1>1, <1>4, <1>5, <1>6
    <3> QED
      BY <1>1, <1>5, <3>1
  <2> QED
    BY <1>6, <2>1, <2>2
<1>8. line[k] = "ver"
  BY <1>1, <1>3, <1>6
<1>9. ASSUME NEW m \in 1..k - 1 PROVE line[m] \in {"gap", "arrow"}
  <2>1. m \in 1..n /\ b + m \in j..i - 1
    BY <1>1, <1>6, <1>7
  <2>2. text[b + m] \in {"gap", "arrow"}
    BY <1>4, <2>1
  <2> QED
    BY <1>1, <2>1, <2>2
<1>10. ASSUME NEW u \in 1..k, NEW v \in 1..k, NEW w \in 1..k, u < v, v < w,
              line[u] = "arrow", line[v] = "gap", line[w] = "arrow"
       PROVE  FALSE
  <2>1. /\ u \in 1..n /\ v \in 1..n /\ w \in 1..n
        /\ b + u \in j..i /\ b + v \in j..i /\ b + w \in j..i
        /\ b + u < b + v /\ b + v < b + w
    BY <1>1, <1>6, <1>7, <1>10
  <2>2. text[b + u] = "arrow" /\ text[b + v] = "gap" /\ text[b + w] = "arrow"
    BY <1>1, <1>10, <2>1
  <2> QED
    BY <1>4, <2>1, <2>2
<1>11. ASSUME NEW m \in k + 1..n, \A u \in k + 1..m - 1 : line[u] = "gap"
       PROVE  line[m] = "gap" \/ Splits(line, m)
  <2>1. m \in 1..n /\ m \in Nat
    BY <1>1, <1>6
  <2>2. b + m \in i + 1..L /\ line[m] = text[b + m] /\ text[b + m] # "nl"
    <3>1. b + m \in 1..L /\ line[m] = text[b + m] /\ text[b + m] # "nl"
      BY <1>1, <2>1
    <3>2. b + m >= i + 1
      BY <1>1, <1>6
    <3> QED
      BY <1>1, <1>6, <2>1, <3>1, <3>2
  <2>3. ASSUME NEW p \in i + 1..(b + m) - 1 PROVE text[p] = "gap"
    <3>1. p - b \in k + 1..m - 1 /\ p - b \in 1..n /\ b + (p - b) = p
      BY <1>1, <1>6, <2>1
    <3>2. line[p - b] = "gap" /\ line[p - b] = text[b + (p - b)]
      BY <1>1, <1>11, <3>1
    <3> QED
      BY <3>1, <3>2
  <2>4. \/ text[b + m] \in {"gap", "nl"}
        \/ /\ text[b + m] = "sep"
           /\ \E q \in (b + m) + 1..L : OnLine(text, b + m, q) /\ text[q] # "gap"
    BY <1>3, <2>2, <2>3
  <2>5. ASSUME text[b + m] = "sep", NEW q \in (b + m) + 1..L, OnLine(text, b + m, q),
               text[q] # "gap"
        PROVE  Splits(line, m)
    <3>1. \A x \in b + m..q : text[x] # "nl"
      BY <2>5 DEF OnLine
    <3>2. q \in Nat /\ q <= L /\ b + m + 1 <= q /\ m <= n
      BY <1>1, <1>6, <2>1
    <3>3. q <= b + n
      <4> SUFFICES ASSUME ~(q <= b + n) PROVE FALSE
        OBVIOUS
      <4>1. b + n + 1 \in b + m..q /\ b + n # L
        BY <1>1, <1>6, <2>1, <3>2
      <4>2. text[b + n + 1] = "nl"
        BY <1>1, <4>1
      <4> QED
        BY <3>1, <4>1, <4>2
    <3>4. q - b \in m + 1..n /\ q - b \in 1..n /\ b + (q - b) = q
      BY <1>1, <1>6, <2>1, <3>2, <3>3
    <3>5. line[q - b] = text[b + (q - b)]
      BY <1>1, <3>4
    <3>6. line[q - b] # "gap" /\ line[m] = "sep"
      BY <2>2, <2>5, <3>4, <3>5
    <3> QED
      BY <3>4, <3>6 DEF Splits, n
  <2> QED
    BY <2>2, <2>4, <2>5
<1>12. Before(line, k)
  BY <1>9, <1>10 DEF Before
<1>13. Behind(line, k)
  BY <1>11 DEF Behind, n
<1> QED
  BY <1>6, <1>8, <1>12, <1>13 DEF VersionIn, n, line

\* The list has an entry for every version line.
LEMMA ListCounts ==
  ASSUME NEW text \in Seq(Glyphs)
  PROVE  Len(ParseList(text)) = Cardinality(VersionsIn(text))
<1> DEFINE A == {b \in Breaks(text) : Versioned(Line(text, b))}
           B == VersionsIn(text)
           g == [b \in A |-> b + VersionAt(Line(text, b))]
           N == Cardinality(A)
<1>1. IsFiniteSet(A) /\ N \in Nat
  <2>1. A \subseteq Breaks(text) /\ IsFiniteSet(Breaks(text))
    BY BreaksFinite
  <2> HIDE DEF A
  <2> QED
    BY <2>1, FS_Subset, FS_CardinalityType
<1>2. Len(ParseList(text)) = N
  <2> DEFINE ls == LinesAt(text, A)
             marked == [i \in DOMAIN ls |-> ls[i][Past(ls[i], 1, {"gap"})] = "arrow"]
  <2>1. ParseList(text) = marked
    BY DEF ParseList
  <2>2. DOMAIN ls = 1..N
    BY DEF LinesAt
  <2> HIDE DEF ls, N
  <2>3. DOMAIN marked = 1..N
    BY <2>2
  <2> HIDE DEF marked
  <2>4. marked = [i \in 1..N |-> marked[i]]
    <3>1. marked = [i \in DOMAIN marked |-> marked[i]]
      BY DEF marked
    <3> QED
      BY <2>3, <3>1
  <2>5. Len([i \in 1..N |-> marked[i]]) = N
    BY <1>1
  <2> QED
    BY <2>1, <2>4, <2>5
<1>3. IsFiniteSet(B)
  <2>1. B \subseteq 1..Len(text) /\ Len(text) \in Int
    BY DEF VersionsIn
  <2>2. IsFiniteSet(1..Len(text))
    BY <2>1, FS_Interval
  <2> HIDE DEF B
  <2> QED
    BY <2>1, <2>2, FS_Subset
<1>4. ASSUME NEW b \in A
      PROVE  /\ b \in Breaks(text) /\ g[b] = b + VersionAt(Line(text, b))
             /\ VersionIn(Line(text, b), VersionAt(Line(text, b)))
             /\ VersionAt(Line(text, b)) \in 1..Len(Line(text, b))
             /\ g[b] \in B
  <2>1. b \in Breaks(text) /\ Versioned(Line(text, b)) /\ Line(text, b) \in Seq(Glyphs)
    BY LineIs
  <2>2. VersionIn(Line(text, b), VersionAt(Line(text, b)))
    BY <2>1, VersionedHas
  <2>3. VersionAt(Line(text, b)) \in 1..Len(Line(text, b))
    BY <2>2 DEF VersionIn
  <2>4. b + VersionAt(Line(text, b)) \in B
    BY <2>1, <2>2, LineToText
  <2> QED
    BY <2>1, <2>2, <2>3, <2>4
<1>5. ASSUME NEW p \in B PROVE \E b \in A : g[b] = p
  <2>1. p \in 1..Len(text) /\ text[p] # "nl"
    BY DEF VersionsIn
  <2>2. PICK b \in Breaks(text) : \E k \in 1..Len(Line(text, b)) : p = b + k
    BY <2>1, InALine
  <2>3. PICK k \in 1..Len(Line(text, b)) : p = b + k
    BY <2>2
  <2>4. VersionIn(Line(text, b), k) /\ Line(text, b) \in Seq(Glyphs)
    BY <2>3, TextToLine, LineIs
  <2>5. Versioned(Line(text, b)) /\ k = VersionAt(Line(text, b))
    BY <2>4, HasVersioned
  <2>6. b \in A /\ g[b] = b + VersionAt(Line(text, b))
    BY <2>5
  <2> QED
    BY <2>3, <2>5, <2>6
<1>6. g \in [A -> B]
  <2>1. \A b \in A : b + VersionAt(Line(text, b)) \in B
    BY <1>4
  <2> HIDE DEF A, B
  <2> QED
    BY <2>1
<1> HIDE DEF A, B, g
<1>7. ASSUME NEW b \in A, NEW c \in A, g[b] = g[c] PROVE b = c
  BY <1>4, <1>7, InOneLine
<1>8. Cardinality(A) = Cardinality(B)
  BY <1>3, <1>5, <1>6, <1>7, SameSize
<1> QED
  BY <1>2, <1>8 DEF N, B

-----------------------------------------------------------------------------
\* What the marker adds to the text of a stream.
LEMMA TextAdds ==
  ASSUME kept \in [Streams -> Seq(Glyphs)], cut \in [Streams -> BOOLEAN], NEW s \in Streams
  PROVE  /\ Text(s) \in Seq(Glyphs) /\ kept[s] \in Seq(Glyphs)
         /\ \A token : token \notin {"nl", "mark"} => Count(token, Text(s)) = Count(token, kept[s])
         /\ Count("mark", Text(s)) = Count("mark", kept[s]) + (IF cut[s] THEN 1 ELSE 0)
         /\ Cardinality(Exceptions(Text(s))) = Cardinality(Exceptions(kept[s]))
<1> DEFINE a == kept[s]
<1>1. a \in Seq(Glyphs) /\ Marker \in Seq(Glyphs)
  BY MarkerAdds
<1>2. \A token : Count(token, a) \in Nat
  BY <1>1, CountJoins
<1>3. CASE cut[s]
  <2>1. Text(s) = a \o Marker
    BY <1>3 DEF Text, Marker
  <2>2. a \o Marker \in Seq(Glyphs)
    BY <1>1
  <2>3. \A token : Count(token, a \o Marker) = Count(token, a) + Count(token, Marker)
    BY <1>1, CountJoins
  <2>4. Cardinality(Exceptions(a \o Marker)) = Cardinality(Exceptions(a))
    BY <1>1, MarkerAdds
  <2> HIDE DEF a
  <2>5. ASSUME NEW token, token \notin {"nl", "mark"}
        PROVE  Count(token, a \o Marker) = Count(token, a)
    <3>1. Count(token, Marker) = 0
      BY <2>5, MarkerAdds
    <3> QED
      BY <1>2, <2>3, <3>1
  <2>6. Count("mark", a \o Marker) = Count("mark", a) + 1
    BY <2>3, MarkerAdds
  <2> QED
    BY <1>1, <1>3, <2>1, <2>2, <2>4, <2>5, <2>6 DEF a
<1>4. CASE ~cut[s]
  <2>1. Text(s) = a
    BY <1>1, <1>4 DEF Text
  <2>2. Count("mark", a) + 0 = Count("mark", a)
    BY <1>2
  <2> QED
    BY <1>1, <1>4, <2>1, <2>2
<1> QED
  BY <1>3, <1>4

LEMMA CutStreams ==
  Cardinality({s \in Streams : cut[s]}) =
    (IF cut["err"] THEN 1 ELSE 0) + (IF cut["out"] THEN 1 ELSE 0)
<1> DEFINE C == {s \in Streams : cut[s]}
<1>1. Cardinality({}) = 0
  BY FS_EmptySet
<1>2. \A x : Cardinality({x}) = 1
  BY FS_Singleton
<1>3. Cardinality({"err", "out"}) = 2
  <2>1. IsFiniteSet({"err"}) /\ Cardinality({"err"}) = 1
    BY FS_Singleton
  <2>2. Cardinality({"err"} \cup {"out"}) = Cardinality({"err"}) + 1
    BY <2>1, FS_AddElement
  <2>3. {"err"} \cup {"out"} = {"err", "out"}
    OBVIOUS
  <2> QED
    BY <2>1, <2>2, <2>3
<1>4. CASE cut["err"] /\ cut["out"]
  <2>1. C = {"err", "out"}
    BY <1>4 DEF Streams
  <2> QED
    BY <1>3, <1>4, <2>1
<1>5. CASE cut["err"] /\ ~cut["out"]
  <2>1. C = {"err"}
    BY <1>5 DEF Streams
  <2> QED
    BY <1>2, <1>5, <2>1
<1>6. CASE ~cut["err"] /\ cut["out"]
  <2>1. C = {"out"}
    BY <1>6 DEF Streams
  <2> QED
    BY <1>2, <1>6, <2>1
<1>7. CASE ~cut["err"] /\ ~cut["out"]
  <2>1. C = {}
    BY <1>7 DEF Streams
  <2> QED
    BY <1>1, <1>7, <2>1
<1> QED
  BY <1>4, <1>5, <1>6, <1>7

\* What the caller is told is what the call reports, of streams that do not change
\* any more.
Told ==
  said # Nothing =>
    /\ status # Running /\ eof = Streams
    /\ said = IF failed THEN [what |-> "io"] ELSE Reported

LEMMA ToldKeeps ==
  ASSUME Told, [OutNext]_outVars
  PROVE  Told'
<1>1. ASSUME UNCHANGED <<tool, kept, cut, eof, failed, status>>
      PROVE  Reported' = Reported
  BY <1>1 DEF Reported, Compiled, Checked, Joined, Text
<1>2. CASE said' = Nothing
  BY <1>2 DEF Told
<1>3. CASE said' # Nothing /\ said = Nothing
  <2>1. Take
    BY <1>3 DEF OutNext, Emit, ReadSome, ReadEnd, Quit, Anew, outVars
  <2>2. /\ UNCHANGED <<tool, kept, cut, eof, failed, status>>
        /\ status # Running /\ eof = Streams
        /\ said' = IF failed THEN [what |-> "io"] ELSE Reported
    BY <2>1 DEF Take
  <2> QED
    BY <1>1, <2>2 DEF Told
<1>4. CASE said' # Nothing /\ said # Nothing
  <2>1. status # Running /\ eof = Streams
    BY <1>4 DEF Told
  <2>2. UNCHANGED outVars
    <3>1. \A s \in Streams : ~Emit(s) /\ ~ReadEnd(s) /\ \A n \in 1..Chunk : ~ReadSome(s, n)
      BY <2>1 DEF Emit, ReadEnd, ReadSome
    <3>2. \A code \in {0, 255, 1, -1} : ~Quit(code)
      BY <2>1 DEF Quit
    <3>3. ~Take /\ ~Anew
      BY <1>4 DEF Take, Anew
    <3> QED
      BY <3>1, <3>2, <3>3 DEF OutNext
  <2>3. UNCHANGED <<tool, kept, cut, eof, failed, status>> /\ said' = said
    BY <2>2 DEF outVars
  <2> QED
    BY <1>1, <1>4, <2>3 DEF Told
<1> QED
  BY <1>2, <1>3, <1>4

LEMMA NothingIsDropped ==
  ASSUME OutTypeOK, Told
  PROVE  NothingDropped
<1> SUFFICES ASSUME said # Nothing, tool = "compile", status = 255, ~failed
             PROVE  /\ \A t \in {"ex1", "ex2", "word"} :
                         Cardinality(Shown(t, said.diagnostics)) = Count(t, kept["err"]) + Count(t, kept["out"])
                    /\ Cardinality(Shown("mark", said.diagnostics)) =
                         Count("mark", kept["err"]) + Count("mark", kept["out"]) + Cardinality({s \in Streams : cut[s]})
                    /\ \A i \in DOMAIN said.diagnostics : said.diagnostics[i].raw => i = Len(said.diagnostics)
                    /\ (Text("err") = <<>> \/ Last(Text("err")) = "nl") =>
                         Cardinality({i \in DOMAIN said.diagnostics : ~said.diagnostics[i].raw}) =
                           Cardinality(Exceptions(kept["err"])) + Cardinality(Exceptions(kept["out"]))
  BY DEF NothingDropped
<1> DEFINE E == Text("err")
           O == Text("out")
           ds == Parse(E \o O)
<1>1. said.diagnostics = ds
  <2>1. said = Reported
    BY DEF Told
  <2>2. Reported = Compiled
    BY DEF Reported
  <2>3. Compiled = [what |-> "outcome", ok |-> FALSE, diagnostics |-> ds]
    BY DEF Compiled
  <2> QED
    BY <2>1, <2>2, <2>3
<1>2. /\ E \in Seq(Glyphs) /\ O \in Seq(Glyphs)
      /\ kept["err"] \in Seq(Glyphs) /\ kept["out"] \in Seq(Glyphs)
      /\ \A token : token \notin {"nl", "mark"} =>
           Count(token, E) = Count(token, kept["err"]) /\ Count(token, O) = Count(token, kept["out"])
      /\ Count("mark", E) = Count("mark", kept["err"]) + (IF cut["err"] THEN 1 ELSE 0)
      /\ Count("mark", O) = Count("mark", kept["out"]) + (IF cut["out"] THEN 1 ELSE 0)
      /\ Cardinality(Exceptions(E)) = Cardinality(Exceptions(kept["err"]))
      /\ Cardinality(Exceptions(O)) = Cardinality(Exceptions(kept["out"]))
  <2>1. kept \in [Streams -> Seq(Glyphs)] /\ cut \in [Streams -> BOOLEAN]
    BY DEF OutTypeOK
  <2>2. "err" \in Streams /\ "out" \in Streams
    BY DEF Streams
  <2> QED
    BY <2>1, <2>2, TextAdds
<1> HIDE DEF E, O, ds
<1>3. E \o O \in Seq(Glyphs)
  BY <1>2
<1>4. ASSUME NEW t, t \notin {"nl", "gap"}
      PROVE  Cardinality(Shown(t, ds)) = Count(t, E) + Count(t, O)
  <2>1. Cardinality(Shown(t, ds)) = Count(t, E \o O)
    BY <1>3, <1>4, ShownOnce DEF ds
  <2>2. Count(t, E \o O) = Count(t, E) + Count(t, O)
    BY <1>2, CountJoins
  <2> QED
    BY <2>1, <2>2
<1>5. ASSUME NEW t \in {"ex1", "ex2", "word"}
      PROVE  Cardinality(Shown(t, ds)) = Count(t, kept["err"]) + Count(t, kept["out"])
  <2>1. t \notin {"nl", "gap", "mark"}
    BY <1>5
  <2> QED
    BY <1>2, <1>4, <2>1
<1>6. Cardinality(Shown("mark", ds)) =
        Count("mark", kept["err"]) + Count("mark", kept["out"]) + Cardinality({s \in Streams : cut[s]})
  <2>1. Cardinality(Shown("mark", ds)) = Count("mark", E) + Count("mark", O)
    BY <1>4
  <2>2. Count("mark", kept["err"]) \in Nat /\ Count("mark", kept["out"]) \in Nat
    BY <1>2, CountJoins
  <2> DEFINE x == IF cut["err"] THEN 1 ELSE 0
             y == IF cut["out"] THEN 1 ELSE 0
             n == Cardinality({s \in Streams : cut[s]})
  <2>3. Count("mark", E) = Count("mark", kept["err"]) + x
    BY <1>2
  <2>4. Count("mark", O) = Count("mark", kept["out"]) + y
    BY <1>2
  <2>5. n = x + y
    BY CutStreams
  <2>6. x \in Nat /\ y \in Nat
    OBVIOUS
  <2> HIDE DEF x, y, n
  <2>7. Cardinality(Shown("mark", ds)) = Count("mark", kept["err"]) + Count("mark", kept["out"]) + n
    BY <2>1, <2>2, <2>3, <2>4, <2>5, <2>6
  <2> QED
    BY <2>7 DEF n
<1>7. /\ \A i \in DOMAIN ds : ds[i].raw => i = Len(ds)
      /\ Cardinality({i \in DOMAIN ds : ~ds[i].raw}) = Cardinality(Known(E \o O))
  BY <1>3, RawIsLast DEF ds
<1>8. ASSUME E = <<>> \/ Last(E) = "nl"
      PROVE  Cardinality({i \in DOMAIN ds : ~ds[i].raw}) =
               Cardinality(Exceptions(kept["err"])) + Cardinality(Exceptions(kept["out"]))
  <2>1. Cardinality(Known(E \o O)) = Cardinality(Exceptions(E \o O))
    BY <1>3, KnownAreExceptions
  <2>2. Cardinality(Exceptions(E \o O)) = Cardinality(Exceptions(E)) + Cardinality(Exceptions(O))
    BY <1>2, <1>8, ExceptionsJoin
  <2> QED
    BY <1>2, <1>7, <2>1, <2>2
<1> QED
  BY <1>1, <1>5, <1>6, <1>7, <1>8 DEF E

\* A list has as many versions as the output, and a text all that was printed.
LEMMA TheListIsTrue ==
  ASSUME OutTypeOK, Told, Captured
  PROVE  ListIsTrue
<1> SUFFICES ASSUME said # Nothing, tool # "compile", ~failed
             PROVE  /\ (said.what = "failed") <=> (status # 0)
                    /\ said.what = "versions" => Len(said.marked) = Cardinality(VersionsIn(Text("out")))
                    /\ said.what # "failed" /\ ~cut["out"] =>
                         \A t \in {"ver", "word", "ex1"} : Count(t, said.raw) >= Count(t, wrote["out"])
  BY DEF ListIsTrue
<1> DEFINE E == Text("err")
           O == Text("out")
<1>1. said = Reported
  BY DEF Told
<1>2. /\ E \in Seq(Glyphs) /\ O \in Seq(Glyphs)
      /\ \A token : token \notin {"nl", "mark"} => Count(token, O) = Count(token, kept["out"])
  <2>1. kept \in [Streams -> Seq(Glyphs)] /\ cut \in [Streams -> BOOLEAN]
    BY DEF OutTypeOK
  <2>2. "err" \in Streams /\ "out" \in Streams
    BY DEF Streams
  <2> QED
    BY <2>1, <2>2, TextAdds
<1>3. ASSUME ~cut["out"] PROVE kept["out"] = wrote["out"]
  <2> DEFINE W == wrote["out"]
  <2>1. W \in Seq(Glyphs) /\ "out" \in Streams
    BY DEF OutTypeOK, Streams
  <2>2. kept["out"] = SubSeq(W, 1, Least(Limit, Len(W))) /\ ~(Len(W) > Limit)
    BY <1>3, <2>1 DEF Captured
  <2> HIDE DEF W
  <2>3. Least(Limit, Len(W)) = Len(W)
    BY <2>1, <2>2, OutputAssumption DEF Least
  <2>4. SubSeq(W, 1, Len(W)) = W
    BY <2>1
  <2> QED
    BY <2>2, <2>3, <2>4 DEF W
<1>4. ASSUME NEW t PROVE Count(t, Joined) >= Count(t, O) /\ Count(t, O) >= Count(t, O)
  <2>1. Count(t, E) \in Nat /\ Count(t, O) \in Nat
    BY <1>2, CountJoins
  <2>2. CASE O # <<>> /\ E # <<>>
    <3> DEFINE N == <<"nl">>
    <3>1. Joined = O \o N \o E
      BY <2>2 DEF Joined
    <3>2. N \in Seq(Glyphs)
      BY DEF Glyphs
    <3> HIDE DEF N, E, O
    <3>3. O \o N \in Seq(Glyphs)
      BY <1>2, <3>2
    <3>4. /\ Count(t, N) \in Nat
          /\ Count(t, O \o N) = Count(t, O) + Count(t, N)
          /\ Count(t, O \o N \o E) = Count(t, O \o N) + Count(t, E)
      BY <1>2, <3>2, <3>3, CountJoins
    <3> QED
      BY <2>1, <3>1, <3>4
  <2>3. CASE ~(O # <<>> /\ E # <<>>)
    <3>1. Joined = O \o E
      BY <2>3 DEF Joined
    <3> HIDE DEF E, O
    <3>2. Count(t, O \o E) = Count(t, O) + Count(t, E)
      BY <1>2, CountJoins
    <3> QED
      BY <2>1, <3>1, <3>2
  <2> QED
    BY <2>2, <2>3
<1>5. CASE status # 0
  <2>1. said.what = "failed"
    BY <1>1, <1>5 DEF Reported, Checked
  <2> QED
    BY <1>5, <2>1
<1>6. CASE status = 0
  <2>1. \/ said = [what |-> "versions", marked |-> ParseList(O), raw |-> O]
        \/ said = [what |-> "text", raw |-> Joined]
        \/ said = [what |-> "text", raw |-> O]
    BY <1>1, <1>6 DEF Reported, Checked
  <2>2. said.what # "failed" /\ (said.raw = O \/ said.raw = Joined)
    BY <2>1
  <2>3. ASSUME said.what = "versions" PROVE Len(said.marked) = Cardinality(VersionsIn(O))
    <3>1. said.marked = ParseList(O)
      BY <2>1, <2>3
    <3> QED
      BY <1>2, <3>1, ListCounts
  <2>4. ASSUME ~cut["out"], NEW t \in {"ver", "word", "ex1"}
        PROVE  Count(t, said.raw) >= Count(t, wrote["out"])
    <3>1. t \notin {"nl", "mark"}
      BY <2>4
    <3>2. Count(t, O) = Count(t, wrote["out"])
      BY <1>2, <1>3, <2>4, <3>1
    <3> QED
      BY <1>4, <2>2, <3>2
  <2> QED
    BY <1>6, <2>2, <2>3, <2>4
<1> QED
  BY <1>5, <1>6

\* The caller is told the truth about the output: nothing the compiler printed is
\* missing from the diagnostics of an exit status 255, a stream that was cut shows
\* its marker there, each structured line has a diagnostic of its own and the rest
\* comes last; a list has as many versions as the text names; and an error status
\* is never a list or a text.
THEOREM OutputIsRight == OutSpec => []OutputRight
<1>1. OutInit => OutInv /\ Told
  BY OutStarts DEF OutInit, Told
<1>2. OutInv /\ Told /\ [OutNext]_outVars => OutInv' /\ Told'
  BY OutKeeps, ToldKeeps
<1>3. OutInv /\ Told => OutputRight
  <2> SUFFICES ASSUME OutInv, Told PROVE OutputRight
    OBVIOUS
  <2>1. OutTypeOK
    BY DEF OutInv
  <2> QED
    BY <2>1, InvIsCaptured, NothingIsDropped, TheListIsTrue DEF OutputRight
<1> QED
  BY <1>1, <1>2, <1>3, PTL DEF OutSpec

=============================================================================
