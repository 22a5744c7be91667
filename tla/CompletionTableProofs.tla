------------------------ MODULE CompletionTableProofs ------------------------
(***************************************************************************)
(* Proofs about CompletionTable for every set of writers, every set of     *)
(* request ids and every capacity.                                         *)
(***************************************************************************)
EXTENDS CompletionTable, SequenceTheorems, TLAPS

(* What the operators of CompletionReqs do to a table.                     *)

LEMMA TablesDef ==
  ASSUME NEW R, NEW t \in Tables(R)
  PROVE  /\ t = [fifo |-> t.fifo, set |-> t.set, cap |-> t.cap]
         /\ t.fifo \in Seq(R) /\ Len(t.fifo) \in Nat
         /\ t.set \in SUBSET R
         /\ t.cap \in Nat
  BY DEF Tables

LEMMA AddReqFacts ==
  ASSUME NEW R, NEW t \in Tables(R), NEW r \in R,
         NEW u, u = AddReq(t, r)
  PROVE  /\ u \in Tables(R)
         /\ Len(u.fifo) = Len(t.fifo) + 1
         /\ \A i \in 1 .. Len(t.fifo) : u.fifo[i] = t.fifo[i]
         /\ u.fifo[Len(t.fifo) + 1] = r
         /\ u.set = t.set \cup {r}
         /\ Len(t.fifo) < t.cap => u.cap = t.cap
<1>1. Append(t.fifo, r) \in Seq(R) /\ Len(Append(t.fifo, r)) = Len(t.fifo) + 1
  BY TablesDef
<1>2. /\ \A i \in 1 .. Len(t.fifo) : Append(t.fifo, r)[i] = t.fifo[i]
      /\ Append(t.fifo, r)[Len(t.fifo) + 1] = r
  BY TablesDef
<1>3. CapAfterPush(t) \in Nat /\ (Len(t.fifo) < t.cap => CapAfterPush(t) = t.cap)
  BY TablesDef DEF CapAfterPush
<1>4. t.set \cup {r} \in SUBSET R
  BY TablesDef
<1> QED
  BY <1>1, <1>2, <1>3, <1>4 DEF AddReq, Tables

LEMMA RemoveFirstFacts ==
  ASSUME NEW R, NEW t \in Tables(R), t.fifo # << >>,
         NEW u, u = RemoveFirst(t)
  PROVE  /\ u \in Tables(R)
         /\ Len(t.fifo) >= 1
         /\ Len(u.fifo) = Len(t.fifo) - 1
         /\ \A i \in 1 .. Len(u.fifo) : u.fifo[i] = t.fifo[i + 1]
         /\ u.set = t.set \ {t.fifo[1]}
         /\ u.cap = t.cap
<1>1. /\ Tail(t.fifo) \in Seq(R)
      /\ Len(Tail(t.fifo)) = Len(t.fifo) - 1
      /\ \A i \in 1 .. Len(Tail(t.fifo)) : Tail(t.fifo)[i] = t.fifo[i + 1]
  BY TablesDef, HeadTailProperties
<1>2. Len(t.fifo) >= 1 /\ Head(t.fifo) = t.fifo[1]
  BY TablesDef, EmptySeq
<1>3. t.set \ {t.fifo[1]} \in SUBSET R /\ t.cap \in Nat
  BY TablesDef
<1> QED
  BY <1>1, <1>2, <1>3 DEF RemoveFirst, Tables

LEMMA EvictFacts ==
  ASSUME NEW R, NEW t \in Tables(R), Len(t.fifo) = t.cap => t.fifo # << >>,
         NEW u, u = EvictIfFull(t)
  PROVE  /\ u \in Tables(R)
         /\ u.cap = t.cap
         /\ Len(t.fifo) # t.cap => u = t
         /\ Len(t.fifo) = t.cap => u = RemoveFirst(t)
  BY RemoveFirstFacts DEF EvictIfFull, IsFull

-----------------------------------------------------------------------------
(* The invariants. *)

SomeAdded == \E w \in Writers : pc[w] = "added"

(* Only the lock holder is inside the critical section. *)
LockInv == \A w \in Writers : (pc[w] # "idle") <=> (lock = w)

(* How long the queue is, as a function of how much was ever added: the    *)
(* part WindowBounded lacks to be inductive.                               *)
LengthInv ==
  /\ reqs.cap = Capacity
  /\ Len(reqs.fifo) <= Len(log)
  /\ SomeAdded  => /\ Len(reqs.fifo) <= Capacity
                   /\ Len(reqs.fifo) < Capacity => Len(reqs.fifo) = Len(log)
  /\ ~SomeAdded => /\ Len(reqs.fifo) < Capacity
                   /\ Len(reqs.fifo) < Capacity - 1 => Len(reqs.fifo) = Len(log)

(* The queue is the tail of the history. *)
SuffixInv ==
  \A i \in 1 .. Len(reqs.fifo) :
    reqs.fifo[i] = log[Len(log) - Len(reqs.fifo) + i]

(* Queue and set agree as long as no id was added twice. *)
AgreeInv ==
  LogHasNoRepeats =>
    reqs.set = {reqs.fifo[i] : i \in 1 .. Len(reqs.fifo)}

IInv == TypeOK /\ LockInv /\ LengthInv /\ SuffixInv /\ AgreeInv

-----------------------------------------------------------------------------

(* No step writes to the table unless the writer holds the lock. *)
LEMMA OneInside ==
  ASSUME LockInv, NEW w \in Writers, pc[w] # "idle", NEW v \in Writers, v # w
  PROVE  pc[v] = "idle"
  BY DEF LockInv

(* A step that leaves the table alone. *)
LEMMA TableUntouched ==
  ASSUME IInv, UNCHANGED <<reqs, log>>, SomeAdded' = SomeAdded
  PROVE  LengthInv' /\ SuffixInv' /\ AgreeInv'
<1>1. reqs' = reqs /\ log' = log
  OBVIOUS
<1>2. LengthInv'
  BY <1>1 DEF IInv, LengthInv
<1>3. SuffixInv'
  BY <1>1 DEF IInv, SuffixInv
<1>4. LogHasNoRepeats' = LogHasNoRepeats
  BY <1>1 DEF LogHasNoRepeats
<1>5. AgreeInv'
  BY <1>1, <1>4 DEF IInv, AgreeInv
<1> QED
  BY <1>2, <1>3, <1>5

(* Positions of the queue in the history and back. *)
LEMMA Positions ==
  ASSUME NEW n \in Nat, NEW L \in Nat, n <= L
  PROVE  /\ \A i \in 1 .. n : L - n + i \in 1 .. L /\ L - n + i > L - n
         /\ \A k \in 1 .. L : k > L - n => /\ k - (L - n) \in 1 .. n
                                        /\ L - n + (k - (L - n)) = k
  OBVIOUS

-----------------------------------------------------------------------------
(* The invariant is inductive. *)

LEMMA InitIInv == Init => IInv
<1> SUFFICES ASSUME Init PROVE IInv
  OBVIOUS
<1>1. TypeOK
  BY CapacityAssumption DEF Init, TypeOK, Tables, NewReqs, PCs
<1>2. LockInv
  BY NoWriterAssumption DEF Init, LockInv
<1>3. LengthInv
  BY CapacityAssumption DEF Init, LengthInv, NewReqs, SomeAdded
<1>4. SuffixInv
  BY DEF Init, SuffixInv, NewReqs
<1>5. AgreeInv
  BY DEF Init, AgreeInv, NewReqs
<1> QED
  BY <1>1, <1>2, <1>3, <1>4, <1>5 DEF IInv

LEMMA WriteLockStep ==
  ASSUME IInv, NEW w \in Writers, NEW req \in ReqIds, WriteLock(w, req)
  PROVE  IInv'
<1>1. TypeOK'
  BY DEF IInv, TypeOK, WriteLock, PCs
<1>2. LockInv'
  BY NoWriterAssumption DEF IInv, TypeOK, LockInv, WriteLock
<1>3. SomeAdded' = SomeAdded
  BY DEF IInv, TypeOK, WriteLock, SomeAdded
<1>4. LengthInv' /\ SuffixInv' /\ AgreeInv'
  BY <1>3, TableUntouched DEF WriteLock
<1> QED
  BY <1>1, <1>2, <1>4 DEF IInv

(* What adding a request does, in a state where the queue has room.        *)
LEMMA AddEffect ==
  ASSUME IInv, NEW w \in Writers, Add(w)
  PROVE  LET r == pending[w]
             n == Len(reqs.fifo)
         IN  /\ /\ r \in ReqIds /\ log \in Seq(ReqIds)
                /\ n \in Nat /\ Len(log) \in Nat
             /\ /\ n < Capacity /\ n <= Len(log)
                /\ n < Capacity - 1 => n = Len(log)
             /\ /\ reqs' \in Tables(ReqIds)
                /\ Len(reqs'.fifo) = n + 1
                /\ \A i \in 1 .. n : reqs'.fifo[i] = reqs.fifo[i]
                /\ reqs'.fifo[n + 1] = r
                /\ reqs'.set = reqs.set \cup {r}
                /\ reqs'.cap = Capacity
             /\ /\ log' \in Seq(ReqIds) /\ Len(log') = Len(log) + 1
                /\ \A i \in 1 .. Len(log) : log'[i] = log[i]
                /\ log'[Len(log) + 1] = r
<1> DEFINE r == pending[w]
           n == Len(reqs.fifo)
<1>0. /\ reqs \in Tables(ReqIds) /\ r \in ReqIds /\ log \in Seq(ReqIds)
      /\ n \in Nat /\ Len(log) \in Nat
  BY TablesDef DEF IInv, TypeOK
<1>1. ~SomeAdded
  BY OneInside DEF IInv, Add, SomeAdded
<1>2. /\ n < Capacity /\ n <= Len(log) /\ reqs.cap = Capacity
      /\ n < Capacity - 1 => n = Len(log)
  BY <1>1 DEF IInv, LengthInv
<1>3. /\ reqs' \in Tables(ReqIds)
      /\ Len(reqs'.fifo) = n + 1
      /\ \A i \in 1 .. n : reqs'.fifo[i] = reqs.fifo[i]
      /\ reqs'.fifo[n + 1] = r
      /\ reqs'.set = reqs.set \cup {r}
      /\ reqs'.cap = Capacity
  <2>1. reqs' = AddReq(reqs, r)
    BY DEF Add
  <2>2. n < reqs.cap
    BY <1>2
  <2>3. /\ reqs' \in Tables(ReqIds)
        /\ Len(reqs'.fifo) = n + 1
        /\ \A i \in 1 .. n : reqs'.fifo[i] = reqs.fifo[i]
    BY <1>0, <2>1, AddReqFacts
  <2>4. reqs'.fifo[n + 1] = r
    BY <1>0, <2>1, AddReqFacts
  <2>5. reqs'.set = reqs.set \cup {r} /\ reqs'.cap = reqs.cap
    BY <1>0, <2>1, <2>2, AddReqFacts
  <2> QED
    BY <1>2, <2>3, <2>4, <2>5
<1>4. /\ log' \in Seq(ReqIds) /\ Len(log') = Len(log) + 1
      /\ \A i \in 1 .. Len(log) : log'[i] = log[i]
      /\ log'[Len(log) + 1] = r
  BY <1>0 DEF Add
<1> QED
  BY <1>0, <1>2, <1>3, <1>4

LEMMA AddStep ==
  ASSUME IInv, NEW w \in Writers, Add(w)
  PROVE  IInv'
<1> DEFINE r == pending[w]
           n == Len(reqs.fifo)
<1>0. /\ r \in ReqIds /\ log \in Seq(ReqIds)
      /\ n \in Nat /\ Len(log) \in Nat
  BY AddEffect
<1>2. /\ n < Capacity /\ n <= Len(log)
      /\ n < Capacity - 1 => n = Len(log)
  BY AddEffect
<1>3. /\ reqs' \in Tables(ReqIds)
      /\ Len(reqs'.fifo) = n + 1
      /\ \A i \in 1 .. n : reqs'.fifo[i] = reqs.fifo[i]
      /\ reqs'.fifo[n + 1] = r
      /\ reqs'.set = reqs.set \cup {r}
      /\ reqs'.cap = Capacity
  BY AddEffect
<1>4. /\ log' \in Seq(ReqIds) /\ Len(log') = Len(log) + 1
      /\ \A i \in 1 .. Len(log) : log'[i] = log[i]
      /\ log'[Len(log) + 1] = r
  BY AddEffect
<1>5. TypeOK'
  BY <1>3, <1>4 DEF IInv, TypeOK, Add, PCs
<1>6. LockInv'
  BY DEF IInv, TypeOK, LockInv, Add
<1>7. LengthInv'
  <2>1. SomeAdded'
    BY DEF IInv, TypeOK, SomeAdded, Add
  <2> QED
    BY <2>1, <1>0, <1>2, <1>3, <1>4, CapacityAssumption DEF LengthInv
<1>8. SuffixInv'
  <2>0. SUFFICES ASSUME NEW i \in 1 .. n + 1
                 PROVE  reqs'.fifo[i] = log'[Len(log) + 1 - (n + 1) + i]
    <3>1. Len(log') - Len(reqs'.fifo) = Len(log) + 1 - (n + 1)
      BY <1>3, <1>4
    <3> QED
      BY <3>1, <1>3, <1>4 DEF SuffixInv
  <2>1. CASE i = n + 1
    BY <2>1, <1>0, <1>3, <1>4
  <2>2. CASE i \in 1 .. n
    <3>1. Len(log) - n + i \in 1 .. Len(log)
      BY <2>2, <1>0, <1>2
    <3>2. reqs.fifo[i] = log[Len(log) - n + i]
      BY <2>2 DEF IInv, SuffixInv
    <3>3. Len(log) + 1 - (n + 1) + i = Len(log) - n + i
      BY <1>0
    <3> QED
      BY <2>2, <3>1, <3>2, <3>3, <1>3, <1>4
  <2> QED
    BY <2>1, <2>2, <1>0
<1>9. AgreeInv'
  <2> SUFFICES ASSUME LogHasNoRepeats'
               PROVE  reqs'.set = {reqs'.fifo[i] : i \in 1 .. n + 1}
    BY <1>3 DEF AgreeInv
  <2>1. LogHasNoRepeats
    BY <1>0, <1>4 DEF LogHasNoRepeats
  <2>2. reqs.set = {reqs.fifo[i] : i \in 1 .. n}
    BY <2>1 DEF IInv, AgreeInv
  <2>3. 1 .. n + 1 = (1 .. n) \cup {n + 1}
    BY <1>0
  <2> QED
    BY <2>2, <2>3, <1>3
<1> QED
  BY <1>5, <1>6, <1>7, <1>8, <1>9 DEF IInv

(* What the eviction does right after it.                                  *)
LEMMA EvictEffect ==
  ASSUME IInv, NEW w \in Writers, Evict(w)
  PROVE  LET n == Len(reqs.fifo)
         IN  /\ log \in Seq(ReqIds) /\ n \in Nat /\ Len(log) \in Nat
             /\ ~SomeAdded'
             /\ /\ n <= Capacity /\ n <= Len(log)
                /\ n < Capacity => n = Len(log)
             /\ /\ reqs' \in Tables(ReqIds) /\ reqs'.cap = Capacity
                /\ n # Capacity => reqs' = reqs
             /\ n = Capacity => /\ Len(reqs'.fifo) = n - 1
                                /\ \A i \in 1 .. n - 1 :
                                     reqs'.fifo[i] = reqs.fifo[i + 1]
                                /\ reqs'.set = reqs.set \ {reqs.fifo[1]}
<1> DEFINE n == Len(reqs.fifo)
<1>0. /\ reqs \in Tables(ReqIds) /\ log \in Seq(ReqIds)
      /\ n \in Nat /\ Len(log) \in Nat
  BY TablesDef DEF IInv, TypeOK
<1>1. SomeAdded
  BY DEF Evict, SomeAdded
<1>2. ~SomeAdded'
  BY OneInside DEF IInv, TypeOK, Evict, SomeAdded
<1>3. /\ n <= Capacity /\ n <= Len(log) /\ reqs.cap = Capacity
      /\ n < Capacity => n = Len(log)
  BY <1>1 DEF IInv, LengthInv
<1>4. n = reqs.cap => reqs.fifo # << >>
  BY <1>0, <1>3, CapacityAssumption
<1>5. /\ reqs' \in Tables(ReqIds) /\ reqs'.cap = Capacity
      /\ n # Capacity => reqs' = reqs
      /\ n = Capacity => reqs' = RemoveFirst(reqs)
  BY <1>0, <1>3, <1>4, EvictFacts DEF Evict
<1>6. n = Capacity => /\ Len(reqs'.fifo) = n - 1
                      /\ \A i \in 1 .. n - 1 : reqs'.fifo[i] = reqs.fifo[i + 1]
                      /\ reqs'.set = reqs.set \ {reqs.fifo[1]}
  BY <1>0, <1>3, <1>4, <1>5, RemoveFirstFacts
<1> QED
  BY <1>0, <1>2, <1>3, <1>5, <1>6

LEMMA EvictStep ==
  ASSUME IInv, NEW w \in Writers, Evict(w)
  PROVE  IInv'
<1> DEFINE n == Len(reqs.fifo)
<1>0. log \in Seq(ReqIds) /\ n \in Nat /\ Len(log) \in Nat
  BY EvictEffect
<1>2. ~SomeAdded'
  BY EvictEffect
<1>3. /\ n <= Capacity /\ n <= Len(log)
      /\ n < Capacity => n = Len(log)
  BY EvictEffect
<1>5. /\ reqs' \in Tables(ReqIds) /\ reqs'.cap = Capacity
      /\ n # Capacity => reqs' = reqs
  BY EvictEffect
<1>6. n = Capacity => /\ Len(reqs'.fifo) = n - 1
                      /\ \A i \in 1 .. n - 1 : reqs'.fifo[i] = reqs.fifo[i + 1]
                      /\ reqs'.set = reqs.set \ {reqs.fifo[1]}
  BY EvictEffect
<1>7. TypeOK' /\ LockInv'
  BY <1>5 DEF IInv, TypeOK, LockInv, Evict, PCs
<1>8. LengthInv'
  BY <1>0, <1>2, <1>3, <1>5, <1>6, CapacityAssumption DEF LengthInv, Evict
<1>9. SuffixInv'
  <2>1. CASE n # Capacity
    BY <2>1, <1>5 DEF IInv, SuffixInv, Evict
  <2>2. CASE n = Capacity
    <3> SUFFICES ASSUME NEW i \in 1 .. n - 1
                 PROVE  reqs'.fifo[i] = log[Len(log) - (n - 1) + i]
      BY <2>2, <1>6 DEF SuffixInv, Evict
    <3>1. i + 1 \in 1 .. n /\ Len(log) - (n - 1) + i = Len(log) - n + (i + 1)
      BY <1>0
    <3> QED
      BY <3>1, <2>2, <1>6 DEF IInv, SuffixInv
  <2> QED
    BY <2>1, <2>2
<1>10. AgreeInv'
  <2> SUFFICES ASSUME LogHasNoRepeats
               PROVE  reqs'.set = {reqs'.fifo[i] : i \in 1 .. Len(reqs'.fifo)}
    BY DEF AgreeInv, LogHasNoRepeats, Evict
  <2>1. reqs.set = {reqs.fifo[i] : i \in 1 .. n}
    BY DEF IInv, AgreeInv
  <2>2. CASE n # Capacity
    BY <2>1, <2>2, <1>5
  <2>3. CASE n = Capacity
    <3>1. ASSUME NEW i \in 2 .. n PROVE reqs.fifo[i] # reqs.fifo[1]
      <4>1. /\ Len(log) - n + i \in 1 .. Len(log)
            /\ Len(log) - n + 1 \in 1 .. Len(log)
            /\ Len(log) - n + i # Len(log) - n + 1
            /\ i \in 1 .. n /\ 1 \in 1 .. n
        BY <1>0, <1>3
      <4> QED
        BY <4>1 DEF IInv, SuffixInv, LogHasNoRepeats
    <3>2. {reqs'.fifo[i] : i \in 1 .. n - 1} = {reqs.fifo[i] : i \in 2 .. n}
      <4> HIDE DEF n
      <4>1. ASSUME NEW i \in 1 .. n - 1
            PROVE  i + 1 \in 2 .. n /\ reqs'.fifo[i] = reqs.fifo[i + 1]
        BY <1>0, <1>6, <2>3
      <4>2. ASSUME NEW i \in 2 .. n
            PROVE  i - 1 \in 1 .. n - 1 /\ reqs'.fifo[i - 1] = reqs.fifo[i]
        <5>1. i - 1 \in 1 .. n - 1 /\ (i - 1) + 1 = i
          BY <1>0
        <5> QED
          BY <4>1, <5>1
      <4>3. \A x \in {reqs'.fifo[i] : i \in 1 .. n - 1} :
               x \in {reqs.fifo[i] : i \in 2 .. n}
        BY <4>1
      <4>4. \A x \in {reqs.fifo[i] : i \in 2 .. n} :
               x \in {reqs'.fifo[i] : i \in 1 .. n - 1}
        BY <4>2
      <4> QED
        BY <4>3, <4>4
    <3>3. 1 .. n = {1} \cup 2 .. n
      BY <2>3, <1>0, CapacityAssumption
    <3>4. {reqs.fifo[i] : i \in 1 .. n} =
             {reqs.fifo[1]} \cup {reqs.fifo[i] : i \in 2 .. n}
      BY <3>3
    <3>5. Len(reqs'.fifo) = n - 1
      BY <2>3, <1>6
    <3>6. reqs'.set = reqs.set \ {reqs.fifo[1]}
      BY <2>3, <1>6
    <3>7. {reqs.fifo[i] : i \in 1 .. n} \ {reqs.fifo[1]} =
             {reqs.fifo[i] : i \in 2 .. n}
      BY <3>1, <3>4
    <3> QED
      BY <3>2, <3>5, <3>6, <3>7, <2>1
  <2> QED
    BY <2>2, <2>3
<1> QED
  BY <1>7, <1>8, <1>9, <1>10 DEF IInv

LEMMA UnlockStep ==
  ASSUME IInv, NEW w \in Writers, Unlock(w)
  PROVE  IInv'
<1>1. TypeOK'
  BY DEF IInv, TypeOK, Unlock, PCs
<1>2. LockInv'
  BY OneInside, NoWriterAssumption DEF IInv, TypeOK, LockInv, Unlock
<1>3. SomeAdded' = SomeAdded
  BY DEF IInv, TypeOK, Unlock, SomeAdded
<1>4. LengthInv' /\ SuffixInv' /\ AgreeInv'
  BY <1>3, TableUntouched DEF Unlock
<1> QED
  BY <1>1, <1>2, <1>4 DEF IInv

LEMMA NextIInv == IInv /\ [Next]_vars => IInv'
<1> SUFFICES ASSUME IInv, [Next]_vars PROVE IInv'
  OBVIOUS
<1>1. ASSUME NEW w \in Writers, NEW req \in ReqIds, WriteLock(w, req) PROVE IInv'
  BY <1>1, WriteLockStep
<1>2. ASSUME NEW w \in Writers, Add(w) PROVE IInv'
  BY <1>2, AddStep
<1>3. ASSUME NEW w \in Writers, Evict(w) PROVE IInv'
  BY <1>3, EvictStep
<1>4. ASSUME NEW w \in Writers, Unlock(w) PROVE IInv'
  BY <1>4, UnlockStep
<1>5. CASE UNCHANGED vars
  <2>1. SomeAdded' = SomeAdded
    BY <1>5 DEF vars, SomeAdded
  <2>2. TypeOK' /\ LockInv'
    BY <1>5 DEF vars, IInv, TypeOK, LockInv
  <2> QED
    BY <1>5, <2>1, <2>2, TableUntouched DEF vars, IInv
<1> QED
  BY <1>1, <1>2, <1>3, <1>4, <1>5 DEF Next

(* The invariant of every behaviour: the lock is exclusive, the queue is   *)
(* the end of the history and, without repeated ids, the set is the queue. *)
THEOREM Invariance == Spec => []IInv
  BY InitIInv, NextIInv, PTL DEF Spec

-----------------------------------------------------------------------------
(* The properties the runs check. *)

(* TypeOK holds in every state: writers never leave a malformed table. *)
THEOREM TypeCorrect == Spec => []TypeOK
<1>1. IInv => TypeOK
  BY DEF IInv
<1> QED
  BY <1>1, Invariance, PTL

LEMMA FreeMeansNoneAdded ==
  ASSUME IInv, lock = NoWriter PROVE ~SomeAdded
  BY NoWriterAssumption DEF IInv, LockInv, SomeAdded

(* WindowBounded: the queue never outgrows its allocation, whatever the    *)
(* number of writers, so is_full's equality test is never stepped over.    *)
THEOREM WindowStaysBounded == Spec => []WindowBounded
<1>1. IInv => WindowBounded
  <2> SUFFICES ASSUME IInv PROVE WindowBounded
    OBVIOUS
  <2>1. Len(reqs.fifo) \in Nat
    BY TablesDef DEF IInv, TypeOK
  <2> QED
    BY <2>1, FreeMeansNoneAdded, CapacityAssumption
       DEF IInv, LengthInv, WindowBounded
<1> QED
  BY <1>1, Invariance, PTL

(* RecentReqsVisible: with distinct ids is_complete knows exactly the last *)
(* Capacity - 1 completions whenever no writer holds the lock.             *)
THEOREM RecentReqsStayVisible == Spec => []RecentReqsVisible
<1>1. IInv => RecentReqsVisible
  <2> SUFFICES ASSUME IInv, lock = NoWriter, LogHasNoRepeats
               PROVE  reqs.set = LastAdds(Capacity - 1)
    BY DEF RecentReqsVisible
  <2> DEFINE n == Len(reqs.fifo)
             L == Len(log)
  <2>1. n \in Nat /\ L \in Nat
    BY TablesDef DEF IInv, TypeOK
  <2>2. /\ n < Capacity /\ n <= L
        /\ n < Capacity - 1 => n = L
    BY FreeMeansNoneAdded DEF IInv, LengthInv
  <2>3. reqs.set = {reqs.fifo[i] : i \in 1 .. n}
    BY DEF IInv, AgreeInv
  <2>4. \A k \in 1 .. L : (k > L - (Capacity - 1)) <=> (k > L - n)
    BY <2>1, <2>2, CapacityAssumption
  <2>5. \A i \in 1 .. n : /\ L - n + i \in 1 .. L /\ L - n + i > L - n
                         /\ reqs.fifo[i] = log[L - n + i]
    BY <2>1, <2>2, Positions DEF IInv, SuffixInv
  <2>6. \A k \in 1 .. L : k > L - n => /\ k - (L - n) \in 1 .. n
                                      /\ L - n + (k - (L - n)) = k
    BY <2>1, <2>2, Positions
  <2>7. LastAdds(Capacity - 1) = {log[k] : k \in {j \in 1 .. L : j > L - n}}
    BY <2>4 DEF LastAdds
  <2>8. {reqs.fifo[i] : i \in 1 .. n} = {log[k] : k \in {j \in 1 .. L : j > L - n}}
    <3> HIDE DEF n, L
    <3>1. \A x \in {reqs.fifo[i] : i \in 1 .. n} :
             x \in {log[k] : k \in {j \in 1 .. L : j > L - n}}
      BY <2>5
    <3>2. \A k \in 1 .. L : k > L - n =>
             /\ k - (L - n) \in 1 .. n
             /\ reqs.fifo[k - (L - n)] = log[k]
      BY <2>5, <2>6
    <3>3. \A x \in {log[k] : k \in {j \in 1 .. L : j > L - n}} :
             x \in {reqs.fifo[i] : i \in 1 .. n}
      BY <3>2
    <3> QED
      BY <3>1, <3>3
  <2> QED
    BY <2>3, <2>7, <2>8
<1> QED
  BY <1>1, Invariance, PTL

-----------------------------------------------------------------------------
(* Repeated ids. *)

(* Whether req is in the set after the history l, of which the first e     *)
(* adds have been evicted: its last add is still queued, and so is every   *)
(* earlier one that was still queued then.                                 *)
Shown(req, l, e) ==
  \E p \in 1 .. Len(l) :
    /\ l[p] = req /\ p > e
    /\ \A q \in p + 1 .. Len(l) : l[q] # req
    /\ \A q \in 1 .. p - 1 : l[q] = req => q + Capacity - 1 < p \/ q > e

SetInv ==
  \A req \in ReqIds :
    (req \in reqs.set) <=> Shown(req, log, Len(log) - Len(reqs.fifo))

LEMMA AddShows ==
  ASSUME IInv, SetInv, NEW w \in Writers, Add(w)
  PROVE  SetInv'
<1> DEFINE r == pending[w]
           n == Len(reqs.fifo)
           L == Len(log)
           e == L - n
<1>1. /\ n \in Nat /\ L \in Nat /\ n < Capacity /\ n <= L
      /\ n < Capacity - 1 => n = L
  BY AddEffect
<1>2. /\ Len(reqs'.fifo) = n + 1 /\ reqs'.set = reqs.set \cup {r}
      /\ Len(log') = L + 1
      /\ \A i \in 1 .. L : log'[i] = log[i]
      /\ log'[L + 1] = r
  BY AddEffect
<1>3. e \in Nat /\ Len(log') - Len(reqs'.fifo) = e
  BY <1>1, <1>2
<1>4. \A req \in ReqIds : (req \in reqs.set) <=> Shown(req, log, e)
  BY DEF SetInv
<1> SUFFICES ASSUME NEW req \in ReqIds
             PROVE  (req \in reqs'.set) <=> Shown(req, log', e)
  BY <1>3 DEF SetInv
<1> HIDE DEF r, n, L, e
<1>5. CASE req = r
  <2>1. \A q \in 1 .. L : q + Capacity - 1 < L + 1 \/ q > e
    BY <1>1, CapacityAssumption DEF e
  <2>2. L + 1 > e /\ L + 1 \in 1 .. L + 1
    BY <1>1 DEF e
  <2>3. \A q \in 1 .. (L + 1) - 1 : q \in 1 .. L
    BY <1>1
  <2>4. \A q \in (L + 1) + 1 .. L + 1 : FALSE
    BY <1>1
  <2>5. Shown(req, log', e)
    BY <1>2, <1>5, <2>1, <2>2, <2>3, <2>4 DEF Shown
  <2> QED
    BY <2>5, <1>2, <1>5
<1>6. CASE req # r
  <2>1. ASSUME Shown(req, log, e) PROVE Shown(req, log', e)
    <3>1. PICK p \in 1 .. L :
            /\ log[p] = req /\ p > e
            /\ \A q \in p + 1 .. L : log[q] # req
            /\ \A q \in 1 .. p - 1 : log[q] = req => q + Capacity - 1 < p \/ q > e
      BY <2>1 DEF Shown, L
    <3>2. p \in 1 .. L + 1 /\ log'[p] = req
      BY <1>1, <1>2, <3>1
    <3>3. \A q \in p + 1 .. L + 1 : log'[q] # req
      <4> SUFFICES ASSUME NEW q \in p + 1 .. L + 1 PROVE log'[q] # req
        OBVIOUS
      <4>1. q = L + 1 \/ (q \in p + 1 .. L /\ q \in 1 .. L)
        BY <1>1
      <4> QED
        BY <4>1, <1>2, <1>6, <3>1
    <3>4. \A q \in 1 .. p - 1 : q \in 1 .. L
      BY <1>1
    <3>5. \A q \in 1 .. p - 1 : log'[q] = req => q + Capacity - 1 < p \/ q > e
      BY <1>2, <3>1, <3>4
    <3> QED
      BY <1>2, <3>1, <3>2, <3>3, <3>5 DEF Shown
  <2>2. ASSUME Shown(req, log', e) PROVE Shown(req, log, e)
    <3>1. PICK p \in 1 .. L + 1 :
            /\ log'[p] = req /\ p > e
            /\ \A q \in p + 1 .. L + 1 : log'[q] # req
            /\ \A q \in 1 .. p - 1 : log'[q] = req => q + Capacity - 1 < p \/ q > e
      BY <1>2, <2>2 DEF Shown
    <3>2. p \in 1 .. L
      BY <1>1, <1>2, <1>6, <3>1
    <3>3. /\ \A q \in p + 1 .. L : q \in p + 1 .. L + 1 /\ q \in 1 .. L
          /\ \A q \in 1 .. p - 1 : q \in 1 .. L
      BY <1>1, <3>2
    <3>4. /\ log[p] = req
          /\ \A q \in p + 1 .. L : log[q] # req
          /\ \A q \in 1 .. p - 1 : log[q] = req => q + Capacity - 1 < p \/ q > e
      BY <1>2, <3>1, <3>2, <3>3
    <3> QED
      BY <3>1, <3>2, <3>4 DEF Shown, L
  <2> QED
    BY <1>2, <1>4, <1>6, <2>1, <2>2
<1> QED
  BY <1>5, <1>6

LEMMA EvictShows ==
  ASSUME IInv, SetInv, NEW w \in Writers, Evict(w)
  PROVE  SetInv'
<1> DEFINE n == Len(reqs.fifo)
           L == Len(log)
           e == L - n
           oldest == log[e + 1]
<1>1. /\ n \in Nat /\ L \in Nat /\ n <= L /\ n <= Capacity
      /\ n < Capacity => n = L
  BY EvictEffect
<1>2. /\ n # Capacity => reqs' = reqs
      /\ n = Capacity => /\ Len(reqs'.fifo) = n - 1
                         /\ reqs'.set = reqs.set \ {reqs.fifo[1]}
      /\ log' = log
  BY EvictEffect DEF Evict
<1>3. \A req \in ReqIds : (req \in reqs.set) <=> Shown(req, log, e)
  BY DEF SetInv
<1>4. CASE n # Capacity
  BY <1>2, <1>4 DEF SetInv
<1>5. CASE n = Capacity
  <2>1. e \in Nat /\ e + 1 \in 1 .. L /\ (e + 1) + Capacity - 1 = L
    BY <1>1, <1>5, CapacityAssumption
  <2>2. reqs.fifo[1] = oldest
    <3>1. 1 \in 1 .. n /\ L - n + 1 = e + 1
      BY <1>1, <1>5, CapacityAssumption
    <3> QED
      BY <3>1 DEF IInv, SuffixInv
  <2>3. reqs'.set = reqs.set \ {oldest} /\ Len(log') - Len(reqs'.fifo) = e + 1
    BY <1>1, <1>2, <1>5, <2>2
  <2> SUFFICES ASSUME NEW req \in ReqIds
               PROVE  (req \in reqs'.set) <=> Shown(req, log, e + 1)
    BY <1>2, <2>3 DEF SetInv
  <2> HIDE DEF n, e, L
  <2>4. CASE req = oldest
    <3>1. ASSUME Shown(req, log, e + 1) PROVE FALSE
      <4>1. PICK p \in 1 .. L :
              /\ p > e + 1
              /\ \A q \in 1 .. p - 1 :
                   log[q] = req => q + Capacity - 1 < p \/ q > e + 1
        BY <3>1 DEF Shown, L
      <4>2. e + 1 \in 1 .. p - 1 /\ ~((e + 1) + Capacity - 1 < p)
            /\ ~(e + 1 > e + 1)
        BY <1>1, <2>1, <4>1
      <4> QED
        BY <2>4, <4>1, <4>2
    <3> QED
      BY <2>3, <2>4, <3>1
  <2>5. CASE req # oldest
    <3>1. \A q \in 1 .. L : log[q] = req => ((q > e) <=> (q > e + 1))
      BY <1>1, <2>1, <2>5
    <3>2. \A p \in 1 .. L : \A q \in 1 .. p - 1 : q \in 1 .. L
      BY <1>1
    <3>3. Shown(req, log, e) <=> Shown(req, log, e + 1)
      BY <3>1, <3>2 DEF Shown, L
    <3> QED
      BY <1>3, <2>3, <2>5, <3>3
  <2> QED
    BY <2>4, <2>5
<1> QED
  BY <1>4, <1>5

LEMMA SetInvStep == IInv /\ SetInv /\ [Next]_vars => SetInv'
<1> SUFFICES ASSUME IInv, SetInv, [Next]_vars PROVE SetInv'
  OBVIOUS
<1>1. CASE UNCHANGED <<reqs, log>>
  BY <1>1 DEF SetInv
<1>2. CASE \E w \in Writers : Add(w) \/ Evict(w)
  BY <1>2, AddShows, EvictShows
<1> QED
  BY <1>1, <1>2 DEF Next, vars, WriteLock, Unlock

(* VisibleExactly: for any sequence of completions, repeated ids included, *)
(* is_complete reports what the history says and nothing else.             *)
THEOREM VisibleIsExact == Spec => []VisibleExactly
<1>1. Init => SetInv
  BY DEF Init, NewReqs, SetInv, Shown
<1>2. IInv /\ SetInv => VisibleExactly
  <2> SUFFICES ASSUME IInv, SetInv, lock = NoWriter, NEW req \in ReqIds
               PROVE  (req \in reqs.set) <=> Visible(req)
    BY DEF VisibleExactly, IsComplete, IsReqComplete
  <2> DEFINE L == Len(log)
             e == L - Len(reqs.fifo)
  <2>1. L \in Nat /\ Len(reqs.fifo) \in Nat
    BY TablesDef DEF IInv, TypeOK
  <2>2. /\ Len(reqs.fifo) < Capacity /\ Len(reqs.fifo) <= L
        /\ Len(reqs.fifo) < Capacity - 1 => Len(reqs.fifo) = L
    BY FreeMeansNoneAdded DEF IInv, LengthInv
  <2>3. \A p \in 1 .. L : /\ (p > e) <=> (L < p + Capacity - 1)
                         /\ p + Capacity - 1 \in Int
    BY <2>1, <2>2, CapacityAssumption
  <2>4. ASSUME NEW p \in 1 .. L, NEW q \in 1 .. p - 1
        PROVE  (q + Capacity - 1 < p \/ q > e)
                 <=> q + Capacity - 1 \notin p .. L
    <3>1. q \in 1 .. L
      BY <2>1
    <3> QED
      BY <2>1, <2>3, <3>1
  <2>5. (req \in reqs.set) <=> Shown(req, log, e)
    BY DEF SetInv
  <2> HIDE DEF e
  <2>6. Shown(req, log, e) <=> Visible(req)
    BY <2>3, <2>4 DEF Shown, Visible
  <2> QED
    BY <2>5, <2>6
<1> QED
  BY <1>1, <1>2, SetInvStep, Invariance, PTL DEF Spec
=============================================================================
