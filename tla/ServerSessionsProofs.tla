------------------------ MODULE ServerSessionsProofs ------------------------
(***************************************************************************)
(* Proofs about ServerSessions for any finite set of connections, any      *)
(* number of commands on each and every capacity of the table they share.  *)
(***************************************************************************)
EXTENDS ServerSessions, FiniteSetTheorems, TLAPS

(* What is proved of CompletionTable, of the table the sessions share. *)
TableFacts == INSTANCE CompletionTableProofs
  WITH Writers <- Clients, MaxAdds <- Cardinality(Clients) * MaxCmds

Positions(c) == 1 .. Len(accepted[c])

ServiceType ==
  /\ accepted \in [Clients -> Seq(Command)]
  /\ written \in [Clients -> SUBSET Nat]
  /\ recorded \in [Clients -> Seq(Nat)]
  /\ \A c \in Clients : Announced(c) \subseteq Positions(c)

TableType ==
  /\ pc \in [Clients -> {"idle", "locked", "added", "evicted"}]
  /\ pending \in [Clients -> ReqIds]
  /\ note \in [Clients -> Nat]

(* Only the session that holds the lock is inside its critical section,    *)
(* and only with a notification.                                           *)
LockInv ==
  \A c \in Clients : /\ (pc[c] # "idle") <=> (lock = c)
                     /\ pc[c] # "idle" => note[c] # 0

(* What a session holds is the next Complete of its own connection, behind *)
(* its data, until it is recorded.                                         *)
IsNext(c, k) ==
  /\ k \notin Announced(c)
  /\ \A j \in 1 .. k - 1 : IsComplete(accepted[c][j]) => j \in Announced(c)

Holds(c) ==
  note[c] # 0 =>
    /\ note[c] \in Positions(c) /\ IsComplete(accepted[c][note[c]])
    /\ Ready(c, note[c], written[c])
    /\ pc[c] \in {"idle", "locked"} => IsNext(c, note[c])
    /\ pc[c] = "locked" => pending[c] = accepted[c][note[c]].arg

NoteInv == \A c \in Clients : Holds(c)

(* Where each entry of the table comes from. *)
Backed(c, k, r) ==
  k \in Announced(c) /\ accepted[c][k].arg = r /\ Ready(c, k, written[c])

SourceInv ==
  \A r \in reqs.set : \E c \in Clients, k \in Nat : Backed(c, k, r)

IInv == ServiceType /\ TableType /\ LockInv /\ NoteInv /\ SourceInv

-----------------------------------------------------------------------------
(* The commands and writes of a connection only grow. *)

Grows ==
  \A c \in Clients :
    /\ Announced(c) \subseteq Announced(c)'
    /\ written[c] \subseteq written'[c]
    /\ \A k \in Positions(c) : k \in Positions(c)' /\ accepted'[c][k] = accepted[c][k]

LEMMA Typed ==
  ASSUME ServiceType, NEW c \in Clients
  PROVE  /\ accepted[c] \in Seq(Command) /\ Len(accepted[c]) \in Nat
         /\ written[c] \in SUBSET Nat /\ recorded[c] \in Seq(Nat)
         /\ \A k \in Positions(c) : k \in Nat /\ accepted[c][k] \in Command
         /\ Announced(c) \subseteq Positions(c)
         /\ Announced(c) \subseteq Nat
<1>1. accepted[c] \in Seq(Command) /\ written[c] \in SUBSET Nat /\ recorded[c] \in Seq(Nat)
  BY DEF ServiceType
<1>2. Len(accepted[c]) \in Nat /\ \A k \in Positions(c) : accepted[c][k] \in Command
  BY <1>1 DEF Positions
<1> QED
  BY <1>1, <1>2 DEF ServiceType, Positions

LEMMA BackedStays ==
  ASSUME ServiceType, Grows, NEW c \in Clients, NEW k \in Nat, NEW r,
         Backed(c, k, r)
  PROVE  Backed(c, k, r)'
<1>1. k \in Announced(c)' /\ k \in Positions(c) /\ accepted'[c][k].arg = r
  BY Typed DEF Backed, Grows
<1>2. ASSUME NEW j \in 1 .. k - 1, IsGoodSend(accepted'[c][j])
      PROVE  j \in written'[c]
  <2>1. j \in Positions(c)
    BY <1>1, Typed DEF Positions
  <2> QED
    BY <1>2, <2>1 DEF Grows, IsGoodSend, Backed, Ready
<1> QED
  BY <1>1, <1>2 DEF Backed, Ready

LEMMA ReadyStays ==
  ASSUME ServiceType, Grows, NEW c \in Clients, NEW k \in Positions(c),
         Ready(c, k, written[c])
  PROVE  Ready(c, k, written[c])'
<1> SUFFICES ASSUME NEW j \in 1 .. k - 1, IsGoodSend(accepted'[c][j])
             PROVE  j \in written'[c]
  BY DEF Ready
<1>1. j \in Positions(c)
  BY Typed DEF Positions
<1> QED
  BY <1>1 DEF Grows, IsGoodSend, Ready

LEMMA SourceStays ==
  ASSUME ServiceType, Grows, SourceInv, reqs'.set \subseteq reqs.set
  PROVE  SourceInv'
<1> SUFFICES ASSUME NEW r \in reqs'.set
             PROVE  \E c \in Clients, k \in Nat : Backed(c, k, r)'
  BY DEF SourceInv
<1>1. PICK c \in Clients, k \in Nat : Backed(c, k, r)
  BY DEF SourceInv
<1> QED
  BY <1>1, BackedStays

LEMMA HoldsStays ==
  ASSUME IInv, Grows, NEW c \in Clients,
         UNCHANGED <<note[c], pc[c], pending[c], recorded[c]>>
  PROVE  Holds(c)'
<1> SUFFICES ASSUME note[c] # 0, NEW k \in Positions(c), k = note[c],
                    IsComplete(accepted[c][k]), Holds(c)
             PROVE  Holds(c)'
  BY DEF Holds, IInv, NoteInv
<1>1. k \in Positions(c)' /\ accepted'[c][k] = accepted[c][k] /\ Ready(c, k, written[c])'
  BY ReadyStays DEF Grows, Holds, IInv
<1>2. \A j \in 1 .. k - 1 : accepted'[c][j] = accepted[c][j]
  BY Typed DEF IInv, Grows, Positions
<1>3. IsNext(c, k) => IsNext(c, k)'
  BY <1>2 DEF IsNext, IsComplete, Announced
<1> QED
  BY <1>1, <1>3 DEF Holds, Ready, IsNext, IsComplete

-----------------------------------------------------------------------------
(* Each step keeps the invariant. *)

LEMMA InitIInv == Init => IInv
<1> SUFFICES ASSUME Init PROVE IInv
  OBVIOUS
<1> USE DEF Init, Table!Init, Table!NewReqs
<1>1. ServiceType
  BY DEF ServiceType, Announced, Positions
<1>2. TableType
  BY DEF TableType
<1>3. LockInv /\ NoteInv
  BY SessionsAssumption DEF LockInv, NoteInv, Holds
<1>4. SourceInv
  BY DEF SourceInv
<1> QED
  BY <1>1, <1>2, <1>3, <1>4 DEF IInv

LEMMA QueueStep ==
  ASSUME IInv, NEW c \in Clients, NEW cmd \in Command, Queue(c, cmd)
  PROVE  IInv'
<1>1. /\ accepted' = [accepted EXCEPT ![c] = Append(@, cmd)]
      /\ UNCHANGED <<written, recorded, note, reqs, lock, pc, pending>>
  BY DEF Queue, table
<1>2. ServiceType /\ \A d \in Clients : Announced(d)' = Announced(d)
  BY <1>1 DEF IInv, Announced
<1>3. ASSUME NEW d \in Clients
      PROVE  /\ accepted'[d] \in Seq(Command)
             /\ \A k \in Positions(d) : k \in Positions(d)' /\ accepted'[d][k] = accepted[d][k]
  BY <1>1, <1>2, Typed DEF ServiceType, Positions
<1>4. Grows
  BY <1>1, <1>2, <1>3 DEF Grows
<1>5. ServiceType'
  BY <1>1, <1>2, <1>3 DEF ServiceType
<1>6. TableType' /\ LockInv'
  BY <1>1 DEF IInv, TableType, LockInv
<1>7. NoteInv'
  BY <1>1, <1>4, HoldsStays DEF NoteInv
<1>8. SourceInv'
  BY <1>1, <1>2, <1>4, SourceStays DEF IInv
<1> QED
  BY <1>5, <1>6, <1>7, <1>8 DEF IInv

LEMMA WriteStep ==
  ASSUME IInv, NEW c \in Clients, NEW k \in Positions(c), Write(c, k)
  PROVE  IInv'
<1>1. /\ written' = [written EXCEPT ![c] = @ \cup {k}] /\ k \in Nat
      /\ UNCHANGED <<accepted, recorded, note, reqs, lock, pc, pending>>
  BY DEF Write, table, Positions
<1>2. ServiceType /\ \A d \in Clients : Announced(d)' = Announced(d)
  BY <1>1 DEF IInv, Announced
<1>3. Grows
  BY <1>1, <1>2 DEF Grows, ServiceType, Positions
<1>4. ServiceType'
  BY <1>1, <1>2 DEF ServiceType, Positions
<1>5. TableType' /\ LockInv'
  BY <1>1 DEF IInv, TableType, LockInv
<1>6. NoteInv'
  BY <1>1, <1>3, HoldsStays DEF NoteInv
<1>7. SourceInv'
  BY <1>1, <1>2, <1>3, SourceStays DEF IInv
<1> QED
  BY <1>4, <1>5, <1>6, <1>7 DEF IInv

(* The steps that leave the services alone. *)
LEMMA ServiceStays ==
  ASSUME IInv, UNCHANGED service
  PROVE  /\ ServiceType' /\ Grows
         /\ \A c \in Clients : Announced(c)' = Announced(c)
<1>1. \A c \in Clients : Announced(c)' = Announced(c) /\ Positions(c)' = Positions(c)
  BY DEF service, Announced, Positions
<1> QED
  BY <1>1 DEF service, IInv, ServiceType, Grows

LEMMA ReadStep ==
  ASSUME IInv, NEW c \in Clients, NEW k \in Positions(c), Read(c, k)
  PROVE  IInv'
<1>1. /\ note[c] = 0 /\ note' = [note EXCEPT ![c] = k] /\ k \in Nat
      /\ UNCHANGED <<service, reqs, lock, pc, pending>>
  BY DEF Read, table, Positions
<1>2. ServiceType' /\ Grows /\ \A d \in Clients : Announced(d)' = Announced(d)
  BY <1>1, ServiceStays
<1>3. pc[c] = "idle"
  BY <1>1 DEF IInv, LockInv
<1>4. TableType' /\ LockInv'
  BY <1>1, <1>3 DEF IInv, TableType, LockInv
<1>5. Holds(c)'
  BY <1>1, <1>3
  DEF Read, Holds, IsNext, Ready, Positions, IsComplete, IsGoodSend, service,
      Announced, IInv, TableType
<1>6. NoteInv'
  BY <1>1, <1>2, <1>5, HoldsStays DEF NoteInv, service, IInv, TableType
<1>7. SourceInv'
  BY <1>1, <1>2, SourceStays DEF IInv
<1> QED
  BY <1>2, <1>4, <1>6, <1>7 DEF IInv

LEMMA WriteLockStep ==
  ASSUME IInv, NEW c \in Clients, WriteLock(c)
  PROVE  /\ IInv' /\ accepted[c][note[c]].arg \in ReqIds
<1> DEFINE req == accepted[c][note[c]].arg
<1>1. /\ note[c] # 0 /\ pc[c] = "idle" /\ lock = NoWriter
      /\ lock' = c /\ pc' = [pc EXCEPT ![c] = "locked"]
      /\ pending' = [pending EXCEPT ![c] = req]
      /\ UNCHANGED <<service, note, reqs, log>>
  BY DEF WriteLock, Table!WriteLock
<1>2. req \in ReqIds
  BY <1>1, Typed DEF IInv, NoteInv, Holds, IsComplete, Command
<1> HIDE DEF req
<1>3. ServiceType' /\ Grows /\ \A d \in Clients : Announced(d)' = Announced(d)
  BY <1>1, ServiceStays
<1>4. TableType' /\ LockInv'
  BY <1>1, <1>2, SessionsAssumption DEF IInv, TableType, LockInv
<1>5. Holds(c)'
  BY <1>1, <1>2
  DEF Holds, IsNext, Ready, Positions, IsComplete, IsGoodSend, service,
      Announced, IInv, TableType, NoteInv, req
<1>6. NoteInv'
  BY <1>1, <1>3, <1>5, HoldsStays DEF NoteInv, service, IInv, TableType
<1>7. SourceInv'
  BY <1>1, <1>3, SourceStays DEF IInv
<1> QED
  BY <1>2, <1>3, <1>4, <1>6, <1>7 DEF IInv, req

(* What the table shows after an add comes from this add or was there. *)
LEMMA AddStep ==
  ASSUME IInv, NEW c \in Clients, Add(c)
  PROVE  IInv'
<1>0. PICK k \in Nat : k = note[c]
  BY DEF IInv, TableType
<1>1. /\ pc[c] = "locked" /\ pc' = [pc EXCEPT ![c] = "added"]
      /\ reqs'.set = reqs.set \cup {pending[c]}
      /\ recorded' = [recorded EXCEPT ![c] = Append(@, k)]
      /\ UNCHANGED <<accepted, written, note, lock, pending>>
  BY <1>0 DEF Add, Table!Add, Table!AddReq
<1>2. /\ k # 0 /\ k \in Positions(c) /\ Ready(c, k, written[c])
      /\ pending[c] = accepted[c][k].arg
  BY <1>0, <1>1 DEF IInv, LockInv, NoteInv, Holds, TableType
<1>3. /\ Announced(c)' = Announced(c) \cup {k}
      /\ \A d \in Clients \ {c} : Announced(d)' = Announced(d)
  <2>1. recorded[c] \in Seq(Nat) /\ recorded'[c] = Append(recorded[c], k)
    BY <1>1 DEF IInv, ServiceType
  <2>2. /\ Len(Append(recorded[c], k)) = Len(recorded[c]) + 1
        /\ \A i \in 1 .. Len(recorded[c]) : Append(recorded[c], k)[i] = recorded[c][i]
        /\ Append(recorded[c], k)[Len(recorded[c]) + 1] = k
        /\ Len(recorded[c]) \in Nat
    BY <2>1
  <2>3. Announced(c)' = Announced(c) \cup {k}
    BY <2>1, <2>2 DEF Announced
  <2>4. \A d \in Clients \ {c} : recorded'[d] = recorded[d]
    BY <1>1 DEF IInv, ServiceType
  <2>5. \A d \in Clients \ {c} : Announced(d)' = Announced(d)
    BY <2>4 DEF Announced
  <2> QED
    BY <2>3, <2>5
<1>4. ServiceType'
  <2>1. recorded' \in [Clients -> Seq(Nat)]
    BY <1>1, <1>2 DEF IInv, ServiceType
  <2>2. \A d \in Clients : Announced(d)' \subseteq Positions(d)'
    BY <1>1, <1>2, <1>3 DEF IInv, ServiceType, Positions
  <2> QED
    BY <1>1, <2>1, <2>2 DEF IInv, ServiceType
<1>5. ServiceType /\ Grows
  BY <1>1, <1>3 DEF IInv, Grows, Positions
<1>6. TableType' /\ LockInv'
  BY <1>1 DEF IInv, TableType, LockInv
<1>7. Holds(c)'
  BY <1>0, <1>1, <1>2
  DEF Holds, Ready, Positions, IInv, NoteInv, TableType, IsComplete, IsGoodSend
<1>8. NoteInv'
  BY <1>1, <1>5, <1>7, HoldsStays DEF NoteInv, IInv, TableType, ServiceType
<1>9. SourceInv'
  <2> SUFFICES ASSUME NEW r \in reqs'.set
               PROVE  \E d \in Clients, i \in Nat : Backed(d, i, r)'
    BY DEF SourceInv
  <2>1. CASE r \in reqs.set
    <3>1. PICK d \in Clients, i \in Nat : Backed(d, i, r)
      BY <2>1 DEF IInv, SourceInv
    <3> QED
      BY <1>5, <3>1, BackedStays
  <2>2. CASE r = pending[c]
    <3>1. Backed(c, k, r)'
      BY <1>1, <1>2, <1>3, <2>2 DEF Backed, Ready
    <3> QED
      BY <1>2, <3>1
  <2> QED
    BY <1>1, <2>1, <2>2
<1> QED
  BY <1>4, <1>6, <1>8, <1>9 DEF IInv

LEMMA EvictStep ==
  ASSUME IInv, NEW c \in Clients, Evict(c)
  PROVE  IInv'
<1>1. /\ pc[c] = "added" /\ pc' = [pc EXCEPT ![c] = "evicted"]
      /\ reqs'.set \subseteq reqs.set
      /\ UNCHANGED <<service, note, lock, pending>>
  BY DEF Evict, Table!Evict, Table!EvictIfFull, Table!RemoveFirst
<1>2. ServiceType' /\ Grows /\ \A d \in Clients : Announced(d)' = Announced(d)
  BY <1>1, ServiceStays
<1>3. TableType' /\ LockInv'
  BY <1>1 DEF IInv, TableType, LockInv
<1>4. Holds(c)'
  BY <1>1
  DEF Holds, Ready, Positions, IInv, NoteInv, TableType, service, IsComplete,
      IsGoodSend
<1>5. NoteInv'
  BY <1>1, <1>2, <1>4, HoldsStays DEF NoteInv, service, IInv, TableType
<1>6. SourceInv'
  BY <1>1, <1>2, SourceStays DEF IInv
<1> QED
  BY <1>2, <1>3, <1>5, <1>6 DEF IInv

LEMMA UnlockStep ==
  ASSUME IInv, NEW c \in Clients, Unlock(c)
  PROVE  IInv'
<1>1. /\ pc[c] = "evicted" /\ pc' = [pc EXCEPT ![c] = "idle"] /\ lock' = NoWriter
      /\ note' = [note EXCEPT ![c] = 0]
      /\ UNCHANGED <<service, reqs, pending>>
  BY DEF Unlock, Table!Unlock
<1>2. ServiceType' /\ Grows /\ \A d \in Clients : Announced(d)' = Announced(d)
  BY <1>1, ServiceStays
<1>3. TableType' /\ LockInv'
  BY <1>1, SessionsAssumption DEF IInv, TableType, LockInv
<1>4. Holds(c)'
  BY <1>1 DEF Holds, IInv, TableType
<1>5. NoteInv'
  BY <1>1, <1>2, <1>4, HoldsStays DEF NoteInv, service, IInv, TableType
<1>6. SourceInv'
  BY <1>1, <1>2, SourceStays DEF IInv
<1> QED
  BY <1>2, <1>3, <1>5, <1>6 DEF IInv

LEMMA StutterStep ==
  ASSUME IInv, UNCHANGED vars
  PROVE  IInv'
<1>1. UNCHANGED <<service, note, reqs, lock, pc, pending>>
  BY DEF vars, table
<1>2. ServiceType' /\ Grows
  BY <1>1, ServiceStays
<1>3. TableType' /\ LockInv'
  BY <1>1 DEF IInv, TableType, LockInv
<1>4. NoteInv'
  BY <1>1, <1>2, HoldsStays DEF NoteInv, service
<1>5. SourceInv'
  BY <1>1, <1>2, SourceStays DEF IInv
<1> QED
  BY <1>2, <1>3, <1>4, <1>5 DEF IInv

LEMMA Step == IInv /\ [Next]_vars => IInv'
  BY QueueStep, WriteStep, ReadStep, WriteLockStep, AddStep, EvictStep, UnlockStep,
     StutterStep
  DEF Next, Positions

-----------------------------------------------------------------------------
(* The refinements. *)

(* Each step is, for every connection, a step of its service or none.      *)
LEMMA ConnectionStep ==
  ASSUME IInv, [Next]_vars, NEW c \in Clients
  PROVE  [Connection(c)!Next]_(Connection(c)!svars)
<1> USE DEF Connection!svars, Connection!Next
<1>1. ServiceType
  BY DEF IInv
<1>2. ASSUME NEW d \in Clients, NEW cmd \in Command, Queue(d, cmd)
      PROVE  [Connection(c)!Next]_(Connection(c)!svars)
  <2>1. CASE c = d
    <3>1. Connection(c)!Accept(cmd)
      BY <1>1, <1>2, <2>1 DEF Queue, Connection!Accept, ServiceType
    <3> QED
      BY <3>1 DEF Command, Connection!Command
  <2>2. CASE c # d
    BY <1>1, <1>2, <2>2 DEF Queue, ServiceType
  <2> QED
    BY <2>1, <2>2
<1>3. ASSUME NEW d \in Clients, NEW k \in Positions(d), Write(d, k)
      PROVE  [Connection(c)!Next]_(Connection(c)!svars)
  <2>1. CASE c = d
    <3>1. Connection(c)!Write(k)
      BY <1>1, <1>3, <2>1
      DEF Write, Ready, IsGoodSend, ServiceType, Connection!Write,
          Connection!Before, Connection!IsGoodSend
    <3> QED
      BY <2>1, <3>1 DEF Positions
  <2>2. CASE c # d
    BY <1>1, <1>3, <2>2 DEF Write, ServiceType
  <2> QED
    BY <2>1, <2>2
<1>4. ASSUME NEW d \in Clients, Add(d)
      PROVE  [Connection(c)!Next]_(Connection(c)!svars)
  <2>1. /\ pc[d] = "locked" /\ recorded' = [recorded EXCEPT ![d] = Append(@, note[d])]
        /\ UNCHANGED <<accepted, written>>
    BY <1>4 DEF Add, Table!Add
  <2>2. CASE c = d
    <3>1. /\ note[c] \in Positions(c) /\ IsComplete(accepted[c][note[c]])
          /\ Ready(c, note[c], written[c]) /\ IsNext(c, note[c])
      BY <2>1, <2>2 DEF IInv, LockInv, NoteInv, Holds
    <3>2. Connection(c)!Announced = Announced(c)
      BY DEF Connection!Announced, Announced
    <3>3. Connection(c)!Announce(note[c])
      BY <1>1, <2>1, <2>2, <3>1, <3>2
      DEF IsNext, Ready, IsGoodSend, IsComplete, ServiceType, Connection!Announce,
          Connection!Before, Connection!IsGoodSend, Connection!IsComplete
    <3> QED
      BY <3>1, <3>3 DEF Positions
  <2>3. CASE c # d
    BY <1>1, <2>1, <2>3 DEF ServiceType
  <2> QED
    BY <2>2, <2>3
<1>5. CASE UNCHANGED service
  BY <1>5 DEF service
<1>6. CASE Next /\ ~UNCHANGED service
  <2>1. PICK d \in Clients :
          \/ \E cmd \in Command : Queue(d, cmd)
          \/ \E k \in Positions(d) : Write(d, k)
          \/ Add(d)
    BY <1>6 DEF Next, Read, WriteLock, Evict, Unlock, Positions
  <2> QED
    BY <1>2, <1>3, <1>4, <2>1
<1> QED
  BY <1>5, <1>6 DEF vars

(* Each step is a step of the one table or none. *)
LEMMA TableStep ==
  ASSUME IInv, [Next]_vars
  PROVE  [Table!Next]_(Table!vars)
<1> USE DEF Table!vars, Table!Next
<1>1. ASSUME NEW c \in Clients, WriteLock(c)
      PROVE  Table!Next
  <2>1. accepted[c][note[c]].arg \in ReqIds
    BY <1>1, WriteLockStep
  <2> QED
    BY <1>1, <2>1 DEF WriteLock
<1>2. ASSUME NEW c \in Clients, Add(c) \/ Evict(c) \/ Unlock(c)
      PROVE  Table!Next
  BY <1>2 DEF Add, Evict, Unlock
<1>3. CASE UNCHANGED table
  BY <1>3 DEF table
<1>4. CASE Next /\ ~UNCHANGED table
  BY <1>1, <1>2, <1>4 DEF Next, Queue, Write, Read
<1> QED
  BY <1>3, <1>4 DEF vars

-----------------------------------------------------------------------------
THEOREM Invariance == Spec => []IInv
  BY InitIInv, Step, PTL DEF Spec

(* The server's is_complete never says yes for want of keeping connections *)
(* apart: some client completed the request behind its data.               *)
THEOREM VisibleMeansData == Spec => []VisibleHasData
<1>1. ASSUME IInv PROVE VisibleHasData
  BY <1>1
  DEF IInv, SourceInv, Backed, VisibleHasData, Table!IsComplete, Table!IsReqComplete
<1> QED
  BY <1>1, Invariance, PTL

(* Any number of connections can share the table: each still gets what     *)
(* TransferService promises, and together they use the table as            *)
(* CompletionTable says its writers do.                                    *)
THEOREM SharingIsSafe == Spec => OneTable
<1> DEFINE EachService == \A c \in Clients : [Connection(c)!Next]_(Connection(c)!svars)
<1>1. Init => /\ \A c \in Clients : Connection(c)!Init
              /\ Table!Init
  BY DEF Init, Connection!Init
<1>2. IInv /\ [Next]_vars => [EachService]_vars
  BY ConnectionStep
<1>3. IInv /\ [Next]_vars => [Table!Next]_(Table!vars)
  BY TableStep
<1> QED
  BY <1>1, <1>2, <1>3, Invariance, PTL DEF Spec, OneTable, Table!Spec

(* With that, which requests is_complete reports is settled for any mix of *)
(* connections by the order in which they were recorded alone.             *)
THEOREM AnswersAreExact == Spec => []Table!VisibleExactly
<1>1. /\ Capacity \in Nat \ {0} /\ NoWriter \notin Clients
      /\ Cardinality(Clients) * MaxCmds \in Nat
  <2>1. Cardinality(Clients) \in Nat
    BY SessionsAssumption, FS_CardinalityType
  <2>2. \A m, n \in Nat : m * n \in Nat
    OBVIOUS
  <2> QED
    BY <2>1, <2>2, SessionsAssumption
<1>2. TableFacts!Spec => []TableFacts!VisibleExactly
  BY <1>1, TableFacts!VisibleIsExact
<1>3. Table!Init => TableFacts!Init
  BY DEF Table!Init, TableFacts!Init, Table!NewReqs, TableFacts!NewReqs
<1>4. [Table!Next]_(Table!vars) => [TableFacts!Next]_(TableFacts!vars)
  <2> USE DEF Table!vars, TableFacts!vars
  <2>1. ASSUME NEW c \in Clients, NEW req \in ReqIds, Table!WriteLock(c, req)
        PROVE  TableFacts!WriteLock(c, req)
    BY <2>1 DEF Table!WriteLock, TableFacts!WriteLock
  <2>2. ASSUME NEW c \in Clients, Table!Add(c)
        PROVE  TableFacts!Add(c)
    BY <2>2
    DEF Table!Add, TableFacts!Add, Table!AddReq, TableFacts!AddReq,
        Table!CapAfterPush, TableFacts!CapAfterPush
  <2>3. ASSUME NEW c \in Clients, Table!Evict(c)
        PROVE  TableFacts!Evict(c)
    BY <2>3
    DEF Table!Evict, TableFacts!Evict, Table!EvictIfFull, TableFacts!EvictIfFull,
        Table!IsFull, TableFacts!IsFull, Table!RemoveFirst, TableFacts!RemoveFirst
  <2>4. ASSUME NEW c \in Clients, Table!Unlock(c)
        PROVE  TableFacts!Unlock(c)
    BY <2>4 DEF Table!Unlock, TableFacts!Unlock
  <2>5. Table!Next => TableFacts!Next
    BY <2>1, <2>2, <2>3, <2>4 DEF Table!Next, TableFacts!Next
  <2> QED
    BY <2>5
<1>5. TableFacts!VisibleExactly => Table!VisibleExactly
  BY DEF TableFacts!VisibleExactly, Table!VisibleExactly, TableFacts!Visible,
         Table!Visible, TableFacts!IsComplete, Table!IsComplete,
         TableFacts!IsReqComplete, Table!IsReqComplete
<1> QED
  BY <1>2, <1>3, <1>4, <1>5, SharingIsSafe, PTL DEF OneTable, Table!Spec, TableFacts!Spec
=============================================================================
