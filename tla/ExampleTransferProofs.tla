------------------------ MODULE ExampleTransferProofs ------------------------
(***************************************************************************)
(* Proofs about ExampleTransfer for every ring of at least two buffers,    *)
(* any number of loops and of link failures.                               *)
(***************************************************************************)
EXTENDS ExampleTransfer, TLAPS

(* What the client's main has posted, and what it announces.               *)
ClientInv ==
  /\ cpc = "loop" => send = "free"
  /\ cpc = "writing" => ccpu = loop /\ loop >= 1
  /\ cpc = "notifying" => ccpu = loop /\ loop >= 1
  /\ cpc = "leaving" => ccpu = Done

(* How far the announcements have come: the server's cpu_buffer is at most *)
(* one loop behind the client.                                             *)
PaceInv ==
  /\ cpc = "loop" => scpu = loop
  /\ cpc = "writing" => scpu = loop - 1
  /\ cpc = "notifying" => scpu \in {loop - 1, loop}
  /\ (cpc = "notifying" /\ send = "posted") => scpu = loop - 1
  /\ (cpc = "notifying" /\ send \in {"executed", "ok"}) => scpu = loop
  /\ (cpc = "leaving" /\ send = "posted") => scpu = Loops

(* How far the session has come: it owes one request exactly while it has  *)
(* a notification in hand.                                                 *)
InHand == recv = "ok" \/ spc = "handling"

SessionInv ==
  /\ recv # "free" => spc = "polling"
  /\ (spc \in {"post", "polling"} /\ ~InHand) =>
       scpu <= Loops /\ Len(printed) = scpu
  /\ InHand => scpu >= 1 /\ Len(printed) = scpu - 1
  /\ PrintedInOrder

(* Which messages are whole: the one last announced, and the client's own  *)
(* once its write was executed.                                            *)
DataInv ==
  /\ scpu \in 1 .. Loops => data[Slot(scpu)] = scpu
  /\ (cpc = "writing" /\ send \in {"executed", "ok"}) => data[Slot(loop)] = loop
  /\ cpc = "notifying" => data[Slot(loop)] = loop

IInv == TypeOK /\ ClientInv /\ PaceInv /\ SessionInv /\ DataInv

-----------------------------------------------------------------------------
(* Neighbours in the ring are different buffers. *)

LEMMA DivMod ==
  ASSUME NEW n \in Nat, n >= 2, NEW i \in Nat
  PROVE  /\ i % n \in 0 .. n - 1 /\ i \div n \in Nat
         /\ i = n * (i \div n) + (i % n)
  BY SMT

LEMMA NoMultipleIsOne == ASSUME NEW n \in Nat, n >= 2, NEW q \in Int PROVE n * q # 1
<1>1. CASE q <= 0
  BY <1>1, SMT
<1>2. CASE q >= 1
  BY <1>2, SMT
<1> QED
  BY <1>1, <1>2

LEMMA MultiplesApart ==
  ASSUME NEW n \in Nat, n >= 2, NEW a \in Nat, NEW b \in Nat, NEW r \in Nat
  PROVE  n * b + r # n * a + r + 1
<1> SUFFICES ASSUME n * b + r = n * a + r + 1 PROVE FALSE
  OBVIOUS
<1>1. n * a \in Int /\ n * b \in Int
  OBVIOUS
<1>2. n * b - n * a = 1
  BY <1>1
<1>3. n * (b - a) = n * b - n * a
  OBVIOUS
<1>4. b - a \in Int
  OBVIOUS
<1>5. n * (b - a) # 1
  BY <1>4, NoMultipleIsOne, Zenon
<1> QED
  BY <1>2, <1>3, <1>5, Zenon

LEMMA NeighboursDiffer ==
  ASSUME NEW i \in Nat
  PROVE  Slot(i) \in Slots /\ Slot(i + 1) # Slot(i)
<1> DEFINE n == BufferCount
<1>0. n \in Nat /\ n >= 2 /\ i + 1 \in Nat
  BY ExampleAssumption
<1>1. i % n \in 0 .. n - 1
  BY <1>0, DivMod
<1>2. i % n \in Nat /\ i \div n \in Nat /\ i = n * (i \div n) + (i % n)
  BY <1>0, DivMod
<1>3. (i + 1) \div n \in Nat /\ i + 1 = n * ((i + 1) \div n) + ((i + 1) % n)
  BY <1>0, DivMod
<1>4. (i + 1) % n # i % n
  BY <1>0, <1>2, <1>3, MultiplesApart
<1> QED
  BY <1>1, <1>4 DEF Slot, Slots

-----------------------------------------------------------------------------
(* The invariant is inductive. *)

LEMMA InitIInv == Init => IInv
<1> SUFFICES ASSUME Init PROVE IInv
  OBVIOUS
<1>1. TypeOK
  BY ExampleAssumption DEF Init, TypeOK, Done, None
<1>2. ClientInv /\ PaceInv /\ SessionInv /\ DataInv
  BY ExampleAssumption
  DEF Init, ClientInv, PaceInv, SessionInv, PrintedInOrder, InHand, DataInv
<1> QED
  BY <1>1, <1>2 DEF IInv

LEMMA ClientStep == ASSUME IInv, Client PROVE IInv'
<1>0. /\ TypeOK /\ loop \in Nat /\ scpu \in Nat /\ Loops \in Nat
      /\ UNCHANGED <<spc, printed, scpu, recv, sqp, data, faults>>
  BY ExampleAssumption DEF IInv, TypeOK, Client, serverVars
<1>1. TypeOK'
  BY <1>0 DEF TypeOK, Client, NextMessage, Notify, EndLoop, Leave, Exit, Fail, Done
<1>2. ClientInv' /\ PaceInv'
  BY <1>0
  DEF IInv, ClientInv, PaceInv, Client, NextMessage, Notify, EndLoop, Leave,
      Exit, Fail, Polled, TypeOK
<1>3. SessionInv'
  BY <1>0 DEF IInv, SessionInv, InHand, PrintedInOrder
<1>4. DataInv'
  BY <1>0
  DEF IInv, DataInv, Client, NextMessage, Notify, EndLoop, Leave, Exit, Fail,
      Polled, Slot
<1> QED
  BY <1>1, <1>2, <1>3, <1>4 DEF IInv

(* A write touches the buffer after the one last announced. *)
LEMMA WritesElsewhere ==
  ASSUME IInv, cpc = "writing"
  PROVE  /\ loop \in 1 .. Loops /\ Slot(loop) \in Slots
         /\ Slot(loop) # Slot(scpu)
<1>1. /\ loop \in 1 .. Loops /\ loop \in Nat /\ scpu \in Nat
      /\ loop = scpu + 1
  BY ExampleAssumption DEF IInv, TypeOK, ClientInv, PaceInv, Done
<1>2. Slot(scpu + 1) # Slot(scpu)
  BY <1>1, NeighboursDiffer
<1> QED
  BY <1>1, <1>2, NeighboursDiffer

LEMMA AdaptersStep == ASSUME IInv, Adapters PROVE IInv'
<1>0. /\ TypeOK /\ loop \in Nat /\ scpu \in Nat /\ Loops \in Nat
      /\ UNCHANGED <<cpc, loop, ccpu, spc, printed, sqp>>
  BY ExampleAssumption DEF IInv, TypeOK, Adapters, clientVars, serverVars
<1>1. CASE Place \/ Write
  <2>1. /\ cpc = "writing" /\ send = "posted"
        /\ UNCHANGED <<scpu, recv, faults, cqp>>
        /\ send' \in {"posted", "executed"}
        /\ \E m \in {None, loop} : data' = [data EXCEPT ![Slot(loop)] = m]
        /\ send' = "executed" => data' = [data EXCEPT ![Slot(loop)] = loop]
    BY <1>1 DEF Place, Write
  <2>2. /\ loop \in 1 .. Loops /\ Slot(loop) \in Slots
        /\ Slot(loop) # Slot(scpu)
    BY <2>1, WritesElsewhere
  <2>3. TypeOK'
    BY <1>0, <2>1, <2>2 DEF TypeOK, None
  <2>4. ClientInv' /\ PaceInv' /\ SessionInv'
    BY <1>0, <2>1
    DEF IInv, ClientInv, PaceInv, SessionInv, InHand, PrintedInOrder
  <2>5. data'[Slot(scpu)] = data[Slot(scpu)]
    BY <1>0, <2>1, <2>2 DEF TypeOK
  <2>6. send' = "executed" => data'[Slot(loop)] = loop
    BY <1>0, <2>1, <2>2 DEF TypeOK
  <2> HIDE DEF Slot
  <2>7. DataInv'
    BY <1>0, <2>1, <2>5, <2>6 DEF IInv, DataInv, Slot
  <2> QED
    BY <2>3, <2>4, <2>7 DEF IInv
<1>2. CASE Deliver
  <2>1. TypeOK'
    BY <1>0, <1>2 DEF TypeOK, Deliver
  <2>2. ClientInv' /\ PaceInv'
    BY <1>0, <1>2 DEF IInv, ClientInv, PaceInv, Deliver
  <2>3. SessionInv'
    <3>1. spc = "polling" /\ ~InHand /\ Len(printed) = scpu
      BY <1>2 DEF Deliver, IInv, SessionInv, InHand
    <3>2. scpu' = scpu + 1
      BY <1>0, <1>2 DEF Deliver, IInv, ClientInv, PaceInv, Done
    <3> QED
      BY <1>0, <1>2, <3>1, <3>2
      DEF Deliver, IInv, SessionInv, InHand, PrintedInOrder
  <2>4. DataInv'
    BY <1>0, <1>2, ExampleAssumption
    DEF IInv, DataInv, Deliver, ClientInv, Done, Slot
  <2> QED
    BY <2>1, <2>2, <2>3, <2>4 DEF IInv
<1>3. CASE Acknowledge \/ LinkFailure
  <2>1. TypeOK'
    BY <1>0, <1>3 DEF TypeOK, Acknowledge, LinkFailure
  <2>2. /\ UNCHANGED <<scpu, recv, data>> /\ send # "free"
        /\ send' = "err" \/ (send = "executed" /\ send' = "ok")
    BY <1>3 DEF Acknowledge, LinkFailure
  <2>3. ClientInv' /\ PaceInv' /\ SessionInv' /\ DataInv'
    BY <1>0, <2>2
    DEF IInv, ClientInv, PaceInv, SessionInv, InHand, PrintedInOrder, DataInv,
        Slot
  <2> QED
    BY <2>1, <2>3 DEF IInv
<1> QED
  BY <1>1, <1>2, <1>3 DEF Adapters, Carry

LEMMA ServerStep == ASSUME IInv, Server PROVE IInv'
<1>0. /\ TypeOK /\ scpu \in Nat /\ Loops \in Nat
      /\ UNCHANGED <<cpc, loop, ccpu, send, cqp, data, faults, scpu>>
  BY ExampleAssumption
  DEF IInv, TypeOK, Server, clientVars, PostRecv, Poll, HandleRequest,
      HandleDone
<1>1. ClientInv' /\ PaceInv' /\ DataInv'
  BY <1>0 DEF IInv, ClientInv, PaceInv, DataInv, Slot
<1>2. CASE PostRecv \/ Poll
  BY <1>0, <1>1, <1>2
  DEF IInv, TypeOK, SessionInv, InHand, PrintedInOrder, PostRecv, Poll
<1>3. CASE HandleRequest
  <2>1. /\ scpu \in 1 .. Loops /\ Len(printed) = scpu - 1 /\ recv = "free"
        /\ printed' = Append(printed, scpu) /\ spc' = "post"
        /\ UNCHANGED <<recv, sqp>>
    BY <1>0, <1>3 DEF HandleRequest, IInv, SessionInv, InHand, TypeOK
  <2>2. /\ printed' \in Seq(1 .. Loops) /\ Len(printed') = scpu
        /\ \A k \in 1 .. Len(printed') : printed'[k] = k
    BY <1>0, <2>1 DEF IInv, SessionInv, PrintedInOrder, TypeOK
  <2>3. TypeOK' /\ SessionInv'
    BY <1>0, <2>1, <2>2 DEF TypeOK, SessionInv, InHand, PrintedInOrder
  <2> QED
    BY <1>1, <2>3 DEF IInv
<1>4. CASE HandleDone
  BY <1>0, <1>1, <1>4
  DEF IInv, TypeOK, SessionInv, InHand, PrintedInOrder, HandleDone, Done
<1> QED
  BY <1>2, <1>3, <1>4 DEF Server

LEMMA StutterStep == ASSUME IInv, UNCHANGED vars PROVE IInv'
  BY DEF IInv, TypeOK, ClientInv, PaceInv, SessionInv, InHand, PrintedInOrder,
         DataInv, Slot, vars, clientVars, serverVars

-----------------------------------------------------------------------------
(* The theorems. *)

(* In every behaviour the state stays inside the inductive invariant.      *)
THEOREM Invariance == Spec => []IInv
<1>1. IInv /\ [Next]_vars => IInv'
  BY ClientStep, AdaptersStep, ServerStep, StutterStep DEF Next
<1> QED
  BY InitIInv, <1>1, PTL DEF Spec

(* Every variable keeps its type: no loop and no buffer beyond the last.   *)
THEOREM TypeCorrect == Spec => []TypeOK
<1>1. IInv => TypeOK
  BY DEF IInv
<1> QED
  BY Invariance, <1>1, PTL

(* The message of a request is whole while its handler runs, for every     *)
(* ring of at least two buffers.                                           *)
THEOREM HandlerSeesMessage == Spec => []MessageIntact
<1>1. IInv => MessageIntact
  BY DEF IInv, DataInv, MessageIntact
<1> QED
  BY Invariance, <1>1, PTL

(* No request is lost, printed twice or out of order, and a session that   *)
(* ended by the done notification has printed them all.                    *)
THEOREM AllInOrder == Spec => []PrintedInOrder
<1>1. IInv => PrintedInOrder
  BY DEF IInv, SessionInv
<1> QED
  BY Invariance, <1>1, PTL
=============================================================================
