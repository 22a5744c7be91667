-------------------------- MODULE VllmSessionProofs --------------------------
(***************************************************************************)
(* Proofs about VllmSession for every set of request ids and lengths,      *)
(* every capacity, any number of commands and of link failures.  The first *)
(* part holds with or without early placement: no queue overflows, and no  *)
(* completion that was read whole is visible before its data.  The second  *)
(* is about a path that carries a notification in one packet: it is read   *)
(* as it was sent, every Complete is recorded once and in order, and       *)
(* VllmSession implements TransferService.                                 *)
(***************************************************************************)
EXTENDS VllmSession, SequenceTheorems, TLAPS

(* The first part. *)

(* Whatever is in a cpu_buffer was serialized by a command already taken.  *)
CountInv ==
  /\ taken <= Len(accepted)
  /\ ccpu <= taken /\ scpu <= taken /\ landing <= taken

(* A slot is in use exactly while its owner polls for the completion, and  *)
(* the client's then holds the request of the last command taken.          *)
SlotInv ==
  /\ cpc # "polling" => send.st = "free"
  /\ cpc = "polling" => send.st # "free" /\ send.cmd = taken /\ taken > 0
  /\ (spc = "polling") <=> (recv.st # "free")

(* What the request in the client's slot is.  An error completion is only  *)
(* ever seen on a queue pair that has left RTS for good.                   *)
RequestInv ==
  cpc = "polling" =>
    /\ IsGoodSend(accepted[taken]) => send.op = "write"
    /\ send.op = "imm" => ccpu = taken
    /\ send.st = "err" => cqp = "ERR"

(* While the queue pair is up, the data of every Send taken is in the      *)
(* server's memory, but for the one that is still in the slot.             *)
InSlot(j) == j = taken /\ cpc = "polling" /\ send.st = "posted"

WriteInv ==
  cqp = "RTS" =>
    \A j \in 1 .. taken :
      IsGoodSend(accepted[j]) => (j \in written \/ InSlot(j))

(* A notification enters the server's buffer behind the data it announces, *)
(* whether or not its completion follows.                                  *)
NoteInv == SentBefore(scpu) /\ SentBefore(landing)

(* Where a write is one packet, nothing lands before its receive is there. *)
LandingInv == ~EarlyPlacement => landing = 0

IInv ==
  /\ TypeOK /\ CountInv /\ SlotInv /\ RequestInv /\ WriteInv /\ NoteInv
  /\ LandingInv /\ DataUnlessTorn

-----------------------------------------------------------------------------
(* Recording a request keeps the table a table and makes nothing visible   *)
(* but that request: the one step of add_req and remove_first together.    *)
LEMMA RecordReqFacts ==
  ASSUME NEW R, NEW t \in Tables(R), NEW r \in R,
         NEW u, u = RecordReq(t, r)
  PROVE  /\ u \in Tables(R)
         /\ u.set \subseteq t.set \cup {r}
<1> DEFINE v == AddReq(t, r)
<1>1. /\ t.fifo \in Seq(R) /\ t.set \in SUBSET R /\ t.cap \in Nat
  BY DEF Tables
<1>2. v \in Tables(R) /\ v.set = t.set \cup {r}
  <2>1. Append(t.fifo, r) \in Seq(R)
    BY <1>1
  <2>2. CapAfterPush(t) \in Nat
    BY <1>1 DEF CapAfterPush
  <2> QED
    BY <1>1, <2>1, <2>2 DEF AddReq, Tables
<1>3. u = EvictIfFull(v)
  BY DEF RecordReq
<1> HIDE DEF v
<1>4. CASE u = v
  BY <1>2, <1>4
<1>5. CASE u # v
  <2>1. v.fifo # << >> /\ v.fifo \in Seq(R) /\ v.set \in SUBSET R /\ v.cap \in Nat
    BY <1>2, <1>3, <1>5 DEF EvictIfFull, RemoveFirst, Tables
  <2>2. u = [fifo |-> Tail(v.fifo), set |-> v.set \ {Head(v.fifo)}, cap |-> v.cap]
    BY <1>3, <1>5, <2>1 DEF EvictIfFull, RemoveFirst
  <2>3. Tail(v.fifo) \in Seq(R)
    BY <2>1
  <2>4. u \in Tables(R) /\ u.set \subseteq v.set
    BY <2>1, <2>2, <2>3 DEF Tables
  <2> QED
    BY <1>2, <2>4
<1> QED
  BY <1>4, <1>5

-----------------------------------------------------------------------------
(* The history only grows. *)

Grows ==
  /\ accepted' \in Seq(Command) /\ Len(accepted) <= Len(accepted')
  /\ \A i \in Positions : accepted'[i] = accepted[i]
  /\ written \subseteq written'

LEMMA PositionsFacts ==
  ASSUME TypeOK
  PROVE  /\ Len(accepted) \in Nat
         /\ \A i \in Positions : accepted[i] \in Command
         /\ Announced \subseteq Positions
<1>1. Len(accepted) \in Nat /\ \A i \in Positions : accepted[i] \in Command
  BY DEF TypeOK, Positions
<1>2. \A i \in 1 .. Len(recorded) : recorded[i] \in Positions
  BY DEF TypeOK
<1> QED
  BY <1>1, <1>2 DEF Announced

LEMMA StillGrows ==
  ASSUME TypeOK, accepted' = accepted, written \subseteq written'
  PROVE  Grows
  BY PositionsFacts DEF Grows, TypeOK

LEMMA PositionsGrow ==
  ASSUME TypeOK, Grows
  PROVE  Positions \subseteq Positions'
  BY PositionsFacts DEF Grows, Positions, TypeOK

(* What was behind its data stays behind it. *)
LEMMA SentStaysSent ==
  ASSUME TypeOK, Grows, NEW k \in Nat, k <= Len(accepted), SentBefore(k)
  PROVE  SentBefore(k)'
<1> SUFFICES ASSUME NEW j \in Before(k), IsGoodSend(accepted'[j])
             PROVE  j \in written'
  BY DEF SentBefore, Before
<1>1. j \in Positions
  BY PositionsFacts DEF Before, Positions
<1>2. IsGoodSend(accepted[j])
  BY <1>1 DEF Grows, IsGoodSend
<1> QED
  BY <1>2 DEF SentBefore, Grows

LEMMA AnnouncedStays ==
  ASSUME TypeOK, Grows, DataUnlessTorn, UNCHANGED <<recorded, serverReqs>>
  PROVE  DataUnlessTorn'
<1>1. Announced' = Announced
  BY DEF Announced
<1>2. ASSUME NEW k \in Announced PROVE SentBefore(k)'
  <2>1. k \in Positions
    BY PositionsFacts
  <2>2. k \in Nat /\ k <= Len(accepted)
    BY <2>1, PositionsFacts DEF Positions
  <2> QED
    BY <2>2, SentStaysSent DEF DataUnlessTorn
<1>3. \A k \in Announced : accepted'[k].arg = accepted[k].arg
  BY PositionsFacts DEF Grows
<1>4. \A r \in serverReqs.set : r \in {accepted[k].arg : k \in Announced} \cup {TornId}
  BY DEF DataUnlessTorn
<1>5. \A r \in serverReqs'.set : r \in {accepted'[k].arg : k \in Announced'} \cup {TornId}
  BY <1>1, <1>3, <1>4
<1> QED
  BY <1>1, <1>2, <1>5 DEF DataUnlessTorn

LEMMA NoteStays ==
  ASSUME TypeOK, CountInv, Grows, NoteInv, UNCHANGED buffer
  PROVE  NoteInv'
<1>1. /\ scpu \in Nat /\ scpu <= Len(accepted)
      /\ landing \in Nat /\ landing <= Len(accepted)
      /\ scpu' = scpu /\ landing' = landing
  BY PositionsFacts DEF TypeOK, CountInv, buffer
<1>2. ASSUME NEW k \in Nat, k <= Len(accepted), SentBefore(k)
      PROVE  \A j \in Before(k) : IsGoodSend(accepted'[j]) => j \in written'
  <2>1. SentBefore(k)'
    BY <1>2, SentStaysSent
  <2> QED
    BY <2>1 DEF SentBefore
<1>3. \A j \in Before(scpu) : IsGoodSend(accepted'[j]) => j \in written'
  BY <1>1, <1>2 DEF NoteInv
<1>4. \A j \in Before(landing) : IsGoodSend(accepted'[j]) => j \in written'
  BY <1>1, <1>2 DEF NoteInv
<1> QED
  BY <1>1, <1>3, <1>4 DEF NoteInv, SentBefore, Before

-----------------------------------------------------------------------------
(* The invariant is inductive. *)

LEMMA InitIInv == Init => IInv
<1> SUFFICES ASSUME Init PROVE IInv
  OBVIOUS
<1>1. TypeOK
  <2>1. /\ NewReqs(TableSize) \in Tables(ReqIds)
        /\ NewReqs(TableSize) \in Tables(ReqIds \cup {TornId})
    BY SizesAssumption DEF NewReqs, Tables
  <2>2. /\ FreeSend \in [st : {"free", "posted", "executed", "ok", "err"},
                        op : {"none", "write", "read", "imm"}, cmd : Nat, size : Nat]
        /\ FreeRecv \in [st : {"free", "posted", "ok", "err"}, size : Nat, cmd : Nat]
        /\ NoImm \in [size : Nat, cmd : Nat]
    BY DEF FreeSend, FreeRecv, NoImm
  <2>3. /\ clientReqs \in Tables(ReqIds) /\ serverReqs \in Tables(ReqIds \cup {TornId})
        /\ send \in [st : {"free", "posted", "executed", "ok", "err"},
                     op : {"none", "write", "read", "imm"}, cmd : Nat, size : Nat]
        /\ recv \in [st : {"free", "posted", "ok", "err"}, size : Nat, cmd : Nat]
        /\ imm \in [size : Nat, cmd : Nat]
    BY <2>1, <2>2 DEF Init
  <2>4. /\ accepted \in Seq(Command) /\ recorded \in Seq(Positions)
        /\ written \subseteq Positions /\ fetched \subseteq Positions
    BY DEF Init
  <2>5. /\ sender \in {"open", "dropped"} /\ taken \in Nat
        /\ cpc \in {"idle", "polling", "disconnecting", "exited", "panicked"}
        /\ spc \in {"post", "polling", "decode", "disconnecting", "ended", "panicked",
                   "aborted"}
        /\ ccpu \in Nat /\ scpu \in Nat /\ landing \in Nat
        /\ cqp \in {"RTS", "ERR"} /\ sqp \in {"RTS", "ERR"} /\ faults \in Nat
    BY DEF Init
  <2> QED
    BY <2>3, <2>4, <2>5 DEF TypeOK
<1>2. CountInv /\ SlotInv /\ RequestInv /\ WriteInv
  BY DEF Init, CountInv, SlotInv, RequestInv, WriteInv, FreeSend, FreeRecv
<1>3. NoteInv /\ LandingInv
  BY DEF Init, NoteInv, LandingInv, SentBefore, Before
<1>4. DataUnlessTorn
  BY DEF Init, DataUnlessTorn, Announced, NewReqs
<1> QED
  BY <1>1, <1>2, <1>3, <1>4 DEF IInv

LEMMA TrySendStep ==
  ASSUME IInv, NEW cmd \in Command, TrySend(cmd)
  PROVE  IInv'
<1>0. TypeOK /\ CountInv /\ taken \in Nat /\ Len(accepted) \in Nat
  BY PositionsFacts DEF IInv, TypeOK
<1>1. /\ accepted' \in Seq(Command) /\ Len(accepted') = Len(accepted) + 1
      /\ \A i \in Positions : accepted'[i] = accepted[i]
  BY <1>0 DEF TrySend, TypeOK, Positions
<1>2. Grows
  <2>1. written' = written
    BY DEF TrySend, memory
  <2>2. Len(accepted) <= Len(accepted')
    BY <1>0, <1>1
  <2> QED
    BY <1>1, <2>1, <2>2 DEF Grows
<1>3. TypeOK'
  <2>1. recorded \in Seq(Positions')
    BY <1>0, <1>2, PositionsGrow, SeqMonotonic DEF TypeOK
  <2>2. written \subseteq Positions' /\ fetched \subseteq Positions'
    BY <1>0, <1>2, PositionsGrow DEF TypeOK
  <2> QED
    BY <1>0, <1>1, <2>1, <2>2
    DEF TypeOK, TrySend, clientVars, serverVars, buffer, memory
<1>4. CountInv' /\ SlotInv' /\ LandingInv'
  BY <1>0, <1>1 DEF IInv, CountInv, SlotInv, LandingInv, TrySend, clientVars,
                    serverVars, buffer
<1>5. \A j \in 1 .. taken : accepted'[j] = accepted[j]
  BY <1>0, <1>1 DEF CountInv, Positions
<1>6. RequestInv'
  <2>1. cpc = "polling" => taken \in 1 .. taken
    BY <1>0 DEF IInv, SlotInv
  <2> QED
    BY <1>5, <2>1 DEF IInv, RequestInv, TrySend, clientVars, IsGoodSend
<1>7. WriteInv'
  BY <1>5 DEF IInv, WriteInv, InSlot, TrySend, clientVars, memory, IsGoodSend
<1>8. NoteInv' /\ DataUnlessTorn'
  BY <1>0, <1>2, NoteStays, AnnouncedStays DEF IInv, TrySend, serverVars
<1> QED
  BY <1>3, <1>4, <1>6, <1>7, <1>8 DEF IInv

(* A step of the client that leaves the adapters and the history alone. *)
LEMMA ClientFrame ==
  ASSUME IInv, UNCHANGED <<accepted, written, recorded, serverReqs, buffer>>
  PROVE  Grows /\ NoteInv' /\ LandingInv' /\ DataUnlessTorn'
  BY StillGrows, NoteStays, AnnouncedStays DEF IInv, LandingInv, buffer

(* The cast to 16 bits loses nothing of a notification that fits the       *)
(* buffer, so the whole immediate is its size.                             *)
LEMMA ImmediateIsSize ==
  \A n \in Nat : n <= 65535 => Immediate(0, n) = n
  BY DEF Immediate

LEMMA FittingImmediate ==
  ASSUME NEW cmd \in Command, IsComplete(cmd) \/ IsDisconnect(cmd),
         IsComplete(cmd) => NotificationSize(cmd) <= CpuBufferSize
  PROVE  /\ NotificationSize(cmd) \in Nat
         /\ NotificationSize(cmd) <= CpuBufferSize
         /\ Immediate(0, NotificationSize(cmd)) = NotificationSize(cmd)
<1>0. CpuBufferSize \in Nat /\ 5 <= CpuBufferSize /\ CpuBufferSize <= 65535
  BY SizesAssumption
<1>1. NotificationSize(cmd) \in Nat /\ NotificationSize(cmd) <= CpuBufferSize
  <2>1. CASE IsDisconnect(cmd)
    BY <1>0, <2>1 DEF NotificationSize
  <2>2. CASE IsComplete(cmd)
    <3>1. ~IsDisconnect(cmd) /\ ReqLen[cmd.arg] \in Nat
      BY <2>2, ReqLenAssumption DEF IsComplete, IsDisconnect, Command
    <3> QED
      BY <2>2, <3>1 DEF NotificationSize
  <2> QED
    BY <2>1, <2>2
<1>2. NotificationSize(cmd) <= 65535
  BY <1>0, <1>1
<1> QED
  BY <1>1, <1>2, ImmediateIsSize

(* Each way of taking a command, as far as the invariant tells them apart. *)
LEMMA TakeOutcome ==
  ASSUME IInv, Take
  PROVE  /\ taken' = taken + 1 /\ taken + 1 \in Positions
         /\ cpc = "idle" /\ send.st = "free"
         /\ clientReqs' \in Tables(ReqIds)
         /\ ccpu' \in {ccpu, taken + 1}
         /\ \/ /\ cpc' \in {"idle", "panicked"} /\ send' = send
               /\ ~IsGoodSend(accepted[taken + 1])
            \/ /\ cpc' = "polling"
               /\ send'.st = "posted" /\ send'.cmd = taken + 1
               /\ send' \in [st : {"posted"}, op : {"write", "read", "imm"},
                             cmd : Nat, size : Nat]
               /\ IsGoodSend(accepted[taken + 1]) => send'.op = "write"
               /\ send'.op = "imm" => ccpu' = taken + 1
<1>0. /\ taken \in Nat /\ Len(accepted) \in Nat
      /\ clientReqs \in Tables(ReqIds)
  BY PositionsFacts DEF IInv, TypeOK
<1>1. PICK cmd \in Command :
        \/ TakeEmpty(cmd) \/ TakeTransfer(cmd) \/ TakeComplete(cmd)
        \/ TakeDisconnect(cmd) \/ TakePanics(cmd)
  BY DEF Take
<1>2. Takes(cmd)
  BY <1>1 DEF TakeEmpty, TakeTransfer, TakeComplete, TakeDisconnect, TakePanics
<1>3. /\ taken' = taken + 1 /\ taken + 1 \in Positions
      /\ cpc = "idle" /\ send.st = "free" /\ accepted[taken + 1] = cmd
  BY <1>0, <1>2 DEF Takes, Positions, IInv, SlotInv
<1>4. CASE TakeEmpty(cmd) \/ TakePanics(cmd)
  BY <1>0, <1>3, <1>4
  DEF TakeEmpty, TakePanics, IsGoodSend, IsTransfer, IsComplete
<1>5. CASE TakeTransfer(cmd)
  BY <1>0, <1>3, <1>5 DEF TakeTransfer, PostSend, IsGoodSend
<1>6. CASE TakeComplete(cmd)
  <2>1. cmd.arg \in ReqIds /\ NotificationSize(cmd) \in Nat
    BY <1>6, FittingImmediate
    DEF TakeComplete, IsComplete, IsDisconnect, Command
  <2>2. clientReqs' \in Tables(ReqIds)
    BY <1>0, <1>6, <2>1, RecordReqFacts DEF TakeComplete
  <2> QED
    BY <1>0, <1>3, <1>6, <2>1, <2>2, FittingImmediate
    DEF TakeComplete, PostSend, IsComplete, IsGoodSend
<1>7. CASE TakeDisconnect(cmd)
  BY <1>0, <1>3, <1>7, FittingImmediate
  DEF TakeDisconnect, PostSend, IsDisconnect, IsComplete, IsGoodSend
<1> QED
  BY <1>1, <1>4, <1>5, <1>6, <1>7

LEMMA TakeStep ==
  ASSUME IInv, Take
  PROVE  IInv'
<1>0. /\ TypeOK /\ taken \in Nat /\ ccpu \in Nat /\ scpu \in Nat
      /\ landing \in Nat /\ Len(accepted) \in Nat
  BY PositionsFacts DEF IInv, TypeOK
<1>1. UNCHANGED <<callerVars, cqp, serverVars, buffer, scpu, landing, recv, sqp,
                  memory, faults>>
  BY DEF Take, buffer
<1>2. /\ taken' = taken + 1 /\ taken + 1 \in Positions
      /\ cpc = "idle" /\ send.st = "free"
      /\ clientReqs' \in Tables(ReqIds)
      /\ ccpu' \in {ccpu, taken + 1}
  BY TakeOutcome
<1>3. NoteInv' /\ LandingInv' /\ DataUnlessTorn'
  BY <1>1, ClientFrame DEF callerVars, serverVars, memory
<1>4. CountInv'
  BY <1>0, <1>1, <1>2 DEF IInv, CountInv, callerVars, Positions
<1>5. ASSUME cqp = "RTS", NEW j \in 1 .. taken, IsGoodSend(accepted[j])
      PROVE  j \in written
  BY <1>2, <1>5 DEF IInv, WriteInv, InSlot
<1>6. 1 .. taken + 1 = (1 .. taken) \cup {taken + 1}
  BY <1>0
<1>7. CASE /\ cpc' \in {"idle", "panicked"} /\ send' = send
           /\ ~IsGoodSend(accepted[taken + 1])
  <2>1. TypeOK'
    BY <1>0, <1>1, <1>2, <1>7
    DEF TypeOK, callerVars, serverVars, memory, Positions
  <2>2. SlotInv' /\ RequestInv'
    BY <1>1, <1>2, <1>7 DEF IInv, SlotInv, RequestInv, serverVars
  <2>3. WriteInv'
    BY <1>1, <1>2, <1>5, <1>6, <1>7 DEF WriteInv, callerVars, memory
  <2> QED
    BY <2>1, <2>2, <2>3, <1>3, <1>4 DEF IInv
<1>8. CASE /\ cpc' = "polling"
           /\ send'.st = "posted" /\ send'.cmd = taken + 1
           /\ send' \in [st : {"posted"}, op : {"write", "read", "imm"},
                         cmd : Nat, size : Nat]
           /\ IsGoodSend(accepted[taken + 1]) => send'.op = "write"
           /\ send'.op = "imm" => ccpu' = taken + 1
  <2>1. TypeOK'
    BY <1>0, <1>1, <1>2, <1>8
    DEF TypeOK, callerVars, serverVars, memory, Positions
  <2>2. SlotInv'
    BY <1>0, <1>1, <1>2, <1>8 DEF IInv, SlotInv, serverVars
  <2>3. RequestInv'
    BY <1>1, <1>2, <1>8 DEF RequestInv, callerVars
  <2>4. WriteInv'
    BY <1>1, <1>2, <1>5, <1>6, <1>8 DEF WriteInv, InSlot, callerVars, memory
  <2> QED
    BY <2>1, <2>2, <2>3, <2>4, <1>3, <1>4 DEF IInv
<1> QED
  BY <1>7, <1>8, TakeOutcome

LEMMA OtherClientStep ==
  ASSUME IInv, \/ DropSender \/ PollSend \/ ClientDisconnect
               \/ ClientDisconnectFails \/ ChannelClosed
  PROVE  IInv'
<1>0. TypeOK /\ taken \in Nat /\ faults \in Nat
  BY DEF IInv, TypeOK
<1>1. UNCHANGED <<accepted, taken, clientReqs, ccpu, serverVars, buffer, scpu,
                  landing, recv, sqp, memory>>
  BY DEF DropSender, PollSend, ClientDisconnect, ClientDisconnectFails,
         ChannelClosed, callerVars, clientVars, buffer
<1>2. NoteInv' /\ LandingInv' /\ DataUnlessTorn' /\ CountInv'
  BY <1>1, ClientFrame DEF serverVars, memory, IInv, CountInv
<1>3. TypeOK'
  BY <1>0, <1>1
  DEF TypeOK, serverVars, memory, Positions, FreeSend,
      DropSender, PollSend, ClientDisconnect, ClientDisconnectFails,
      ChannelClosed, callerVars, clientVars
<1>4. CASE DropSender
  BY <1>1, <1>2, <1>3, <1>4
  DEF DropSender, IInv, SlotInv, RequestInv, WriteInv, InSlot, clientVars,
      serverVars, memory
<1>5. CASE PollSend
  <2>1. cpc' # "polling" /\ send' = FreeSend /\ cqp' = cqp /\ cpc = "polling"
    BY <1>5 DEF PollSend
  <2>2. SlotInv' /\ RequestInv'
    BY <1>1, <2>1 DEF IInv, SlotInv, RequestInv, FreeSend, serverVars
  <2>3. cqp = "RTS" => send.st # "posted"
    BY <1>5 DEF PollSend
  <2>4. WriteInv'
    BY <1>1, <2>1, <2>3 DEF IInv, WriteInv, InSlot, memory
  <2> QED
    BY <1>2, <1>3, <2>2, <2>4 DEF IInv
<1>6. CASE ClientDisconnect \/ ClientDisconnectFails
  <2>1. cpc = "disconnecting" /\ cpc' # "polling" /\ send' = send
        /\ cqp' \in {cqp, "ERR"}
    BY <1>6 DEF ClientDisconnect, ClientDisconnectFails
  <2> QED
    BY <1>1, <1>2, <1>3, <2>1
    DEF IInv, SlotInv, RequestInv, WriteInv, InSlot, serverVars, memory
<1>7. CASE ChannelClosed
  BY <1>1, <1>2, <1>3, <1>7
  DEF ChannelClosed, IInv, SlotInv, RequestInv, WriteInv, InSlot, serverVars,
      memory
<1> QED
  BY <1>4, <1>5, <1>6, <1>7

(* Every step of the adapters leaves the notifications in the buffer as    *)
(* they were, or brings the one whose request is in the slot.              *)
LEMMA AdaptersFrame ==
  ASSUME IInv, Adapters
  PROVE  /\ UNCHANGED <<callerVars, clientVars, serverVars>>
         /\ Grows
         /\ \/ UNCHANGED buffer
            \/ /\ {scpu', landing'} \subseteq {scpu, landing, taken, 0}
               /\ Connected /\ Sending("imm")
         /\ LandingInv'
<1>1. UNCHANGED <<callerVars, clientVars, serverVars>>
  BY DEF Adapters
<1>2. written \subseteq written'
  BY DEF Adapters, Carry, ExecuteWrite, ExecuteRead, DeliverImm, PlaceEarly,
         Acknowledge, RejectRange, LinkFailure, PeerSilent, FlushSend, FlushRecv,
         memory
<1>3. Grows
  BY <1>1, <1>2, StillGrows DEF IInv, callerVars
<1>4. CASE DeliverImm \/ PlaceEarly
  <2>1. /\ Connected /\ Sending("imm")
        /\ {scpu', landing'} \subseteq {scpu, landing, ccpu, 0}
        /\ EarlyPlacement \/ landing' = 0
    BY <1>4 DEF DeliverImm, PlaceEarly
  <2>2. ccpu = taken
    BY <2>1 DEF Sending, IInv, SlotInv, RequestInv
  <2> QED
    BY <1>1, <1>3, <2>1, <2>2 DEF LandingInv
<1>5. CASE ~(DeliverImm \/ PlaceEarly)
  <2>1. UNCHANGED buffer
    BY <1>5 DEF Adapters, Carry, ExecuteWrite, ExecuteRead, Acknowledge,
         RejectRange, LinkFailure, PeerSilent, FlushSend, FlushRecv
  <2> QED
    BY <1>1, <1>3, <2>1 DEF IInv, LandingInv, buffer
<1> QED
  BY <1>4, <1>5

LEMMA AdaptersType ==
  ASSUME IInv, Adapters
  PROVE  TypeOK'
<1>0. /\ TypeOK /\ UNCHANGED <<callerVars, clientVars, serverVars>>
      /\ scpu' \in Nat /\ landing' \in Nat
  BY AdaptersFrame DEF IInv, TypeOK, buffer
<1>1. send.st = "posted" => send.cmd \in Positions
  BY PositionsFacts DEF IInv, TypeOK, SlotInv, CountInv, Positions
<1>2. SUFFICES /\ send' \in [st : {"free", "posted", "executed", "ok", "err"},
                             op : {"none", "write", "read", "imm"},
                             cmd : Nat, size : Nat]
               /\ recv' \in [st : {"free", "posted", "ok", "err"},
                             size : Nat, cmd : Nat]
               /\ cqp' \in {"RTS", "ERR"} /\ sqp' \in {"RTS", "ERR"}
               /\ written' \subseteq Positions /\ fetched' \subseteq Positions
               /\ faults' \in Nat
  BY <1>0 DEF TypeOK, callerVars, clientVars, serverVars, Positions
<1>3. /\ send \in [st : {"free", "posted", "executed", "ok", "err"},
                    op : {"none", "write", "read", "imm"}, cmd : Nat, size : Nat]
      /\ recv \in [st : {"free", "posted", "ok", "err"}, size : Nat, cmd : Nat]
      /\ cqp \in {"RTS", "ERR"} /\ sqp \in {"RTS", "ERR"}
      /\ written \subseteq Positions /\ fetched \subseteq Positions /\ faults \in Nat
  BY <1>0 DEF TypeOK
<1>4. CASE ExecuteWrite \/ ExecuteRead \/ DeliverImm
  BY <1>1, <1>3, <1>4 DEF ExecuteWrite, ExecuteRead, DeliverImm, Sending, memory
<1>5. CASE Acknowledge \/ RejectRange \/ PeerSilent \/ FlushSend \/ FlushRecv
  BY <1>3, <1>5
  DEF Acknowledge, RejectRange, PeerSilent, FlushSend, FlushRecv, memory
<1>6. CASE PlaceEarly \/ LinkFailure
  BY <1>3, <1>6 DEF PlaceEarly, LinkFailure, memory
<1> QED
  BY <1>4, <1>5, <1>6 DEF Adapters, Carry

(* How a step of the adapters changes the client's slot.                   *)
LEMMA AdaptersSlot ==
  ASSUME IInv, Adapters
  PROVE  \/ send' = send /\ cqp' = cqp
         \/ /\ send.st \in {"posted", "executed"}
            /\ send'.op = send.op /\ send'.cmd = send.cmd
            /\ \/ send'.st = "err" /\ cqp' = "ERR"
               \/ /\ send'.st \in {"executed", "ok"} /\ cqp' = cqp
                  /\ send.op = "write" /\ send.st = "posted" =>
                       send.cmd \in written'
<1>0. /\ send \in [st : {"free", "posted", "executed", "ok", "err"},
                    op : {"none", "write", "read", "imm"}, cmd : Nat, size : Nat]
      /\ cqp \in {"RTS", "ERR"}
  BY DEF IInv, TypeOK
<1>1. CASE ExecuteWrite \/ ExecuteRead \/ DeliverImm \/ Acknowledge
  BY <1>0, <1>1
  DEF ExecuteWrite, ExecuteRead, DeliverImm, Acknowledge, Sending
<1>2. CASE RejectRange \/ PeerSilent \/ FlushSend \/ LinkFailure
  BY <1>0, <1>2 DEF RejectRange, PeerSilent, FlushSend, LinkFailure
<1>3. CASE FlushRecv \/ PlaceEarly
  BY <1>3 DEF FlushRecv, PlaceEarly
<1> QED
  BY <1>1, <1>2, <1>3 DEF Adapters, Carry

LEMMA AdaptersStep ==
  ASSUME IInv, Adapters
  PROVE  IInv'
<1>0. /\ TypeOK /\ taken \in Nat /\ Len(accepted) \in Nat
      /\ UNCHANGED <<callerVars, clientVars, serverVars>>
      /\ Grows
  BY PositionsFacts, AdaptersFrame DEF IInv, TypeOK
<1>1. TypeOK'
  BY AdaptersType
<1>2. CountInv'
  BY <1>0, AdaptersFrame DEF IInv, CountInv, callerVars, clientVars, buffer
<1>3. SlotInv'
  <2>1. recv' = recv \/ (recv.st = "posted" /\ recv'.st # "free")
    BY DEF IInv, TypeOK, Adapters, Carry, ExecuteWrite, ExecuteRead, DeliverImm,
           PlaceEarly, Acknowledge, RejectRange, LinkFailure, PeerSilent,
           FlushSend, FlushRecv
  <2>2. (spc = "polling") <=> (recv'.st # "free")
    BY <2>1 DEF IInv, SlotInv
  <2> QED
    BY <1>0, <2>2, AdaptersSlot DEF IInv, SlotInv, clientVars, serverVars
<1>4. RequestInv'
  BY <1>0, AdaptersSlot DEF IInv, SlotInv, RequestInv, callerVars, clientVars
<1>5. WriteInv'
  <2> SUFFICES ASSUME cqp' = "RTS", NEW j \in 1 .. taken,
                      IsGoodSend(accepted[j])
               PROVE  j \in written' \/ InSlot(j)'
    BY <1>0 DEF WriteInv, callerVars, clientVars
  <2>1. cqp = "RTS" /\ written \subseteq written'
    BY <1>0, AdaptersSlot DEF Grows, Adapters, Carry, ExecuteWrite, ExecuteRead,
           DeliverImm, PlaceEarly, Acknowledge, RejectRange, LinkFailure,
           PeerSilent, FlushSend, FlushRecv
  <2>2. j \in written \/ InSlot(j)
    BY <2>1 DEF IInv, WriteInv
  <2>3. CASE j \in written
    BY <2>1, <2>3
  <2>4. CASE InSlot(j)
    <3>1. send.op = "write" /\ send.cmd = j /\ send.st = "posted"
      BY <2>4 DEF InSlot, IInv, SlotInv, RequestInv
    <3> QED
      BY <1>0, <2>4, <3>1, AdaptersSlot DEF InSlot, clientVars
  <2> QED
    BY <2>2, <2>3, <2>4
<1>6. NoteInv'
  <2>1. CASE UNCHANGED buffer
    BY <1>0, <2>1, NoteStays DEF IInv
  <2>2. CASE /\ {scpu', landing'} \subseteq {scpu, landing, taken, 0}
             /\ Connected /\ Sending("imm")
    <3>1. ASSUME NEW j \in Before(taken), IsGoodSend(accepted[j])
          PROVE  j \in written
      <4>1. j \in 1 .. taken /\ j # taken
        BY <1>0 DEF Before
      <4> QED
        BY <2>2, <3>1, <4>1 DEF IInv, WriteInv, InSlot, Connected
    <3>2. \A k \in {scpu, landing, taken, 0} : SentBefore(k)
      BY <3>1 DEF IInv, NoteInv, SentBefore, Before
    <3>3. accepted' = accepted /\ written \subseteq written'
      BY <1>0 DEF callerVars, Grows
    <3>4. \A k \in {scpu, landing, taken, 0} :
            \A j \in Before(k) : IsGoodSend(accepted'[j]) => j \in written'
      BY <3>2, <3>3 DEF SentBefore
    <3> QED
      BY <2>2, <3>4 DEF NoteInv, SentBefore, Before
  <2> QED
    BY <2>1, <2>2, AdaptersFrame
<1>7. DataUnlessTorn'
  BY <1>0, AnnouncedStays DEF IInv, serverVars
<1> QED
  BY <1>1, <1>2, <1>3, <1>4, <1>5, <1>6, <1>7, AdaptersFrame DEF IInv

(* A step of the session task that records nothing. *)
QuietServer ==
  \/ PostRecv \/ PollRecv \/ DecodeFails \/ DecodeNothing \/ DecodeDone
  \/ ServerDisconnect \/ ServerDisconnectFails

(* What no step of the session task touches. *)
ServerFrame ==
  /\ UNCHANGED <<callerVars, clientVars, send, cqp, buffer, memory>>
  /\ faults' \in {faults, faults + 1}

LEMMA ServerSteps ==
  ASSUME Server
  PROVE  /\ ServerFrame
         /\ QuietServer \/ DecodeComplete \/ DecodeTorn
  BY DEF Server, Decode, ServerFrame, QuietServer, ServerDisconnectFails

LEMMA QuietServerStep ==
  ASSUME IInv, ServerFrame, QuietServer
  PROVE  IInv'
<1>0. /\ TypeOK /\ Grows /\ faults' \in Nat
      /\ UNCHANGED <<buffer, scpu, landing, serverReqs, recorded>>
      /\ UNCHANGED <<callerVars, clientVars, send, cqp, memory>>
  <2>1. UNCHANGED <<serverReqs, recorded>>
    BY DEF QuietServer, PostRecv, PollRecv, DecodeFails, DecodeNothing, DecodeDone,
           ServerDisconnect, ServerDisconnectFails
  <2> QED
    BY <2>1, StillGrows DEF IInv, TypeOK, ServerFrame, callerVars, memory, buffer
<1>1. TypeOK'
  <2>1. /\ spc' \in {"post", "polling", "decode", "disconnecting", "ended",
                     "panicked", "aborted"}
        /\ recv' \in [st : {"free", "posted", "ok", "err"}, size : Nat, cmd : Nat]
        /\ imm' \in [size : Nat, cmd : Nat]
        /\ sqp' \in {"RTS", "ERR"}
    <3>1. /\ recv \in [st : {"free", "posted", "ok", "err"}, size : Nat, cmd : Nat]
          /\ imm \in [size : Nat, cmd : Nat] /\ sqp \in {"RTS", "ERR"}
      BY <1>0 DEF TypeOK
    <3>2. CASE PostRecv \/ PollRecv
      BY <3>1, <3>2 DEF PostRecv, PollRecv, FreeRecv
    <3>3. CASE ~(PostRecv \/ PollRecv)
      BY <3>1, <3>3
      DEF QuietServer, DecodeFails, DecodeNothing, DecodeDone, ServerDisconnect,
          ServerDisconnectFails, NoImm
    <3> QED
      BY <3>2, <3>3
  <2> QED
    BY <1>0, <2>1 DEF TypeOK, Positions, callerVars, clientVars, memory
<1>2. SlotInv'
  BY <1>0
  DEF IInv, SlotInv, QuietServer, PostRecv, PollRecv, DecodeFails, DecodeNothing,
      DecodeDone, ServerDisconnect, ServerDisconnectFails, FreeRecv, clientVars
<1>3. CountInv' /\ RequestInv' /\ WriteInv' /\ LandingInv'
  BY <1>0 DEF IInv, CountInv, RequestInv, WriteInv, LandingInv, InSlot, callerVars,
              clientVars, memory
<1>4. NoteInv' /\ DataUnlessTorn'
  BY <1>0, NoteStays, AnnouncedStays DEF IInv
<1> QED
  BY <1>1, <1>2, <1>3, <1>4 DEF IInv

(* Reading a notification whole, announced or landing early. *)
LEMMA RecordStep ==
  ASSUME IInv, ServerFrame, DecodeComplete
  PROVE  IInv'
<1>1. PICK k \in InBuffer :
        /\ Readable(k) /\ IsComplete(accepted[k])
        /\ serverReqs' = RecordReq(serverReqs, accepted[k].arg)
        /\ recorded' = Append(recorded, k)
  BY DEF DecodeComplete
<1> DEFINE r == accepted[k].arg
<1>0. /\ TypeOK /\ Grows /\ UNCHANGED <<buffer, scpu, landing, recv, sqp>>
      /\ UNCHANGED <<callerVars, clientVars, send, cqp, memory>>
      /\ faults' \in Nat
      /\ spc = "decode" /\ spc' = "post" /\ imm' = NoImm
  BY StillGrows
  DEF IInv, TypeOK, DecodeComplete, ServerFrame, callerVars, memory, buffer
<1>2. k \in {scpu, landing} /\ k \in Positions /\ r \in ReqIds
  BY <1>1, PositionsFacts DEF IInv, InBuffer, Readable, IsComplete, Command
<1>3. /\ serverReqs' \in Tables(ReqIds \cup {TornId})
      /\ serverReqs'.set \subseteq serverReqs.set \cup {r}
  BY <1>0, <1>1, <1>2, RecordReqFacts DEF TypeOK
<1>4. recorded' \in Seq(Positions)
  BY <1>0, <1>1, <1>2 DEF TypeOK
<1>5. Announced' = Announced \cup {k}
  <2>1. /\ Len(recorded) \in Nat /\ Len(recorded') = Len(recorded) + 1
        /\ \A i \in 1 .. Len(recorded) : recorded'[i] = recorded[i]
        /\ recorded'[Len(recorded) + 1] = k
    BY <1>0, <1>1, <1>2 DEF TypeOK
  <2>2. 1 .. Len(recorded) + 1 = (1 .. Len(recorded)) \cup {Len(recorded) + 1}
    BY <2>1
  <2> QED
    BY <2>1, <2>2 DEF Announced
<1>6. TypeOK'
  BY <1>0, <1>3, <1>4
  DEF TypeOK, Positions, callerVars, clientVars, memory, NoImm
<1>7. CountInv' /\ SlotInv' /\ RequestInv' /\ WriteInv' /\ LandingInv'
  BY <1>0 DEF IInv, CountInv, SlotInv, RequestInv, WriteInv, LandingInv, InSlot,
              callerVars, clientVars, memory
<1>8. NoteInv'
  BY <1>0, NoteStays DEF IInv
<1>9. DataUnlessTorn'
  <2>1. \A a \in Announced' : SentBefore(a)
    BY <1>2, <1>5 DEF IInv, NoteInv, DataUnlessTorn
  <2>2. \A a \in Announced' : SentBefore(a)'
    BY <1>0, <2>1 DEF SentBefore, Before, callerVars, memory
  <2>3. \A q \in serverReqs'.set :
          q \in {accepted[a].arg : a \in Announced'} \cup {TornId}
    BY <1>3, <1>5 DEF IInv, DataUnlessTorn
  <2> QED
    BY <1>0, <2>2, <2>3 DEF DataUnlessTorn, callerVars
<1> QED
  BY <1>6, <1>7, <1>8, <1>9 DEF IInv

LEMMA TornStep ==
  ASSUME IInv, ServerFrame, DecodeTorn
  PROVE  IInv'
<1>0. /\ TypeOK /\ Grows /\ UNCHANGED <<buffer, scpu, landing, recv, sqp, recorded>>
      /\ UNCHANGED <<callerVars, clientVars, send, cqp, memory>>
      /\ faults' \in Nat
      /\ spc = "decode" /\ spc' = "post" /\ imm' = NoImm
  BY StillGrows
  DEF IInv, TypeOK, DecodeTorn, ServerFrame, callerVars, memory, buffer
<1>1. /\ serverReqs' \in Tables(ReqIds \cup {TornId})
      /\ serverReqs'.set \subseteq serverReqs.set \cup {TornId}
  BY <1>0, RecordReqFacts DEF DecodeTorn, TypeOK
<1>2. TypeOK'
  BY <1>0, <1>1
  DEF TypeOK, Positions, callerVars, clientVars, memory, NoImm
<1>3. CountInv' /\ SlotInv' /\ RequestInv' /\ WriteInv' /\ LandingInv'
  BY <1>0 DEF IInv, CountInv, SlotInv, RequestInv, WriteInv, LandingInv, InSlot,
              callerVars, clientVars, memory
<1>4. NoteInv'
  BY <1>0, NoteStays DEF IInv
<1>5. DataUnlessTorn'
  <2>1. Announced' = Announced
    BY <1>0 DEF Announced
  <2>2. \A a \in Announced' : SentBefore(a)'
    BY <1>0, <2>1
    DEF IInv, DataUnlessTorn, SentBefore, Before, callerVars, memory
  <2>3. \A q \in serverReqs'.set :
          q \in {accepted[a].arg : a \in Announced'} \cup {TornId}
    BY <1>1, <2>1 DEF IInv, DataUnlessTorn
  <2> QED
    BY <1>0, <2>2, <2>3 DEF DataUnlessTorn, callerVars
<1> QED
  BY <1>2, <1>3, <1>4, <1>5 DEF IInv

LEMMA StutterStep == ASSUME IInv, UNCHANGED vars PROVE IInv'
<1>1. UNCHANGED <<accepted, sender, taken, cpc, clientReqs, ccpu, send, cqp,
                  spc, serverReqs, imm, recorded, buffer, scpu, landing, recv,
                  sqp, written, fetched, faults>>
  BY DEF vars, callerVars, clientVars, serverVars, memory, buffer
<1>2. TypeOK' /\ CountInv' /\ SlotInv' /\ RequestInv' /\ WriteInv'
  BY <1>1 DEF IInv, TypeOK, Positions, CountInv, SlotInv, RequestInv, WriteInv,
              InSlot
<1>3. NoteInv' /\ LandingInv' /\ DataUnlessTorn'
  BY <1>1, ClientFrame
<1> QED
  BY <1>2, <1>3 DEF IInv

-----------------------------------------------------------------------------
(* The theorems. *)

(* In every behaviour the state stays inside the inductive invariant.      *)
THEOREM Invariance == Spec => []IInv
<1>1. IInv /\ [Next]_vars => IInv'
  <2> SUFFICES ASSUME IInv, [Next]_vars PROVE IInv'
    OBVIOUS
  <2>1. CASE \E cmd \in Command : TrySend(cmd)
    BY <2>1, TrySendStep
  <2>2. CASE DropSender
    BY <2>2, OtherClientStep
  <2>3. CASE Client
    BY <2>3, TakeStep, OtherClientStep DEF Client
  <2>4. CASE Adapters
    BY <2>4, AdaptersStep
  <2>5. CASE Server
    BY <2>5, ServerSteps, QuietServerStep, RecordStep, TornStep
  <2>6. CASE UNCHANGED vars
    BY <2>6, StutterStep
  <2> QED
    BY <2>1, <2>2, <2>3, <2>4, <2>5, <2>6 DEF Next
<1> QED
  BY InitIInv, <1>1, PTL DEF Spec

(* Every variable of the session keeps its type: in particular a position  *)
(* the server records, or data it receives, is always a queued command's.  *)
THEOREM TypeCorrect == Spec => []TypeOK
<1>1. IInv => TypeOK
  BY DEF IInv
<1> QED
  BY Invariance, <1>1, PTL

(* No post of a work request ever finds its one-slot queue full, neither   *)
(* in the client's worker nor in handle_notification, however requests     *)
(* fail: each owner empties its slot before it posts again.                *)
THEOREM SlotsNeverOverflow == Spec => []SlotsFree
<1>1. IInv => SlotsFree
  BY DEF IInv, SlotInv, SlotsFree
<1> QED
  BY Invariance, <1>1, PTL

(* Whatever is queued, fails or is placed early, the server's is_complete  *)
(* answers true for a request only with its data there, or for an id that  *)
(* it spliced from two notifications.                                      *)
THEOREM OnlyTornIdsLie == Spec => []DataUnlessTorn
<1>1. IInv => DataUnlessTorn
  BY DEF IInv
<1> QED
  BY Invariance, <1>1, PTL

-----------------------------------------------------------------------------
(* The second part: a notification lands whole, or not at all. *)

(* What the request in the client's slot stands for.                       *)
Requested ==
  cpc = "polling" =>
    /\ send.op \in {"write", "read", "imm"}
    /\ send.op = "write" => accepted[taken].op = "send"
    /\ send.op # "imm" => IsTransfer(accepted[taken]) /\ accepted[taken].arg # "empty"
    /\ IsGoodRecv(accepted[taken]) => send.op = "read"
    /\ IsComplete(accepted[taken]) => send.op = "imm"
    /\ send.op = "imm" => send.size = NotificationSize(accepted[taken])
    /\ send.st = "posted" => scpu < taken /\ taken \notin written

(* The server's end is given up only with or after the client's, or by the *)
(* session itself, and the session panics only then.                       *)
FailInv ==
  /\ recv.st = "err" => sqp = "ERR"
  /\ sqp = "ERR" => cqp = "ERR" \/ spc \in {"ended", "aborted"}
  /\ spc = "panicked" => cqp = "ERR"
  /\ spc = "ended" => sqp = "ERR"

(* As WriteInv and NoteInv, for the data of Recvs.                         *)
ReadInv ==
  cqp = "RTS" =>
    \A j \in 1 .. taken :
      IsGoodRecv(accepted[j]) => (j \in fetched \/ InSlot(j))

FetchInv == FetchedBefore(scpu)

(* A notification that the session has not decoded.                        *)
Undecoded == recv.st = "ok" \/ spc = "decode"

(* While the queue pair is up, a Complete the worker has taken is in the   *)
(* server's table, in its buffer, or in the slot; or it panicked on it.    *)
CompleteInv ==
  cqp = "RTS" =>
    \A j \in 1 .. taken :
      IsComplete(accepted[j]) =>
        \/ j \in Announced \/ InSlot(j) \/ (j = scpu /\ Undecoded)
        \/ cpc = "panicked" /\ NotificationSize(accepted[j]) > CpuBufferSize

DoneRead == spc \in {"disconnecting", "ended", "aborted"}

OrderInv ==
  /\ Announced \subseteq 1 .. scpu
  /\ written \subseteq 1 .. taken
  /\ Undecoded => scpu \notin Announced
  /\ DoneRead => scpu \in 1 .. taken /\ IsDisconnect(accepted[scpu])
  /\ Undecoded \/ DoneRead =>
       \A j \in Before(scpu) : IsComplete(accepted[j]) => j \in Announced
  /\ \A j \in 1 .. taken : IsDisconnect(accepted[j]) => j = taken /\ cpc # "idle"

FitInv == \A r \in clientReqs.set : 13 + ReqLen[r] <= CpuBufferSize

(* No id is spliced. *)
WholeInv == TornId \notin serverReqs.set

DInv ==
  /\ StableNotification /\ Requested /\ FailInv /\ ReadInv /\ FetchInv
  /\ CompleteInv /\ OrderInv /\ FitInv /\ WholeInv

(* On a link that never failed, with callers that behave.                  *)
HealthyInv ==
  Healthy =>
    /\ cpc # "panicked" /\ spc \notin {"panicked", "aborted"}
    /\ cqp = "ERR" => cpc = "exited"
    /\ sqp = "ERR" => spc = "ended"
    /\ DoneRead /\ cpc = "polling" => send.st \in {"executed", "ok"}

-----------------------------------------------------------------------------
(* DInv is inductive together with IInv. *)

LEMMA Facts ==
  ASSUME IInv
  PROVE  /\ taken \in Nat /\ scpu \in Nat /\ ccpu \in Nat /\ Len(accepted) \in Nat
         /\ scpu <= taken /\ taken <= Len(accepted)
         /\ Positions = 1 .. Len(accepted)
         /\ \A i \in Positions : accepted[i] \in Command
         /\ 1 .. taken \subseteq Positions /\ Before(scpu) \subseteq 1 .. taken
         /\ cpc = "polling" => taken \in 1 .. taken /\ send.cmd = taken
         /\ send.st # "free" => cpc = "polling"
         /\ recv.st # "free" => spc = "polling"
<1>1. /\ taken \in Nat /\ scpu \in Nat /\ ccpu \in Nat /\ Len(accepted) \in Nat
      /\ scpu <= taken /\ taken <= Len(accepted)
  BY PositionsFacts DEF IInv, TypeOK, CountInv
<1>2. 1 .. taken \subseteq Positions /\ Before(scpu) \subseteq 1 .. taken
  BY <1>1 DEF Positions, Before
<1> QED
  BY <1>1, <1>2, PositionsFacts DEF IInv, SlotInv, Positions

LEMMA InitDInv == Init => DInv
  BY DEF Init, DInv, StableNotification, Requested, FailInv, ReadInv, FetchInv,
         FetchedBefore, Before, CompleteInv, OrderInv, Undecoded, DoneRead,
         Announced, FitInv, WholeInv, FreeRecv, FreeSend, NewReqs

LEMMA TrySendD ==
  ASSUME IInv, DInv, NEW cmd \in Command, TrySend(cmd)
  PROVE  DInv'
<1>1. /\ UNCHANGED <<sender, clientVars, send, cqp, serverVars, buffer, recv, sqp,
                    memory, faults>>
      /\ \A i \in Positions : accepted'[i] = accepted[i]
      /\ Positions \subseteq Positions'
  BY Facts DEF TrySend, IInv, TypeOK, Positions
<1>2. /\ \A j \in 1 .. taken : accepted'[j] = accepted[j]
      /\ \A j \in Before(scpu) : accepted'[j] = accepted[j]
      /\ cpc = "polling" => accepted'[taken] = accepted[taken]
      /\ scpu \in Positions => accepted'[scpu] = accepted[scpu]
  BY <1>1, Facts
<1>3. UNCHANGED <<taken, cpc, clientReqs, ccpu, send, cqp, spc, serverReqs, imm,
                  recorded, scpu, landing, recv, sqp, written, fetched>>
  BY <1>1 DEF clientVars, serverVars, memory, buffer
<1>4. Announced' = Announced
  BY <1>3 DEF Announced
<1>5. StableNotification'
  BY <1>1, <1>2, <1>3
  DEF DInv, StableNotification, Holds, NotificationSize, IsDisconnect
<1>6. Requested' /\ FailInv' /\ FitInv' /\ WholeInv'
  BY <1>2, <1>3
  DEF DInv, Requested, FailInv, FitInv, WholeInv, IsTransfer, IsGoodRecv,
      IsComplete, NotificationSize, IsDisconnect
<1>7. ReadInv' /\ FetchInv'
  BY <1>2, <1>3 DEF DInv, ReadInv, InSlot, FetchInv, FetchedBefore, Before, IsGoodRecv
<1>8. CompleteInv'
  BY <1>2, <1>3, <1>4
  DEF DInv, CompleteInv, InSlot, Undecoded, IsComplete, NotificationSize, IsDisconnect
<1>9. OrderInv'
  BY <1>2, <1>3, <1>4
  DEF DInv, OrderInv, Undecoded, DoneRead, Before, IsComplete, IsDisconnect
<1> QED
  BY <1>5, <1>6, <1>7, <1>8, <1>9 DEF DInv

(* What DInv needs to know of the ways of taking a command, beyond         *)
(* TakeOutcome.                                                            *)
LEMMA TakeFacts ==
  ASSUME IInv, DInv, Take
  PROVE  /\ FitInv'
         /\ IsDisconnect(accepted[taken + 1]) => cpc' # "idle"
         /\ cpc' # "polling" =>
              /\ ~IsGoodRecv(accepted[taken + 1])
              /\ IsComplete(accepted[taken + 1]) =>
                   /\ cpc' = "panicked"
                   /\ NotificationSize(accepted[taken + 1]) > CpuBufferSize
         /\ cpc' = "polling" =>
              /\ send'.op = "write" => accepted[taken + 1].op = "send"
              /\ send'.op # "imm" => /\ IsTransfer(accepted[taken + 1])
                                     /\ accepted[taken + 1].arg # "empty"
              /\ IsGoodRecv(accepted[taken + 1]) => send'.op = "read"
              /\ IsComplete(accepted[taken + 1]) => send'.op = "imm"
              /\ send'.op = "imm" =>
                   send'.size = NotificationSize(accepted[taken + 1])
<1>0. /\ clientReqs \in Tables(ReqIds) /\ FitInv
      /\ cpc = "idle" /\ send.st = "free" /\ taken \in Nat
  BY TakeOutcome, Facts DEF IInv, TypeOK, DInv
<1>1. PICK cmd \in Command :
        \/ TakeEmpty(cmd) \/ TakeTransfer(cmd) \/ TakeComplete(cmd)
        \/ TakeDisconnect(cmd) \/ TakePanics(cmd)
  BY DEF Take
<1>2. accepted[taken + 1] = cmd
  BY <1>1 DEF Takes, TakeEmpty, TakeTransfer, TakeComplete, TakeDisconnect, TakePanics
<1>3. CASE TakeEmpty(cmd) \/ TakePanics(cmd)
  BY <1>0, <1>2, <1>3
  DEF TakeEmpty, TakePanics, FitInv, IsTransfer, IsGoodRecv, IsComplete, IsDisconnect
<1>4. CASE TakeTransfer(cmd)
  BY <1>0, <1>2, <1>4
  DEF TakeTransfer, PostSend, FitInv, IsTransfer, IsGoodRecv, IsComplete, IsDisconnect
<1>5. CASE TakeComplete(cmd)
  <2>1. /\ cmd.arg \in ReqIds /\ NotificationSize(cmd) = 13 + ReqLen[cmd.arg]
        /\ Immediate(0, NotificationSize(cmd)) = NotificationSize(cmd)
        /\ NotificationSize(cmd) <= CpuBufferSize
    BY <1>5, FittingImmediate
    DEF TakeComplete, IsComplete, IsDisconnect, Command, NotificationSize
  <2>2. clientReqs'.set \subseteq clientReqs.set \cup {cmd.arg}
    BY <1>0, <1>5, <2>1, RecordReqFacts DEF TakeComplete
  <2>3. FitInv'
    BY <1>0, <2>1, <2>2 DEF FitInv
  <2> QED
    BY <1>0, <1>2, <1>5, <2>1, <2>3
    DEF TakeComplete, PostSend, IsTransfer, IsGoodRecv, IsComplete, IsDisconnect
<1>6. CASE TakeDisconnect(cmd)
  <2>1. Immediate(0, NotificationSize(cmd)) = NotificationSize(cmd)
    BY <1>6, FittingImmediate DEF TakeDisconnect, IsComplete, IsDisconnect
  <2> QED
    BY <1>0, <1>2, <1>6, <2>1
    DEF TakeDisconnect, PostSend, FitInv, IsTransfer, IsGoodRecv, IsComplete,
        IsDisconnect
<1> QED
  BY <1>1, <1>3, <1>4, <1>5, <1>6

LEMMA TakeD ==
  ASSUME IInv, DInv, Take
  PROVE  DInv'
<1>1. /\ UNCHANGED <<accepted, cqp, spc, serverReqs, imm, recorded, scpu, landing,
                     recv, sqp, written, fetched>>
      /\ taken' = taken + 1 /\ taken + 1 \in Positions
      /\ cpc = "idle" /\ send.st = "free"
  BY TakeOutcome DEF Take, callerVars, serverVars, memory, buffer
<1>2. Announced' = Announced /\ Positions' = Positions
  BY <1>1 DEF Announced, Positions
<1>3. StableNotification' /\ FailInv' /\ FetchInv' /\ WholeInv'
  BY <1>1, <1>2
  DEF DInv, StableNotification, Holds, FailInv, FetchInv, FetchedBefore, WholeInv
<1>4. cpc' = "polling" => send'.op \in {"write", "read", "imm"}
  BY TakeOutcome
<1>5. Requested'
  BY <1>1, <1>4, Facts, TakeFacts DEF DInv, OrderInv, Requested
<1>6. 1 .. taken + 1 = (1 .. taken) \cup {taken + 1}
  BY Facts
<1>7. ~InSlot(taken) /\ (cpc' = "polling" => send'.st = "posted")
  BY <1>1, TakeOutcome DEF InSlot
<1>8. \A j \in 1 .. taken : ~InSlot(j)
  BY <1>1 DEF InSlot
<1>9. ReadInv'
  BY <1>1, <1>6, <1>7, <1>8, TakeFacts DEF DInv, ReadInv, InSlot
<1>10. CompleteInv'
  BY <1>1, <1>2, <1>6, <1>7, <1>8, TakeFacts DEF DInv, CompleteInv, InSlot, Undecoded
<1>11. OrderInv'
  <2>1. \A j \in 1 .. taken : ~IsDisconnect(accepted[j])
    BY <1>1 DEF DInv, OrderInv
  <2>2. \A j \in 1 .. taken + 1 : IsDisconnect(accepted[j]) => j = taken + 1 /\ cpc' # "idle"
    BY <1>6, <2>1, TakeFacts
  <2>3. written \subseteq 1 .. taken + 1
    BY <1>6 DEF DInv, OrderInv
  <2> QED
    BY <1>1, <1>2, <1>6, <2>2, <2>3 DEF DInv, OrderInv, Undecoded, DoneRead
<1> QED
  BY <1>3, <1>5, <1>9, <1>10, <1>11, TakeFacts DEF DInv

LEMMA OtherClientD ==
  ASSUME IInv, DInv, \/ DropSender \/ PollSend \/ ClientDisconnect
                     \/ ClientDisconnectFails \/ ChannelClosed
  PROVE  DInv'
<1>1. UNCHANGED <<accepted, taken, clientReqs, ccpu, spc, serverReqs, imm,
                  recorded, scpu, landing, recv, sqp, written, fetched>>
  BY DEF DropSender, PollSend, ClientDisconnect, ClientDisconnectFails,
         ChannelClosed, callerVars, clientVars, serverVars, memory, buffer
<1>2. Announced' = Announced /\ Positions' = Positions
  BY <1>1 DEF Announced, Positions
<1>3. StableNotification' /\ FetchInv' /\ FitInv' /\ WholeInv'
  BY <1>1, <1>2
  DEF DInv, StableNotification, Holds, FetchInv, FetchedBefore, FitInv, WholeInv
<1>4. /\ cqp' = "RTS" => cqp = "RTS"
      /\ cqp = "ERR" => cqp' = "ERR"
      /\ cpc' = "idle" => (cpc = "idle" \/ ~IsDisconnect(accepted[taken]))
      /\ cpc = "panicked" => cpc' = "panicked"
      /\ cpc' = "polling" => cpc = "polling" /\ send' = send
      /\ cqp' = "RTS" => \A j : InSlot(j) => InSlot(j)'
  BY <1>1
  DEF DropSender, PollSend, ClientDisconnect, ClientDisconnectFails, ChannelClosed,
      clientVars, InSlot, IInv, SlotInv, TypeOK
<1>5. Requested' /\ FailInv'
  BY <1>1, <1>4 DEF DInv, Requested, FailInv
<1>6. ReadInv' /\ CompleteInv'
  BY <1>1, <1>2, <1>4 DEF DInv, ReadInv, CompleteInv, Undecoded
<1>7. OrderInv'
  BY <1>1, <1>2, <1>4 DEF DInv, OrderInv, Undecoded, DoneRead
<1> QED
  BY <1>3, <1>5, <1>6, <1>7 DEF DInv

(* An adapter's step that moves no data and delivers nothing.              *)
LEMMA QuietAdapterD ==
  ASSUME IInv, DInv, UNCHANGED <<callerVars, clientVars, serverVars>>,
         Acknowledge \/ RejectRange \/ LinkFailure \/ PeerSilent
           \/ FlushSend \/ FlushRecv
  PROVE  DInv'
<1>1. UNCHANGED <<accepted, taken, cpc, clientReqs, ccpu, spc, serverReqs, imm,
                  recorded, scpu, landing, written, fetched>>
  BY DEF Acknowledge, RejectRange, LinkFailure, PeerSilent, FlushSend, FlushRecv,
         callerVars, clientVars, serverVars, memory, buffer
<1>2. Announced' = Announced /\ Positions' = Positions
  BY <1>1 DEF Announced, Positions
<1>3. FetchInv' /\ FitInv' /\ WholeInv'
  BY <1>1 DEF DInv, FetchInv, FetchedBefore, FitInv, WholeInv
<1>4. /\ cqp' = "RTS" => cqp = "RTS"
      /\ cqp = "ERR" => cqp' = "ERR"
      /\ sqp = "ERR" => sqp' = "ERR"
      /\ sqp' = "ERR" => sqp = "ERR" \/ cqp' = "ERR"
      /\ recv' = recv \/ (sqp = "ERR" /\ recv.st = "posted" /\ recv'.st = "err")
      /\ send' = send \/ (send.st # "free" /\ send'.st \in {"ok", "err"}
                           /\ send'.op = send.op /\ send'.size = send.size)
      /\ cqp' = "RTS" => send' = send \/ send.st = "executed"
  <2>1. /\ send \in [st : {"free", "posted", "executed", "ok", "err"},
                      op : {"none", "write", "read", "imm"}, cmd : Nat, size : Nat]
        /\ recv \in [st : {"free", "posted", "ok", "err"}, size : Nat, cmd : Nat]
    BY DEF IInv, TypeOK
  <2>2. CASE Acknowledge \/ FlushRecv
    BY <2>1, <2>2 DEF Acknowledge, FlushRecv
  <2>3. CASE RejectRange \/ LinkFailure \/ PeerSilent \/ FlushSend
    BY <2>1, <2>3 DEF RejectRange, LinkFailure, PeerSilent, FlushSend, Connected
  <2> QED
    BY <2>2, <2>3
<1>5. StableNotification' /\ FailInv'
  BY <1>1, <1>2, <1>4 DEF DInv, StableNotification, Holds, FailInv
<1>6. Requested'
  BY <1>1, <1>4 DEF DInv, Requested
<1>7. Undecoded' = Undecoded
  BY <1>1, <1>4 DEF Undecoded
<1>8. ReadInv' /\ CompleteInv'
  BY <1>1, <1>2, <1>4, <1>7 DEF DInv, ReadInv, CompleteInv, InSlot
<1>9. OrderInv'
  BY <1>1, <1>2, <1>7 DEF DInv, OrderInv, DoneRead
<1> QED
  BY <1>3, <1>5, <1>6, <1>8, <1>9 DEF DInv

LEMMA MoveDataD ==
  ASSUME IInv, DInv, UNCHANGED <<callerVars, clientVars, serverVars>>,
         ExecuteWrite \/ ExecuteRead
  PROVE  DInv'
<1>1. /\ UNCHANGED <<accepted, taken, cpc, clientReqs, ccpu, spc, serverReqs, imm,
                     recorded, scpu, landing, recv, cqp, sqp>>
      /\ send' = [send EXCEPT !.st = "executed"] /\ send.st = "posted"
      /\ written \subseteq written' /\ written' \subseteq written \cup {send.cmd}
      /\ fetched \subseteq fetched'
      /\ send.op \in {"write", "read"}
      /\ send.op = "read" => send.cmd \in fetched'
  BY DEF ExecuteWrite, ExecuteRead, Sending, callerVars, clientVars, serverVars,
         buffer
<1>2. cpc = "polling" /\ send.cmd = taken /\ taken \in 1 .. taken
  BY <1>1, Facts
<1>3. Announced' = Announced /\ Positions' = Positions
  BY <1>1 DEF Announced, Positions
<1>4. StableNotification' /\ FailInv' /\ FitInv' /\ WholeInv'
  BY <1>1, <1>3 DEF DInv, StableNotification, Holds, FailInv, FitInv, WholeInv
<1>5. FetchInv'
  BY <1>1 DEF DInv, FetchInv, FetchedBefore, Before
<1>6. /\ send'.st = "executed" /\ send'.op = send.op /\ send'.size = send.size
  BY <1>1 DEF IInv, TypeOK
<1>7. Requested'
  BY <1>1, <1>6 DEF DInv, Requested
<1>8. ASSUME NEW j \in 1 .. taken, IsGoodRecv(accepted[j]), InSlot(j)
      PROVE  j \in fetched'
  BY <1>1, <1>2, <1>8 DEF DInv, Requested, InSlot
<1>9. ReadInv'
  <2>1. cqp' = cqp /\ taken' = taken /\ accepted' = accepted
    BY <1>1
  <2>2. ASSUME cqp = "RTS", NEW j \in 1 .. taken, IsGoodRecv(accepted[j])
        PROVE  j \in fetched'
    BY <1>1, <1>8, <2>2 DEF DInv, ReadInv
  <2> QED
    BY <2>1, <2>2 DEF ReadInv
<1>10. \A j \in 1 .. taken : InSlot(j) => ~IsComplete(accepted[j])
  BY <1>1, <1>2 DEF DInv, Requested, InSlot
<1>11. CompleteInv'
  BY <1>1, <1>3, <1>10 DEF DInv, CompleteInv, Undecoded
<1>12. OrderInv'
  BY <1>1, <1>2, <1>3 DEF DInv, OrderInv, Undecoded, DoneRead
<1> QED
  BY <1>4, <1>5, <1>7, <1>9, <1>11, <1>12 DEF DInv

(* The delivery of a notification: nothing before it is outstanding.       *)
LEMMA DeliverD ==
  ASSUME IInv, DInv, UNCHANGED <<callerVars, clientVars, serverVars>>, DeliverImm
  PROVE  DInv'
<1>1. /\ UNCHANGED <<accepted, taken, cpc, clientReqs, ccpu, spc, serverReqs, imm,
                     recorded, cqp, sqp, written, fetched>>
      /\ scpu' = ccpu /\ landing' = 0
      /\ recv' = [st |-> "ok", size |-> send.size, cmd |-> send.cmd]
      /\ send' = [send EXCEPT !.st = "executed"]
      /\ send.st = "posted" /\ send.op = "imm" /\ recv.st = "posted"
      /\ cqp = "RTS" /\ sqp = "RTS"
  BY DEF DeliverImm, Sending, Connected, callerVars, clientVars, serverVars, memory
<1>2. /\ cpc = "polling" /\ spc = "polling" /\ taken \in 1 .. taken
      /\ taken \in Positions /\ scpu < taken /\ ccpu = taken
      /\ send.size = NotificationSize(accepted[taken]) /\ send.cmd = taken
  BY <1>1, Facts DEF DInv, Requested, IInv, RequestInv
<1>3. Announced' = Announced /\ Positions' = Positions
  BY <1>1 DEF Announced, Positions
<1>4. /\ send'.st = "executed" /\ send'.op = send.op /\ send'.size = send.size
  BY <1>1 DEF IInv, TypeOK
<1>5. StableNotification' /\ FailInv' /\ FitInv' /\ WholeInv'
  BY <1>1, <1>2, <1>3 DEF DInv, StableNotification, Holds, FailInv, FitInv, WholeInv
<1>6. Requested'
  BY <1>1, <1>4 DEF DInv, Requested
<1>7. ReadInv'
  BY <1>1, <1>2 DEF DInv, ReadInv, InSlot, Requested
<1>8. FetchInv'
  <2>1. \A j \in 1 .. taken - 1 : IsGoodRecv(accepted[j]) => j \in fetched
    BY <1>1, Facts DEF DInv, ReadInv, InSlot
  <2> QED
    BY <1>1, <1>2, <2>1 DEF FetchInv, FetchedBefore, Before
<1>9. \A j \in 1 .. taken : j # taken /\ IsComplete(accepted[j]) => j \in Announced
  BY <1>1, <1>2 DEF DInv, CompleteInv, InSlot, Undecoded
<1>10. CompleteInv'
  BY <1>1, <1>2, <1>3, <1>9 DEF CompleteInv, Undecoded
<1>11. OrderInv'
  <2>1. Announced \subseteq 1 .. taken /\ taken \notin Announced
    BY <1>2, Facts DEF DInv, OrderInv
  <2>2. Before(taken) \subseteq 1 .. taken /\ \A j \in Before(taken) : j # taken
    BY Facts DEF Before
  <2> QED
    BY <1>1, <1>2, <1>3, <1>9, <2>1, <2>2 DEF DInv, OrderInv, Undecoded, DoneRead
<1> QED
  BY <1>5, <1>6, <1>7, <1>8, <1>10, <1>11 DEF DInv

LEMMA AdaptersD ==
  ASSUME IInv, DInv, ~EarlyPlacement, Adapters
  PROVE  DInv'
  BY QuietAdapterD, MoveDataD, DeliverD DEF Adapters, Carry, PlaceEarly

(* The session's task finds the notification it was told of, alone.        *)
LEMMA AlwaysReadable ==
  ASSUME IInv, DInv, spc = "decode"
  PROVE  /\ InBuffer = {scpu} /\ Readable(scpu) /\ scpu \in Positions
         /\ ~DecodeFails /\ ~DecodeTorn /\ ~DecodeNothing
<1>1. /\ scpu \in Positions /\ landing = 0 /\ imm.size \in Nat
      /\ imm.size = NotificationSize(accepted[scpu])
  BY DEF DInv, StableNotification, Holds, IInv, TypeOK
<1>2. InBuffer = {scpu} /\ Readable(scpu)
  BY <1>1, Facts DEF InBuffer, Readable
<1>3. IsComplete(accepted[scpu]) => 13 + MixedLength(scpu, scpu) = imm.size
  <2> SUFFICES ASSUME IsComplete(accepted[scpu])
               PROVE  13 + MixedLength(scpu, scpu) = imm.size
    OBVIOUS
  <2>1. NotificationSize(accepted[scpu]) = 13 + ReqLen[accepted[scpu].arg]
    BY DEF NotificationSize, IsComplete, IsDisconnect
  <2>2. ReqLen[accepted[scpu].arg] \in Nat
    BY <1>1, Facts, ReqLenAssumption DEF IsComplete, Command
  <2>3. \A n \in Nat : 256 * (n \div 256) + (n % 256) = n
    OBVIOUS
  <2> QED
    BY <1>1, <2>1, <2>2, <2>3 DEF MixedLength
<1>4. ~DecodeFails
  BY <1>1, <1>2, <1>3 DEF DecodeFails, BothComplete
<1>5. ~DecodeTorn /\ ~DecodeNothing
  BY <1>2 DEF DecodeTorn, DecodeNothing, BothComplete, IsComplete, IsDisconnect
<1> QED
  BY <1>1, <1>2, <1>4, <1>5

LEMMA QuietServerD ==
  ASSUME IInv, DInv, ServerFrame, QuietServer
  PROVE  DInv'
<1>1. UNCHANGED <<accepted, taken, cpc, clientReqs, ccpu, send, cqp, serverReqs,
                  recorded, scpu, landing, written, fetched>>
  BY DEF QuietServer, PostRecv, PollRecv, DecodeFails, DecodeNothing, DecodeDone,
         ServerDisconnect, ServerDisconnectFails, ServerFrame, callerVars,
         clientVars, memory, buffer
<1>2. Announced' = Announced /\ Positions' = Positions
  BY <1>1 DEF Announced, Positions
<1>3. Requested' /\ ReadInv' /\ FetchInv' /\ FitInv' /\ WholeInv'
  BY <1>1
  DEF DInv, Requested, ReadInv, InSlot, FetchInv, FetchedBefore, FitInv, WholeInv
<1>4. ~DecodeFails /\ ~DecodeNothing
  BY AlwaysReadable DEF DecodeFails, DecodeNothing
<1>5. CASE PostRecv
  <2>1. /\ spc = "post" /\ spc' = "polling" /\ recv.st = "free"
        /\ recv'.st = "posted" /\ sqp' = sqp
    BY <1>5 DEF PostRecv, FreeRecv, IInv, SlotInv
  <2> QED
    BY <1>1, <1>2, <1>3, <2>1
    DEF DInv, StableNotification, FailInv, CompleteInv, OrderInv, Undecoded, DoneRead,
        InSlot
<1>6. CASE PollRecv
  <2>1. /\ spc = "polling" /\ recv'.st = "free" /\ sqp' = sqp
        /\ imm'.size = recv.size /\ imm'.cmd = recv.cmd
        /\ recv.st = "ok" => spc' = "decode"
        /\ recv.st # "ok" => recv.st = "err" /\ spc' = "panicked"
    BY <1>6 DEF PollRecv, FreeRecv
  <2>2. StableNotification' /\ FailInv' /\ Undecoded' = Undecoded
    BY <1>1, <1>2, <2>1 DEF DInv, StableNotification, Holds, FailInv, Undecoded
  <2> QED
    BY <1>1, <1>2, <1>3, <2>1, <2>2 DEF DInv, CompleteInv, OrderInv, DoneRead, InSlot
<1>7. CASE DecodeDone
  <2>1. /\ spc = "decode" /\ spc' = "disconnecting" /\ recv' = recv /\ sqp' = sqp
        /\ recv.st = "free"
    BY <1>7 DEF DecodeDone, IInv, SlotInv
  <2>2. IsDisconnect(accepted[scpu]) /\ scpu \in Positions
    BY <1>7, <2>1, AlwaysReadable DEF DecodeDone
  <2>3. ~IsComplete(accepted[scpu]) /\ scpu \in 1 .. taken
    BY <2>2, Facts DEF IsDisconnect, IsComplete
  <2>4. StableNotification' /\ FailInv' /\ CompleteInv'
    BY <1>1, <1>2, <2>1, <2>3
    DEF DInv, StableNotification, FailInv, CompleteInv, Undecoded, InSlot
  <2>5. OrderInv'
    BY <1>1, <1>2, <2>1, <2>2, <2>3 DEF DInv, OrderInv, Undecoded, DoneRead
  <2> QED
    BY <1>3, <2>4, <2>5 DEF DInv
<1>8. CASE ServerDisconnect \/ ServerDisconnectFails
  <2>1. /\ spc = "disconnecting" /\ recv' = recv /\ imm' = imm /\ recv.st = "free"
        /\ \/ spc' = "ended" /\ sqp' = "ERR"
           \/ spc' = "aborted" /\ sqp' \in {sqp, "ERR"}
    BY <1>8 DEF ServerDisconnect, ServerDisconnectFails, IInv, SlotInv
  <2> QED
    BY <1>1, <1>2, <1>3, <2>1
    DEF DInv, StableNotification, FailInv, CompleteInv, OrderInv, Undecoded, DoneRead,
        InSlot
<1> QED
  BY <1>4, <1>5, <1>6, <1>7, <1>8 DEF QuietServer

LEMMA RecordOutcome ==
  ASSUME IInv, DInv, DecodeComplete
  PROVE  /\ spc = "decode" /\ spc' = "post" /\ scpu \in Positions
         /\ IsComplete(accepted[scpu])
         /\ serverReqs' = RecordReq(serverReqs, accepted[scpu].arg)
         /\ recorded' = Append(recorded, scpu)
         /\ Announced' = Announced \cup {scpu}
<1>1. /\ spc = "decode" /\ spc' = "post" /\ scpu \in Positions
      /\ IsComplete(accepted[scpu])
      /\ serverReqs' = RecordReq(serverReqs, accepted[scpu].arg)
      /\ recorded' = Append(recorded, scpu)
  BY AlwaysReadable DEF DecodeComplete
<1>2. /\ Len(recorded) \in Nat /\ Len(recorded') = Len(recorded) + 1
      /\ \A i \in 1 .. Len(recorded) : recorded'[i] = recorded[i]
      /\ recorded'[Len(recorded) + 1] = scpu
  BY <1>1 DEF IInv, TypeOK
<1>3. 1 .. Len(recorded) + 1 = (1 .. Len(recorded)) \cup {Len(recorded) + 1}
  BY <1>2
<1> QED
  BY <1>1, <1>2, <1>3 DEF Announced

LEMMA RecordD ==
  ASSUME IInv, DInv, ServerFrame, DecodeComplete
  PROVE  DInv'
<1>1. /\ UNCHANGED <<accepted, taken, cpc, clientReqs, ccpu, send, cqp, scpu, landing,
                     recv, sqp, written, fetched>>
      /\ spc = "decode" /\ spc' = "post" /\ recv.st = "free" /\ scpu \in Positions
  BY RecordOutcome
  DEF DecodeComplete, ServerFrame, callerVars, clientVars, memory, buffer, IInv,
      SlotInv
<1>2. Announced' = Announced \cup {scpu} /\ Positions' = Positions
  BY <1>1, RecordOutcome DEF Positions
<1>3. Requested' /\ ReadInv' /\ FetchInv' /\ FitInv'
  BY <1>1 DEF DInv, Requested, ReadInv, InSlot, FetchInv, FetchedBefore, FitInv
<1>4. StableNotification' /\ FailInv'
  BY <1>1 DEF DInv, StableNotification, FailInv
<1>5. CompleteInv'
  BY <1>1, <1>2 DEF DInv, CompleteInv, Undecoded, InSlot
<1>6. OrderInv'
  <2>1. scpu \in 1 .. scpu
    BY <1>1, Facts
  <2> QED
    BY <1>1, <1>2, <2>1 DEF DInv, OrderInv, Undecoded, DoneRead
<1>7. WholeInv'
  <2>1. accepted[scpu].arg \in ReqIds
    BY <1>1, RecordOutcome, Facts DEF IsComplete, Command
  <2>2. serverReqs \in Tables(ReqIds \cup {TornId})
    BY DEF IInv, TypeOK
  <2>3. serverReqs'.set \subseteq serverReqs.set \cup {accepted[scpu].arg}
    BY <2>1, <2>2, RecordOutcome, RecordReqFacts
  <2> QED
    BY <2>1, <2>3, TornIdAssumption DEF DInv, WholeInv
<1> QED
  BY <1>3, <1>4, <1>5, <1>6, <1>7 DEF DInv

LEMMA StutterD == ASSUME DInv, UNCHANGED vars PROVE DInv'
<1>1. UNCHANGED <<accepted, sender, taken, cpc, clientReqs, ccpu, send, cqp,
                  spc, serverReqs, imm, recorded, scpu, landing, recv, sqp,
                  written, fetched, faults>>
  BY DEF vars, callerVars, clientVars, serverVars, memory, buffer
<1> QED
  BY <1>1
  DEF DInv, StableNotification, Holds, Requested, FailInv, ReadInv, FetchInv,
      FetchedBefore, Before, CompleteInv, OrderInv, Undecoded, DoneRead, Announced,
      FitInv, WholeInv, Positions, InSlot

LEMMA StepD ==
  ASSUME IInv, DInv, ~EarlyPlacement, [Next]_vars
  PROVE  DInv'
<1>1. CASE \E cmd \in Command : TrySend(cmd)
  BY <1>1, TrySendD
<1>2. CASE DropSender \/ Client
  BY <1>2, TakeD, OtherClientD DEF Client
<1>3. CASE Adapters
  BY <1>3, AdaptersD
<1>4. CASE Server
  BY <1>4, ServerSteps, QuietServerD, RecordD, AlwaysReadable DEF DecodeTorn
<1>5. CASE UNCHANGED vars
  BY <1>5, StutterD
<1> QED
  BY <1>1, <1>2, <1>3, <1>4, <1>5 DEF Next

-----------------------------------------------------------------------------
(* A link that works and callers that behave: nothing fails.               *)

LEMMA StaysHealthy ==
  ASSUME IInv, [Next]_vars, Healthy'
  PROVE  Healthy
<1>1. /\ Positions \subseteq Positions'
      /\ \A i \in Positions : accepted'[i] = accepted[i]
  <2>1. CASE \E cmd \in Command : TrySend(cmd)
    BY <2>1, Facts DEF TrySend, IInv, TypeOK, Positions
  <2>2. CASE accepted' = accepted
    BY <2>2 DEF Positions
  <2> QED
    BY <2>1, <2>2
    DEF Next, vars, callerVars, DropSender, Client, Take, PollSend,
        ClientDisconnect, ClientDisconnectFails, ChannelClosed, Adapters, Server
<1>2. faults' = faults \/ faults' = faults + 1
  BY ServerSteps
  DEF Next, vars, TrySend, DropSender, Client, Take, PollSend, ClientDisconnect,
      ClientDisconnectFails, ChannelClosed, Adapters, Carry, ExecuteWrite,
      ExecuteRead, DeliverImm, PlaceEarly, Acknowledge, RejectRange, LinkFailure,
      PeerSilent, FlushSend, FlushRecv, ServerFrame
<1>3. faults \in Nat
  BY DEF IInv, TypeOK
<1>4. \A i \in Positions : WellBehaved(accepted[i])
  BY <1>1 DEF Healthy, WellBehaved, IsTransfer, NotificationSize, IsDisconnect
<1> QED
  BY <1>2, <1>3, <1>4 DEF Healthy

LEMMA HealthyClient ==
  ASSUME IInv, DInv, Healthy, HealthyInv, DropSender \/ Client, Healthy'
  PROVE  HealthyInv'
<1>1. UNCHANGED <<accepted, spc, scpu, sqp>>
  BY DEF DropSender, Client, Take, PollSend, ClientDisconnect, ClientDisconnectFails,
         ChannelClosed, callerVars, serverVars, buffer
<1>2. DoneRead => scpu = taken /\ cpc # "idle"
  BY DEF DInv, OrderInv
<1>3. CASE Take
  <2>1. taken + 1 \in Positions /\ cpc = "idle" /\ cqp' = cqp
    BY <1>3, TakeOutcome DEF Take
  <2>2. cpc' # "panicked"
    <3>1. WellBehaved(accepted[taken + 1])
      BY <2>1 DEF Healthy
    <3>2. PICK cmd \in Command :
            \/ TakeEmpty(cmd) \/ TakeTransfer(cmd) \/ TakeComplete(cmd)
            \/ TakeDisconnect(cmd) \/ TakePanics(cmd)
      BY <1>3 DEF Take
    <3>3. ~TakePanics(cmd)
      <4> SUFFICES ASSUME TakePanics(cmd) PROVE FALSE
        OBVIOUS
      <4>1. /\ WellBehaved(cmd)
            /\ \/ IsTransfer(cmd) /\ cmd.arg = "unknown"
               \/ IsComplete(cmd) /\ NotificationSize(cmd) > CpuBufferSize
        BY <3>1 DEF TakePanics, Takes
      <4>2. IsComplete(cmd) => NotificationSize(cmd) \in Nat
        BY ReqLenAssumption
        DEF NotificationSize, IsComplete, IsDisconnect, Command
      <4> QED
        BY <4>1, <4>2, SizesAssumption DEF WellBehaved, IsTransfer, IsComplete
    <3>4. send.st = "free"
      BY <1>3, TakeOutcome
    <3> QED
      BY <2>1, <3>2, <3>3, <3>4
      DEF TakeEmpty, TakeTransfer, TakeComplete, TakeDisconnect, PostSend
  <2> QED
    BY <1>1, <1>2, <2>1, <2>2 DEF HealthyInv, DoneRead
<1>4. CASE PollSend
  <2>1. cpc = "polling" /\ send.st = "ok" /\ cqp' = cqp /\ taken' = taken
    BY <1>4 DEF PollSend, HealthyInv, IInv, RequestInv
  <2>2. cpc' \in {"idle", "disconnecting"}
    BY <1>4, <2>1 DEF PollSend
  <2> QED
    BY <1>1, <2>1, <2>2 DEF HealthyInv, DoneRead
<1>5. CASE DropSender \/ ClientDisconnect \/ ChannelClosed
  BY <1>1, <1>5
  DEF DropSender, ClientDisconnect, ChannelClosed, clientVars, HealthyInv, DoneRead
<1>6. ~ClientDisconnectFails
  BY DEF ClientDisconnectFails, Healthy, IInv, TypeOK
<1> QED
  BY <1>3, <1>4, <1>5, <1>6 DEF Client

LEMMA HealthyAdapters ==
  ASSUME IInv, DInv, Healthy, HealthyInv, ~EarlyPlacement, Adapters, Healthy'
  PROVE  HealthyInv'
<1>1. UNCHANGED <<accepted, taken, cpc, spc>>
  BY DEF Adapters, callerVars, clientVars, serverVars
<1>2. ~LinkFailure
  BY DEF LinkFailure, Healthy, IInv, TypeOK
<1>3. ~RejectRange
  <2> SUFFICES ASSUME RejectRange PROVE FALSE
    OBVIOUS
  <2>1. send.st = "posted" /\ send.op # "imm" /\ ~InRange
    BY DEF RejectRange
  <2>2. /\ cpc = "polling" /\ send.cmd = taken /\ taken \in Positions
        /\ IsTransfer(accepted[taken]) /\ accepted[taken].arg # "empty"
    BY <2>1, Facts DEF DInv, Requested
  <2> QED
    BY <2>1, <2>2 DEF Healthy, WellBehaved, InRange
<1>4. ~PeerSilent /\ ~FlushSend
  BY Facts DEF PeerSilent, FlushSend, HealthyInv, DoneRead
<1>5. CASE ExecuteWrite \/ ExecuteRead \/ Acknowledge \/ FlushRecv
  <2>1. /\ UNCHANGED <<cqp, sqp, scpu>>
        /\ send'.st = send.st \/ send'.st \in {"executed", "ok"}
    BY <1>5
    DEF ExecuteWrite, ExecuteRead, Acknowledge, FlushRecv, IInv, TypeOK, buffer
  <2> QED
    BY <1>1, <2>1 DEF HealthyInv, DoneRead
<1>6. CASE DeliverImm
  <2>1. UNCHANGED <<cqp, sqp>> /\ spc = "polling"
    BY <1>6, Facts DEF DeliverImm
  <2> QED
    BY <1>1, <2>1 DEF HealthyInv, DoneRead
<1> QED
  BY <1>2, <1>3, <1>4, <1>5, <1>6 DEF Adapters, Carry, PlaceEarly

LEMMA HealthyServer ==
  ASSUME IInv, DInv, Healthy, HealthyInv, Server, Healthy'
  PROVE  HealthyInv'
<1>1. UNCHANGED <<accepted, taken, cpc, send, cqp, scpu>>
  BY ServerSteps DEF ServerFrame, callerVars, clientVars, buffer
<1>2. ~DecodeFails /\ ~DecodeNothing /\ ~DecodeTorn
  BY AlwaysReadable DEF DecodeFails, DecodeNothing, DecodeTorn
<1>3. ~ServerDisconnectFails
  BY DEF ServerDisconnectFails, Healthy, IInv, TypeOK
<1>4. CASE PostRecv \/ DecodeComplete
  <2>1. sqp' = sqp /\ spc \in {"post", "decode"} /\ spc' \in {"polling", "post"}
    BY <1>4 DEF PostRecv, DecodeComplete, IInv, SlotInv
  <2> QED
    BY <1>1, <2>1 DEF HealthyInv, DoneRead
<1>5. CASE PollRecv
  <2>1. sqp' = sqp /\ spc = "polling" /\ spc' = "decode"
    BY <1>5 DEF PollRecv, HealthyInv, DInv, FailInv
  <2> QED
    BY <1>1, <2>1 DEF HealthyInv, DoneRead
<1>6. CASE DecodeDone
  <2>1. sqp' = sqp /\ spc = "decode" /\ spc' = "disconnecting"
    BY <1>6 DEF DecodeDone
  <2>2. IsDisconnect(accepted[scpu]) /\ scpu \in 1 .. taken
    BY <1>6, <2>1, AlwaysReadable, Facts DEF DecodeDone
  <2>3. scpu = taken
    BY <2>2 DEF DInv, OrderInv
  <2>4. cpc = "polling" => send.st \in {"executed", "ok"}
    BY <2>3, Facts
    DEF DInv, Requested, HealthyInv, IInv, SlotInv, RequestInv, TypeOK
  <2> QED
    BY <1>1, <2>1, <2>4 DEF HealthyInv
<1>7. CASE ServerDisconnect
  BY <1>1, <1>7 DEF ServerDisconnect, HealthyInv, DoneRead
<1> QED
  BY <1>2, <1>3, <1>4, <1>5, <1>6, <1>7, ServerSteps DEF QuietServer

LEMMA HealthyStep ==
  ASSUME IInv, DInv, HealthyInv, ~EarlyPlacement, [Next]_vars
  PROVE  HealthyInv'
<1> SUFFICES ASSUME Healthy' PROVE HealthyInv'
  BY DEF HealthyInv
<1>0. Healthy
  BY StaysHealthy
<1>1. CASE \E cmd \in Command : TrySend(cmd)
  <2>1. /\ UNCHANGED <<taken, cpc, spc, send, cqp, sqp, scpu>>
        /\ \A i \in Positions : accepted'[i] = accepted[i]
    BY <1>1 DEF TrySend, clientVars, serverVars, buffer, IInv, TypeOK, Positions
  <2> QED
    BY <1>0, <2>1 DEF HealthyInv, DoneRead
<1>2. CASE UNCHANGED vars
  <2>1. UNCHANGED <<accepted, taken, cpc, spc, send, cqp, sqp, scpu>>
    BY <1>2 DEF vars, callerVars, clientVars, serverVars, buffer
  <2> QED
    BY <1>0, <2>1 DEF HealthyInv, DoneRead
<1> QED
  BY <1>0, <1>1, <1>2, HealthyClient, HealthyAdapters, HealthyServer DEF Next

-----------------------------------------------------------------------------
(* The abstract service. *)

LEMMA ServiceInit == Init => Service!Init
  BY DEF Init, Service!Init

LEMMA AcceptRefines ==
  ASSUME NEW cmd \in Command, TrySend(cmd)
  PROVE  Service!Next
  BY DEF TrySend, serverVars, memory, Command, Service!Command, Service!Next,
         Service!Accept

(* The data of a Send arrives behind that of the Sends before it.          *)
LEMMA WriteRefines ==
  ASSUME IInv, DInv, ExecuteWrite, UNCHANGED <<callerVars, serverVars>>
  PROVE  Service!Next
<1>1. /\ send.st = "posted" /\ send.op = "write" /\ cqp = "RTS"
      /\ accepted[send.cmd].arg = "good"
      /\ written' = written \cup {send.cmd}
      /\ UNCHANGED <<accepted, recorded>>
  BY DEF ExecuteWrite, Sending, Connected, InRange, callerVars, serverVars
<1>2. /\ cpc = "polling" /\ send.cmd = taken /\ taken \in 1 .. Len(accepted)
      /\ IsGoodSend(accepted[taken]) /\ taken \notin written
  BY <1>1, Facts DEF DInv, Requested, IsGoodSend
<1>3. \A j \in 1 .. taken - 1 : IsGoodSend(accepted[j]) => j \in written
  BY <1>1, Facts DEF IInv, WriteInv, InSlot
<1>4. Service!Write(taken)
  BY <1>1, <1>2, <1>3
  DEF IsGoodSend, Service!IsGoodSend, Service!Write, Service!Before
<1> QED
  BY <1>2, <1>4 DEF Service!Next

(* A Complete is announced once, in order, and behind its data.            *)
LEMMA RecordRefines ==
  ASSUME IInv, DInv, DecodeComplete, ServerFrame
  PROVE  Service!Next
<1>1. /\ IsComplete(accepted[scpu]) /\ scpu \in 1 .. Len(accepted)
      /\ recorded' = Append(recorded, scpu) /\ spc = "decode"
      /\ UNCHANGED <<accepted, written>>
  BY Facts, RecordOutcome DEF ServerFrame, callerVars, memory
<1>2. /\ scpu \notin Announced
      /\ \A j \in Before(scpu) : IsComplete(accepted[j]) => j \in Announced
      /\ \A j \in Before(scpu) : IsGoodSend(accepted[j]) => j \in written
  BY <1>1 DEF DInv, OrderInv, Undecoded, IInv, NoteInv, SentBefore
<1>3. Service!Announced = Announced
  BY DEF Service!Announced, Announced
<1>4. Service!Announce(scpu)
  BY <1>1, <1>2, <1>3
  DEF IsComplete, Service!IsComplete, IsGoodSend, Service!IsGoodSend,
      Service!Announce, Service!Before, Before
<1> QED
  BY <1>1, <1>4 DEF Service!Next

LEMMA ServiceStep ==
  ASSUME IInv, DInv, [Next]_vars
  PROVE  [Service!Next]_(Service!svars)
<1>1. CASE \E cmd \in Command : TrySend(cmd)
  BY <1>1, AcceptRefines
<1>2. CASE DropSender \/ Client \/ UNCHANGED vars
  BY <1>2
  DEF DropSender, Client, Take, PollSend, ClientDisconnect, ClientDisconnectFails,
      ChannelClosed, vars, callerVars, serverVars, memory, Service!svars
<1>3. CASE Adapters
  <2>1. CASE ExecuteWrite
    BY <1>3, <2>1, WriteRefines DEF Adapters
  <2>2. CASE ~ExecuteWrite
    BY <1>3, <2>2
    DEF Adapters, Carry, ExecuteRead, DeliverImm, PlaceEarly, Acknowledge,
        RejectRange, LinkFailure, PeerSilent, FlushSend, FlushRecv, callerVars,
        serverVars, memory, Service!svars
  <2> QED
    BY <2>1, <2>2
<1>4. CASE Server
  <2>1. CASE DecodeComplete
    BY <1>4, <2>1, ServerSteps, RecordRefines
  <2>2. CASE ~DecodeComplete
    BY <1>4, <2>2, ServerSteps
    DEF ServerFrame, QuietServer, PostRecv, PollRecv, DecodeFails, DecodeTorn,
        DecodeNothing, DecodeDone, ServerDisconnect, ServerDisconnectFails,
        callerVars, memory, Service!svars
  <2> QED
    BY <2>1, <2>2
<1> QED
  BY <1>1, <1>2, <1>3, <1>4 DEF Next

-----------------------------------------------------------------------------
(* The theorems. *)

(* The states of a path without early placement stay inside both           *)
(* invariants.                                                             *)
THEOREM Delivery == ASSUME ~EarlyPlacement PROVE Spec => [](IInv /\ DInv)
<1>1. Init => IInv /\ DInv
  BY InitIInv, InitDInv
<1>2. (IInv /\ DInv) /\ [Next]_vars => (IInv /\ DInv)'
  <2>1. IInv /\ [Next]_vars => IInv'
    BY TrySendStep, OtherClientStep, TakeStep, AdaptersStep, ServerSteps,
       QuietServerStep, RecordStep, TornStep, StutterStep DEF Next, Client
  <2> QED
    BY <2>1, StepD
<1> QED
  BY <1>1, <1>2, PTL DEF Spec

(* The server decodes the notification whose completion it polled, whole,  *)
(* and no other: the posted receive is all that holds the client back, and *)
(* it suffices.                                                            *)
THEOREM NotificationIsStable ==
  ASSUME ~EarlyPlacement PROVE Spec => []StableNotification
<1>1. DInv => StableNotification
  BY DEF DInv
<1> QED
  BY <1>1, Delivery, PTL

(* On such a path the server's is_complete never answers true for a        *)
(* request whose data is not all there, whatever is queued and whatever    *)
(* fails.                                                                  *)
THEOREM CompletionImpliesData ==
  ASSUME ~EarlyPlacement PROVE Spec => []DataBeforeCompletion
<1>1. IInv /\ DInv => DataBeforeCompletion
  BY DEF IInv, DataUnlessTorn, DInv, WholeInv, DataBeforeCompletion
<1> QED
  BY <1>1, Delivery, PTL

(* However many failures and misused blocks, the worker never spins for a  *)
(* completion that nothing can produce any more.                           *)
THEOREM NoPollInVain ==
  ASSUME ~EarlyPlacement PROVE Spec => []PollIsAnswered
<1>1. ASSUME IInv, DInv, cpc = "polling"
      PROVE  send.st \in {"ok", "err"} \/ AdapterOwes \/ SessionWillPost
  <2>1. send.st \in {"posted", "executed", "ok", "err"}
    BY <1>1 DEF IInv, TypeOK, SlotInv
  <2>2. SUFFICES ASSUME Connected, send.st = "posted"
                 PROVE  recv.st = "posted" \/ SessionWillPost
    BY <2>1 DEF AdapterOwes
  <2>3. spc \notin {"ended", "panicked"}
    BY <1>1, <2>2 DEF Connected, DInv, FailInv
  <2>4. spc # "aborted"
    <3>1. ~(scpu \in 1 .. taken /\ scpu = taken)
      BY <1>1, <2>2, Facts DEF DInv, Requested
    <3> QED
      BY <1>1, <3>1 DEF DInv, OrderInv, DoneRead
  <2>5. spc = "polling" => recv.st \in {"posted", "ok", "err"}
    BY <1>1 DEF IInv, TypeOK, SlotInv
  <2> QED
    BY <1>1, <2>3, <2>4, <2>5 DEF SessionWillPost, IInv, TypeOK
<1> QED
  BY <1>1, Delivery, PTL DEF PollIsAnswered

(* A session that ends by the done notification has recorded every         *)
(* Complete and received the data of every transfer queued before it.      *)
THEOREM CleanEndIsComplete ==
  ASSUME ~EarlyPlacement PROVE Spec => []CleanEndDeliversAll
<1>1. IInv /\ DInv => CleanEndDeliversAll
  BY DEF IInv, NoteInv, DInv, OrderInv, DoneRead, FetchInv, CleanEndDeliversAll
<1> QED
  BY <1>1, Delivery, PTL

(* As long as its queue pair is up, the client's is_complete speaks the    *)
(* truth about both directions and about the server.                       *)
THEOREM ClientReports ==
  ASSUME ~EarlyPlacement PROVE Spec => []ClientReportIsTrue
<1>1. ASSUME IInv, DInv PROVE ClientReportIsTrue
  <2> SUFFICES ASSUME cqp = "RTS", NEW k \in 1 .. taken, IsComplete(accepted[k]),
                      ClientIsComplete(accepted[k].arg)
               PROVE  /\ SentBefore(k) /\ FetchedBefore(k)
                      /\ k \in Announced \/ InHand(k)
    BY <1>1 DEF ClientReportIsTrue
  <2>1. \A j \in Before(k) : j \in 1 .. taken /\ j # taken
    BY <1>1, Facts DEF Before
  <2>2. SentBefore(k) /\ FetchedBefore(k)
    BY <1>1, <2>1 DEF SentBefore, FetchedBefore, IInv, WriteInv, DInv, ReadInv, InSlot
  <2>3. ~InSlot(k)
    BY DEF InSlot, ClientIsComplete
  <2>4. NotificationSize(accepted[k]) = 13 + ReqLen[accepted[k].arg]
    BY DEF NotificationSize, IsComplete, IsDisconnect
  <2>5. /\ accepted[k].arg \in ReqIds /\ ReqLen[accepted[k].arg] \in Nat
        /\ 13 + ReqLen[accepted[k].arg] <= CpuBufferSize
    BY <1>1, Facts, ReqLenAssumption
    DEF ClientIsComplete, IsReqComplete, DInv, FitInv, IsComplete, Command
  <2>6. ~(NotificationSize(accepted[k]) > CpuBufferSize)
    BY <2>4, <2>5, SizesAssumption
  <2>7. k \in Announced \/ InHand(k)
    BY <1>1, <2>3, <2>6 DEF DInv, CompleteInv, Undecoded, InHand
  <2> QED
    BY <2>2, <2>7
<1> QED
  BY <1>1, Delivery, PTL

(* Nothing of the client ever lands in the server's cpu_buffer once the    *)
(* session's task has let go of it, however the session ended.             *)
THEOREM BufferOutlivesDelivery ==
  ASSUME ~EarlyPlacement PROVE Spec => LandsInLiveBuffer
<1>1. ASSUME IInv, [Next]_vars PROVE [buffer' # buffer => BufferLive]_vars
  <2> SUFFICES ASSUME buffer' # buffer PROVE BufferLive
    OBVIOUS
  <2>1. DeliverImm
    BY <1>1, ServerSteps
    DEF Next, vars, TrySend, DropSender, Client, Take, PollSend, ClientDisconnect,
        ClientDisconnectFails, ChannelClosed, Adapters, Carry, ExecuteWrite,
        ExecuteRead, PlaceEarly, Acknowledge, RejectRange, LinkFailure, PeerSilent,
        FlushSend, FlushRecv, ServerFrame
  <2> QED
    BY <1>1, <2>1, Facts DEF DeliverImm, BufferLive
<1> QED
  BY <1>1, Invariance, PTL DEF Spec, LandsInLiveBuffer

(* VllmSession implements TransferService: threads, slots, reused buffers  *)
(* and failures are all hidden behind its two promises.                    *)
THEOREM SessionImplementsService ==
  ASSUME ~EarlyPlacement PROVE Spec => ServiceSpec
<1>1. IInv /\ DInv /\ [Next]_vars => [Service!Next]_(Service!svars)
  BY ServiceStep
<1> QED
  BY <1>1, ServiceInit, Delivery, PTL DEF Spec, ServiceSpec, Service!Spec

(* On a link that works, with callers that stay inside their buffers and   *)
(* use ids that fit, no unwrap of either thread ever fails.                *)
THEOREM NoPanics ==
  ASSUME ~EarlyPlacement PROVE Spec => []NoPanicOnHealthyLink
<1>1. Init => HealthyInv
  BY DEF Init, HealthyInv
<1>2. IInv /\ DInv /\ HealthyInv /\ [Next]_vars => HealthyInv'
  BY HealthyStep
<1>3. HealthyInv => NoPanicOnHealthyLink
  BY DEF HealthyInv, Healthy, NoPanicOnHealthyLink
<1> QED
  BY <1>1, <1>2, <1>3, Delivery, PTL DEF Spec
=============================================================================
