----------------------------- MODULE VllmSession -----------------------------
(***************************************************************************)
(* One connection of the vLLM connector after its handshake: the caller    *)
(* that queues commands, the client's worker thread (vllm/client.rs), the  *)
(* two adapters of a reliable connected queue pair, and the server's       *)
(* session task (vllm/server.rs), which learns of completed requests from  *)
(* notifications written into its cpu_buffer.                              *)
(*                                                                         *)
(* Both sides create their queue pair with room for one work request each  *)
(* way, so a send queue or a receive queue is a single slot here: free, or *)
(* a posted request, or its completion that nobody has polled yet.         *)
(*                                                                         *)
(* A cpu_buffer holds the notification last serialized or written into it, *)
(* named by the position of its command; 0 stands for what the handshake   *)
(* left there.  A write of several packets may be half done: then bytes of *)
(* a second notification cover part of the first.                          *)
(***************************************************************************)
EXTENDS Commands, CompletionReqs

CONSTANTS
  TornId,          (* an id read out of two notifications, whatever it is   *)
  TableSize,       (* capacity of the completion tables; 1024 in the code   *)
  QueueCap,        (* capacity of the command channel; 2^30 in the code     *)
  CpuBufferSize,   (* CPU_BUFFER_BASE_SIZE                                  *)
  EarlyPlacement,  (* may a write's first packets land before its immediate *)
                   (* finds a receive?  So on a path MTU below the 4096     *)
                   (* bytes of every notification write                     *)
  MaxCmds,         (* bound: commands queued in a behaviour                 *)
  MaxFaults        (* bound: failures of the link or of rdma_disconnect     *)

ASSUME TornIdAssumption == TornId \notin ReqIds
ASSUME SizesAssumption ==
  /\ TableSize \in Nat \ {0} /\ QueueCap \in Nat \ {0}
  /\ CpuBufferSize \in Nat
  /\ 5 <= CpuBufferSize /\ CpuBufferSize <= 65535   \* holds Notification::complete()
  /\ EarlyPlacement \in BOOLEAN
  /\ MaxCmds \in Nat /\ MaxFaults \in Nat

VARIABLES
  (* the caller and the channel *)
  accepted,    (* every command the channel took, in order                  *)
  taken,       (* how many of them the worker has received                  *)
  sender,      (* the sending half of the channel: "open" or "dropped"      *)
  (* the client's worker and its adapter *)
  cpc,         (* where the worker is                                       *)
  clientReqs,  (* the client's CompletionReqs                               *)
  ccpu,        (* the client's cpu_buffer                                   *)
  send,        (* the slot of the client's send queue                       *)
  cqp,         (* state of the client's queue pair                          *)
  (* the server's session task and its adapter *)
  spc,         (* where the task is                                         *)
  serverReqs,  (* the server's CompletionReqs                               *)
  scpu,        (* the server's cpu_buffer                                   *)
  landing,     (* the notification that is landing over it, or 0            *)
  recv,        (* the slot of the server's receive queue                    *)
  imm,         (* the completion the task polled: the size, and (which only *)
               (* the properties look at) the command that was announced    *)
  sqp,         (* state of the server's queue pair                          *)
  (* what has happened *)
  written,     (* the Sends whose data is in the server's memory            *)
  fetched,     (* the Recvs whose data is in the client's memory            *)
  recorded,    (* the Completes the server put in its table, in order       *)
  faults       (* failures so far                                           *)

callerVars == <<accepted, sender>>
clientVars == <<taken, cpc, clientReqs, ccpu>>
serverVars == <<spc, serverReqs, imm, recorded>>
buffer     == <<scpu, landing>>
memory     == <<written, fetched>>
vars == <<callerVars, clientVars, send, cqp, serverVars, buffer, recv, sqp,
          memory, faults>>

FreeSend == [st |-> "free", op |-> "none", cmd |-> 0, size |-> 0]
FreeRecv == [st |-> "free", size |-> 0, cmd |-> 0]
NoImm == [size |-> 0, cmd |-> 0]

Positions == 1 .. Len(accepted)

TypeOK ==
  /\ accepted \in Seq(Command) /\ sender \in {"open", "dropped"}
  /\ taken \in Nat
  /\ cpc \in {"idle", "polling", "disconnecting", "exited", "panicked"}
  /\ spc \in {"post", "polling", "decode", "disconnecting", "ended", "panicked",
              "aborted"}
  /\ clientReqs \in Tables(ReqIds) /\ serverReqs \in Tables(ReqIds \cup {TornId})
  /\ ccpu \in Nat /\ scpu \in Nat /\ landing \in Nat
  /\ imm \in [size : Nat, cmd : Nat]
  /\ send \in [st : {"free", "posted", "executed", "ok", "err"},
               op : {"none", "write", "read", "imm"}, cmd : Nat, size : Nat]
  /\ recv \in [st : {"free", "posted", "ok", "err"}, size : Nat, cmd : Nat]
  /\ cqp \in {"RTS", "ERR"} /\ sqp \in {"RTS", "ERR"}
  /\ written \subseteq Positions /\ fetched \subseteq Positions
  /\ recorded \in Seq(Positions)
  /\ faults \in Nat

Init ==
  /\ accepted = << >> /\ taken = 0 /\ sender = "open"
  /\ cpc = "idle" /\ clientReqs = NewReqs(TableSize) /\ ccpu = 0
  /\ send = FreeSend /\ cqp = "RTS"
  /\ spc = "post" /\ serverReqs = NewReqs(TableSize)
  /\ scpu = 0 /\ landing = 0
  /\ recv = FreeRecv /\ imm = NoImm /\ sqp = "RTS"
  /\ written = {} /\ fetched = {} /\ recorded = << >> /\ faults = 0

-----------------------------------------------------------------------------
(* The caller.  send, recv, complete and shutdown all try_send a command.  *)
(* A full channel, or one whose worker is gone, refuses it: that is logged *)
(* and changes nothing.                                                    *)

WorkerGone == cpc \in {"exited", "panicked"}

TrySend(cmd) ==
  /\ sender = "open" /\ ~WorkerGone
  /\ Len(accepted) - taken < QueueCap
  /\ Len(accepted) < MaxCmds
  /\ accepted' = Append(accepted, cmd)
  /\ UNCHANGED <<sender, clientVars, send, cqp, serverVars, buffer, recv, sqp,
                 memory, faults>>

(* The client object is dropped, or its connect is called again. *)
DropSender ==
  /\ sender = "open"
  /\ sender' = "dropped"
  /\ UNCHANGED <<accepted, clientVars, send, cqp, serverVars, buffer, recv, sqp,
                 memory, faults>>

-----------------------------------------------------------------------------
(* The client's worker thread. *)

Takes(cmd) ==
  /\ cpc = "idle" /\ taken < Len(accepted)
  /\ cmd = accepted[taken + 1]
  /\ taken' = taken + 1

(* write_metadata packs a slot above the size, cast to 16 bits; every      *)
(* caller passes slot 0, and the receivers take the whole word as a size.  *)
Immediate(offset, size) == 65536 * offset + (size % 65536)

(* Posting the work request of the command just taken.  With the slot in   *)
(* use rdma_post_* fails; the worker logs that, except for the done        *)
(* notification, whose result is unwrapped.                                *)
PostSend(cmd, op, size) ==
  IF send.st = "free"
    THEN /\ send' = [st |-> "posted", op |-> op, cmd |-> taken + 1, size |-> size]
         /\ cpc' = "polling"
    ELSE /\ cpc' = IF IsDisconnect(cmd) THEN "panicked" ELSE "idle"
         /\ UNCHANGED send

(* A block of size 0 falls through to the last arm of the match. *)
TakeEmpty(cmd) ==
  /\ Takes(cmd) /\ IsTransfer(cmd) /\ cmd.arg = "empty"
  /\ UNCHANGED <<cpc, clientReqs, ccpu, send>>

TakeTransfer(cmd) ==
  /\ Takes(cmd) /\ IsTransfer(cmd) /\ cmd.arg \in {"good", "outside"}
  /\ PostSend(cmd, IF cmd.op = "send" THEN "write" ELSE "read", 0)
  /\ UNCHANGED <<clientReqs, ccpu>>

(* The notification is serialized, the request recorded on this side, and  *)
(* the whole buffer written to the server with the size as immediate data. *)
TakeComplete(cmd) ==
  /\ Takes(cmd) /\ IsComplete(cmd)
  /\ NotificationSize(cmd) <= CpuBufferSize
  /\ ccpu' = taken + 1
  /\ clientReqs' = RecordReq(clientReqs, cmd.arg)
  /\ PostSend(cmd, "imm", Immediate(0, NotificationSize(cmd)))

TakeDisconnect(cmd) ==
  /\ Takes(cmd) /\ IsDisconnect(cmd)
  /\ ccpu' = taken + 1
  /\ PostSend(cmd, "imm", Immediate(0, NotificationSize(cmd)))
  /\ UNCHANGED clientReqs

(* HashMap::get(..).unwrap() on a base pointer nobody registered, or       *)
(* serialize_into(..).unwrap() of a notification larger than the buffer.   *)
TakePanics(cmd) ==
  /\ Takes(cmd)
  /\ \/ IsTransfer(cmd) /\ cmd.arg = "unknown"
     \/ IsComplete(cmd) /\ NotificationSize(cmd) > CpuBufferSize
  /\ cpc' = "panicked"
  /\ UNCHANGED <<clientReqs, ccpu, send>>

Take ==
  /\ \E cmd \in Command :
       \/ TakeEmpty(cmd) \/ TakeTransfer(cmd) \/ TakeComplete(cmd)
       \/ TakeDisconnect(cmd) \/ TakePanics(cmd)
  /\ UNCHANGED <<callerVars, cqp, serverVars, buffer, recv, sqp, memory, faults>>

(* Variant: the worker does not wait for the completion. *)
PollSendAtOnce ==
  /\ cpc = "polling"
  /\ cpc' = IF IsDisconnect(accepted[taken]) THEN "disconnecting" ELSE "idle"
  /\ send' = IF send.st \in {"ok", "err"} THEN FreeSend ELSE send
  /\ UNCHANGED <<callerVars, taken, clientReqs, ccpu, cqp, serverVars, buffer,
                 recv, sqp, memory, faults>>

(* Variant: the worker goes on polling when the completion is an error. *)
PollSendSuccess ==
  /\ cpc = "polling" /\ send.st = "ok"
  /\ cpc' = IF IsDisconnect(accepted[taken]) THEN "disconnecting" ELSE "idle"
  /\ send' = FreeSend
  /\ UNCHANGED <<callerVars, taken, clientReqs, ccpu, cqp, serverVars, buffer,
                 recv, sqp, memory, faults>>

(* ibv_poll_cq spins until the completion is there.  A failed transfer or  *)
(* notification is logged; a failed done notification panics.              *)
PollSend ==
  /\ cpc = "polling" /\ send.st \in {"ok", "err"}
  /\ cpc' = IF ~IsDisconnect(accepted[taken]) THEN "idle"
            ELSE IF send.st = "ok" THEN "disconnecting" ELSE "panicked"
  /\ send' = FreeSend
  /\ UNCHANGED <<callerVars, taken, clientReqs, ccpu, cqp, serverVars, buffer,
                 recv, sqp, memory, faults>>

(* rdma_disconnect moves the queue pair to the error state. *)
ClientDisconnect ==
  /\ cpc = "disconnecting"
  /\ cpc' = "exited"
  /\ cqp' = "ERR"
  /\ UNCHANGED <<callerVars, taken, clientReqs, ccpu, send, serverVars, buffer,
                 recv, sqp, memory, faults>>

(* Its error is unwrapped; the queue pair may have been moved by then. *)
ClientDisconnectFails ==
  /\ cpc = "disconnecting" /\ faults < MaxFaults
  /\ faults' = faults + 1
  /\ cpc' = "panicked"
  /\ cqp' \in {cqp, "ERR"}
  /\ UNCHANGED <<callerVars, taken, clientReqs, ccpu, send, serverVars, buffer,
                 recv, sqp, memory>>

(* rx.recv() returns None: the worker leaves without a word to the server. *)
ChannelClosed ==
  /\ cpc = "idle" /\ sender = "dropped" /\ taken = Len(accepted)
  /\ cpc' = "exited"
  /\ UNCHANGED <<callerVars, taken, clientReqs, ccpu, send, cqp, serverVars,
                 buffer, recv, sqp, memory, faults>>

Client == \/ Take \/ PollSend
          \/ ClientDisconnect \/ ClientDisconnectFails \/ ChannelClosed

-----------------------------------------------------------------------------
(* The adapters: a reliable connection executes work requests in order and *)
(* completes each with success or, moving to the error state, with an      *)
(* error; there everything posted is flushed with an error.                *)

Connected == cqp = "RTS" /\ sqp = "RTS"

Sending(op) == send.st = "posted" /\ send.op = op

InRange == accepted[send.cmd].arg = "good"

(* Variant: the data of a write lands one block further. *)
ExecuteWriteShifted ==
  /\ Connected /\ Sending("write") /\ InRange
  /\ written' = written \cup {send.cmd + 1}
  /\ send' = [send EXCEPT !.st = "executed"]
  /\ UNCHANGED <<cqp, buffer, recv, sqp, fetched, faults>>

ExecuteWrite ==
  /\ Connected /\ Sending("write") /\ InRange
  /\ written' = written \cup {send.cmd}
  /\ send' = [send EXCEPT !.st = "executed"]
  /\ UNCHANGED <<cqp, buffer, recv, sqp, fetched, faults>>

ExecuteRead ==
  /\ Connected /\ Sending("read") /\ InRange
  /\ fetched' = fetched \cup {send.cmd}
  /\ send' = [send EXCEPT !.st = "executed"]
  /\ UNCHANGED <<cqp, buffer, recv, sqp, written, faults>>

(* A write with immediate takes a posted receive.  Until there is one the  *)
(* server's adapter answers "receiver not ready" and the client's retries, *)
(* without limit: connection parameters are left to their default.         *)
DeliverImm ==
  /\ Connected /\ Sending("imm") /\ recv.st = "posted"
  /\ scpu' = ccpu /\ landing' = 0
  /\ recv' = [st |-> "ok", size |-> send.size, cmd |-> send.cmd]
  /\ send' = [send EXCEPT !.st = "executed"]
  /\ UNCHANGED <<cqp, sqp, memory, faults>>

(* The packets before the last one need no receive: their bytes land one   *)
(* by one over whatever the buffer holds, and may hold the whole           *)
(* notification.                                                           *)
PlaceEarly ==
  /\ EarlyPlacement
  /\ Connected /\ Sending("imm") /\ recv.st # "posted"
  /\ \/ scpu # ccpu /\ landing = 0 /\ landing' = ccpu /\ UNCHANGED scpu
     \/ landing # 0 /\ scpu' = landing /\ landing' = 0
  /\ UNCHANGED <<send, cqp, recv, sqp, memory, faults>>

Acknowledge ==
  /\ cqp = "RTS" /\ send.st = "executed"
  /\ send' = [send EXCEPT !.st = "ok"]
  /\ UNCHANGED <<cqp, buffer, recv, sqp, memory, faults>>

(* A range outside the registered memory: refused by this adapter, or by   *)
(* the other one, which then gives up its end of the connection too.       *)
RejectRange ==
  /\ Connected /\ send.st = "posted" /\ send.op # "imm" /\ ~InRange
  /\ send' = [send EXCEPT !.st = "err"]
  /\ cqp' = "ERR"
  /\ sqp' \in {"RTS", "ERR"}
  /\ UNCHANGED <<buffer, recv, memory, faults>>

(* The retries of the transport are exhausted, with or without the request *)
(* having reached the server.                                              *)
LinkFailure ==
  /\ faults < MaxFaults
  /\ cqp = "RTS" /\ send.st \in {"posted", "executed"}
  /\ faults' = faults + 1
  /\ send' = [send EXCEPT !.st = "err"]
  /\ cqp' = "ERR"
  /\ UNCHANGED <<buffer, recv, sqp, memory>>

(* The server's end no longer answers. *)
PeerSilent ==
  /\ cqp = "RTS" /\ sqp = "ERR" /\ send.st = "posted"
  /\ send' = [send EXCEPT !.st = "err"]
  /\ cqp' = "ERR"
  /\ UNCHANGED <<buffer, recv, sqp, memory, faults>>

(* Variant: a request posted after an error is sent all the same. *)
IgnoreError ==
  /\ cqp = "ERR" /\ sqp = "RTS" /\ send.st \in {"posted", "executed"}
  /\ cqp' = "RTS"
  /\ UNCHANGED <<send, buffer, recv, sqp, memory, faults>>

FlushSend ==
  /\ cqp = "ERR" /\ send.st \in {"posted", "executed"}
  /\ send' = [send EXCEPT !.st = "err"]
  /\ UNCHANGED <<cqp, buffer, recv, sqp, memory, faults>>

FlushRecv ==
  /\ sqp = "ERR" /\ recv.st = "posted"
  /\ recv' = [recv EXCEPT !.st = "err"]
  /\ UNCHANGED <<send, cqp, buffer, sqp, memory, faults>>

Carry == \/ ExecuteWrite \/ ExecuteRead \/ DeliverImm \/ Acknowledge
         \/ RejectRange \/ PeerSilent \/ FlushSend \/ FlushRecv

Adapters == /\ Carry \/ PlaceEarly \/ LinkFailure
            /\ UNCHANGED <<callerVars, clientVars, serverVars>>

-----------------------------------------------------------------------------
(* The server's session task: handle_notification in a loop. *)

(* Every error of handle_notification is unwrapped: the task panics, its   *)
(* queue pair stays as it is.                                              *)
PostRecv ==
  /\ spc = "post"
  /\ IF recv.st = "free"
       THEN recv' = [FreeRecv EXCEPT !.st = "posted"] /\ spc' = "polling"
       ELSE spc' = "panicked" /\ UNCHANGED recv
  /\ UNCHANGED <<sqp, serverReqs, imm, recorded>>

(* Variant: the next receive is posted before the buffer is read. *)
PollRecvAndRepost ==
  /\ spc = "polling" /\ recv.st = "ok"
  /\ spc' = "decode"
  /\ imm' = [size |-> recv.size, cmd |-> recv.cmd]
  /\ recv' = [FreeRecv EXCEPT !.st = "posted"]
  /\ UNCHANGED <<sqp, serverReqs, recorded>>

PollRecv ==
  /\ spc = "polling" /\ recv.st \in {"ok", "err"}
  /\ spc' = IF recv.st = "ok" THEN "decode" ELSE "panicked"
  /\ imm' = [size |-> recv.size, cmd |-> recv.cmd]
  /\ recv' = FreeRecv
  /\ UNCHANGED <<sqp, serverReqs, recorded>>

(* What deserializing the first imm.size bytes of cpu_buffer yields: bytes *)
(* after the notification are ignored, a notification cut short is an      *)
(* error.  While a second one lands, done, the tag of the option and every *)
(* byte of the length and the id may be of either, whether it landed       *)
(* before or during the deserialization, so that an id may be read that    *)
(* nobody sent.  A third notification needs the session's next receive.    *)
InBuffer == {scpu, landing} \ {0}

Readable(k) == k \in Positions /\ NotificationSize(accepted[k]) <= imm.size

MixedLength(a, b) ==
  256 * (ReqLen[accepted[a].arg] \div 256) + (ReqLen[accepted[b].arg] % 256)

BothComplete(a, b) == IsComplete(accepted[a]) /\ IsComplete(accepted[b])

DecodeFails ==
  /\ spc = "decode"
  /\ \E a, b \in InBuffer :
       \/ ~Readable(a)
       \/ BothComplete(a, b) /\ 13 + MixedLength(a, b) > imm.size
  /\ spc' = "panicked"
  /\ imm' = NoImm
  /\ UNCHANGED <<recv, sqp, serverReqs, recorded>>

(* Variant: the table is left alone when its lock is taken. *)
DecodeCompleteTryWrite ==
  /\ spc = "decode"
  /\ \E k \in InBuffer :
       /\ Readable(k) /\ IsComplete(accepted[k])
       /\ \/ /\ serverReqs' = RecordReq(serverReqs, accepted[k].arg)
             /\ recorded' = Append(recorded, k)
          \/ UNCHANGED <<serverReqs, recorded>>
  /\ spc' = "post"
  /\ imm' = NoImm
  /\ UNCHANGED <<recv, sqp>>

(* Variant: the receive is posted once for all notifications. *)
DecodeCompleteNoRepost ==
  /\ spc = "decode"
  /\ \E k \in InBuffer :
       /\ Readable(k) /\ IsComplete(accepted[k])
       /\ serverReqs' = RecordReq(serverReqs, accepted[k].arg)
       /\ recorded' = Append(recorded, k)
  /\ spc' = "polling"
  /\ imm' = NoImm
  /\ UNCHANGED <<recv, sqp>>

DecodeComplete ==
  /\ spc = "decode"
  /\ \E k \in InBuffer :
       /\ Readable(k) /\ IsComplete(accepted[k])
       /\ serverReqs' = RecordReq(serverReqs, accepted[k].arg)
       /\ recorded' = Append(recorded, k)
  /\ spc' = "post"
  /\ imm' = NoImm
  /\ UNCHANGED <<recv, sqp>>

(* An id spliced from two; also when it is the id of a third request. *)
DecodeTorn ==
  /\ spc = "decode"
  /\ \E a, b \in InBuffer :
       /\ BothComplete(a, b) /\ accepted[a].arg # accepted[b].arg
       /\ 13 + MixedLength(a, b) <= imm.size
  /\ serverReqs' = RecordReq(serverReqs, TornId)
  /\ spc' = "post"
  /\ imm' = NoImm
  /\ UNCHANGED <<recv, sqp, recorded>>

(* done of a Complete and the tag of a Disconnect: nothing to record. *)
DecodeNothing ==
  /\ spc = "decode"
  /\ \E a, b \in InBuffer : IsComplete(accepted[a]) /\ IsDisconnect(accepted[b])
  /\ spc' = "post"
  /\ imm' = NoImm
  /\ UNCHANGED <<recv, sqp, serverReqs, recorded>>

DecodeDone ==
  /\ spc = "decode"
  /\ \E k \in InBuffer : Readable(k) /\ IsDisconnect(accepted[k])
  /\ spc' = "disconnecting"
  /\ imm' = NoImm
  /\ UNCHANGED <<recv, sqp, serverReqs, recorded>>

ServerDisconnect ==
  /\ spc = "disconnecting"
  /\ spc' = "ended"
  /\ sqp' = "ERR"
  /\ UNCHANGED <<recv, serverReqs, imm, recorded>>

(* The result of server_disconnect is unwrapped too. *)
ServerDisconnectFails ==
  /\ spc = "disconnecting" /\ faults < MaxFaults
  /\ faults' = faults + 1
  /\ spc' = "aborted"
  /\ sqp' \in {sqp, "ERR"}
  /\ UNCHANGED <<recv, serverReqs, imm, recorded>>

Decode == \/ DecodeFails \/ DecodeComplete \/ DecodeTorn \/ DecodeNothing
          \/ DecodeDone

Server ==
  /\ \/ /\ PostRecv \/ PollRecv \/ Decode \/ ServerDisconnect
        /\ UNCHANGED faults
     \/ ServerDisconnectFails
  /\ UNCHANGED <<callerVars, clientVars, send, cqp, buffer, memory>>

-----------------------------------------------------------------------------
Next ==
  \/ \E cmd \in Command : TrySend(cmd)
  \/ DropSender
  \/ Client \/ Adapters \/ Server

Spec == Init /\ [][Next]_vars

(* The worker and the session task each run on a thread of their own that  *)
(* nothing blocks but the polls above; a reliable connection delivers what *)
(* is posted unless the link fails.                                        *)
FairSpec ==
  /\ Spec
  /\ WF_vars(Client) /\ WF_vars(Server)
  /\ WF_vars(Carry /\ UNCHANGED <<callerVars, clientVars, serverVars>>)

-----------------------------------------------------------------------------
(* Safety *)

Before(k) == 1 .. k - 1

Announced == {recorded[i] : i \in 1 .. Len(recorded)}

SentBefore(k) == \A j \in Before(k) : IsGoodSend(accepted[j]) => j \in written

FetchedBefore(k) == \A j \in Before(k) : IsGoodRecv(accepted[j]) => j \in fetched

(* The point of the connector: when the server's is_complete answers true  *)
(* for a request, the data of every Send the client queued before that     *)
(* Complete is in the server's memory.  The worker only logs a failed      *)
(* write and goes on to the notification, so this rests on the queue pair  *)
(* refusing everything after its first error, and on the wait for each     *)
(* completion.                                                             *)
DataBeforeCompletion ==
  /\ \A k \in Announced : SentBefore(k)
  /\ serverReqs.set \subseteq {accepted[k].arg : k \in Announced}

(* Early placement breaks it in one way only: an id spliced from two       *)
(* notifications may be recorded, of a request never completed.  One that  *)
(* was read whole, also ahead of its own completion, has its data there.   *)
DataUnlessTorn ==
  /\ \A k \in Announced : SentBefore(k)
  /\ serverReqs.set \subseteq {accepted[k].arg : k \in Announced} \cup {TornId}

(* The connection implements the service: completions reach the server     *)
(* once each, none skipped, in the order they were queued, behind the data *)
(* that precedes them, whatever fails on the way.                          *)
Service == INSTANCE TransferService
             WITH accepted <- accepted, written <- written, recorded <- recorded
ServiceSpec == Service!Spec

(* The server reads the notification that its completion announced, and    *)
(* no other: from the delivery until it is decoded the buffer holds the    *)
(* command whose completion was polled, whole and with its size, although  *)
(* both sides reuse one buffer and only the missing receive holds the      *)
(* client back.                                                            *)
Holds(wc) ==
  /\ scpu = wc.cmd /\ landing = 0
  /\ wc.cmd \in Positions /\ wc.size = NotificationSize(accepted[wc.cmd])

StableNotification ==
  /\ recv.st = "ok" => Holds(recv)
  /\ spc = "decode" => Holds(imm)

(* The session task owns cpu_buffer; it is freed when the task leaves its  *)
(* loop or panics, while its region stays registered and, after a panic,   *)
(* the queue pair up.  Nothing of the peer lands there afterwards.         *)
BufferLive == spc \in {"post", "polling", "decode"}

LandsInLiveBuffer == [][buffer' # buffer => BufferLive]_vars

(* is_complete of the client: try_read fails while the worker holds the    *)
(* lock, that is until the notification of a Complete has been polled.     *)
ClientIsComplete(req) ==
  /\ ~(cpc = "polling" /\ IsComplete(accepted[taken]))
  /\ IsReqComplete(clientReqs, req)

(* What the client's is_complete means while its queue pair is up: the     *)
(* data it asked for before that Complete, both ways, has been moved, and  *)
(* the server has the notification, recorded or in its buffer.  After an   *)
(* error it means nothing: the request is recorded before the write.       *)
InHand(k) == scpu = k /\ (recv.st = "ok" \/ spc = "decode")

ClientReportIsTrue ==
  cqp = "RTS" =>
    \A k \in 1 .. taken :
      (IsComplete(accepted[k]) /\ ClientIsComplete(accepted[k].arg)) =>
        /\ SentBefore(k) /\ FetchedBefore(k)
        /\ k \in Announced \/ InHand(k)

(* A session that reads the done notification has delivered everything:    *)
(* every Complete queued before the Disconnect is in the server's table    *)
(* and all data queued before it was moved.                                *)
CleanEndDeliversAll ==
  spc \in {"disconnecting", "ended", "aborted"} =>
    /\ \A k \in Before(scpu) : IsComplete(accepted[k]) => k \in Announced
    /\ SentBefore(scpu) /\ FetchedBefore(scpu)

(* Queue pairs with room for one request each way suffice: whenever a side *)
(* is about to post, its slot is free, so no post ever fails.              *)
SlotsFree ==
  /\ cpc = "idle" => send.st = "free"
  /\ spc = "post" => recv.st = "free"

(* The worker spins on its completion queue without a limit, and a write   *)
(* with immediate is retried without one.  Whatever failed or was misused, *)
(* the completion it polls for is there, or due from an adapter, or the    *)
(* session is on its way to post the receive that the adapter waits for:   *)
(* a session that will not post again has had the last notification, or a  *)
(* queue pair is down.                                                     *)
AdapterOwes ==
  \/ send.st = "executed"
  \/ send.st = "posted" /\ (~Connected \/ send.op # "imm" \/ recv.st = "posted")

SessionWillPost ==
  \/ spc \in {"post", "decode", "disconnecting"}
  \/ spc = "polling" /\ recv.st \in {"ok", "err"}

PollIsAnswered ==
  cpc = "polling" => send.st \in {"ok", "err"} \/ AdapterOwes \/ SessionWillPost

(* The unwraps of both threads hold on a link that does not fail, for      *)
(* callers that stay inside registered buffers and use ids that fit.       *)
WellBehaved(cmd) ==
  /\ IsTransfer(cmd) => cmd.arg \in {"good", "empty"}
  /\ ~IsTransfer(cmd) => NotificationSize(cmd) <= CpuBufferSize

Healthy == faults = 0 /\ \A k \in Positions : WellBehaved(accepted[k])

NoPanicOnHealthyLink ==
  Healthy => cpc # "panicked" /\ spc \notin {"panicked", "aborted"}

-----------------------------------------------------------------------------
(* Liveness *)

FirstDisconnect(k) ==
  /\ k \in Positions /\ IsDisconnect(accepted[k])
  /\ \A j \in Before(k) : ~IsDisconnect(accepted[j])

DisconnectQueued == \E k \in 1 .. MaxCmds : FirstDisconnect(k)

(* With a link that works and a caller that behaves, every Complete queued *)
(* before a shutdown is eventually in the server's table.                  *)
EveryCompletionArrives ==
  \A k \in 1 .. MaxCmds :
    (/\ k \in Positions /\ IsComplete(accepted[k])
     /\ \A j \in Before(k) : ~IsDisconnect(accepted[j]))
      ~> (k \in Announced \/ ~Healthy)

(* A shutdown ends the client's worker whatever fails and however the API  *)
(* was misused: it spins on its completion queue only while the adapter    *)
(* still owes it a completion.  If nothing went wrong, the session task    *)
(* ends as well, and both do in order.                                     *)
ShutdownEnds ==
  DisconnectQueued ~> /\ WorkerGone
                      /\ (cpc = "exited" /\ spc = "ended") \/ ~Healthy
=============================================================================
