--------------------------- MODULE ExampleTransfer ---------------------------
(***************************************************************************)
(* The pair of programs that shows how the library is meant to be used,    *)
(* examples/rdma_client.rs and examples/rdma_server.rs, once connected: a  *)
(* loop that writes message after message into a ring of GPU buffers of    *)
(* the server and announces each, and a session that handles them.         *)
(*                                                                         *)
(* Nothing tells the client that a message was handled.  All that paces it *)
(* is the receive that the session posts for the next notification.        *)
(*                                                                         *)
(* Loops count from 1 here, and a buffer of the server has the place of    *)
(* its key in remote_base_ptrs.  Queues are slots as in VllmSession, on a  *)
(* path that carries a notification in one packet.                         *)
(***************************************************************************)
EXTENDS Integers, Sequences

CONSTANTS
  BufferCount,   (* gpu_buffer_count of both sides; 4 in the code           *)
  Loops,         (* 10000 in the code                                       *)
  MaxFaults      (* bound: link failures in a behaviour                     *)

ASSUME ExampleAssumption ==
  BufferCount \in Nat /\ BufferCount >= 2 /\ Loops \in Nat /\ MaxFaults \in Nat

VARIABLES
  cpc,      (* where the client's main is                                   *)
  loop,     (* the loops it has begun                                       *)
  ccpu,     (* the loop its cpu_buffer announces                            *)
  send,     (* the slot of its send queue                                   *)
  cqp,      (* the state of its queue pair                                  *)
  spc,      (* where the server's session is                                *)
  scpu,     (* the loop that the server's cpu_buffer announces              *)
  recv,     (* the slot of its receive queue                                *)
  sqp,      (* the state of its queue pair                                  *)
  data,     (* which message each GPU buffer of the server holds            *)
  printed,  (* the requests the session printed, in order                   *)
  faults    (* link failures so far                                         *)

clientVars == <<cpc, loop, ccpu>>
serverVars == <<spc, printed>>
vars == <<clientVars, send, cqp, serverVars, scpu, recv, sqp, data, faults>>

Slots == 0 .. BufferCount - 1

(* Variant: one buffer is used for all messages. *)
SameSlot(i) == 0

Slot(i) == i % BufferCount

None == 0             \* no message, or one that is only partly there
Done == Loops + 1     \* the notification of client_disconnect

TypeOK ==
  /\ cpc \in {"loop", "writing", "notifying", "leaving", "exited", "failed"}
  /\ loop \in 0 .. Loops /\ ccpu \in 0 .. Done
  /\ send \in {"free", "posted", "executed", "ok", "err"}
  /\ cqp \in {"RTS", "ERR"}
  /\ spc \in {"post", "polling", "handling", "ended"}
  /\ scpu \in 0 .. Done
  /\ recv \in {"free", "posted", "ok"}
  /\ sqp \in {"RTS", "ERR"}
  /\ data \in [Slots -> 0 .. Loops]
  /\ printed \in Seq(1 .. Loops)
  /\ faults \in Nat

Init ==
  /\ cpc = "loop" /\ loop = 0 /\ ccpu = 0 /\ send = "free" /\ cqp = "RTS"
  /\ spc = "post" /\ scpu = 0 /\ recv = "free" /\ sqp = "RTS"
  /\ data = [s \in Slots |-> None] /\ printed = << >> /\ faults = 0

-----------------------------------------------------------------------------
(* The client's main.  An error ends it, and the process, by `?'. *)

NextMessage ==
  /\ cpc = "loop" /\ loop < Loops
  /\ loop' = loop + 1 /\ ccpu' = loop + 1
  /\ send' = "posted" /\ cpc' = "writing"
  /\ UNCHANGED cqp

Polled == send \in {"ok", "err"}

Fail == cpc' = "failed" /\ cqp' = "ERR"

(* Variant: the notification is not waited for. *)
NotifyAndGoOn ==
  /\ cpc = "writing" /\ Polled
  /\ IF send = "ok" THEN cpc' = "loop" /\ UNCHANGED cqp ELSE Fail
  /\ send' = "free"
  /\ UNCHANGED <<loop, ccpu>>

Notify ==
  /\ cpc = "writing" /\ Polled
  /\ IF send = "ok" THEN cpc' = "notifying" /\ send' = "posted" /\ UNCHANGED cqp
                    ELSE Fail /\ send' = "free"
  /\ UNCHANGED <<loop, ccpu>>

EndLoop ==
  /\ cpc = "notifying" /\ Polled
  /\ IF send = "ok" THEN cpc' = "loop" /\ UNCHANGED cqp ELSE Fail
  /\ send' = "free"
  /\ UNCHANGED <<loop, ccpu>>

Leave ==
  /\ cpc = "loop" /\ loop = Loops
  /\ ccpu' = Done
  /\ send' = "posted" /\ cpc' = "leaving"
  /\ UNCHANGED <<loop, cqp>>

(* rdma_disconnect; the client's buffers are freed *)
Exit ==
  /\ cpc = "leaving" /\ Polled
  /\ IF send = "ok" THEN cpc' = "exited" /\ cqp' = "ERR" ELSE Fail
  /\ send' = "free"
  /\ UNCHANGED <<loop, ccpu>>

Client ==
  /\ NextMessage \/ Notify \/ EndLoop \/ Leave \/ Exit
  /\ UNCHANGED <<serverVars, scpu, recv, sqp, data, faults>>

-----------------------------------------------------------------------------
(* The adapters. *)

Connected == cqp = "RTS" /\ sqp = "RTS"

(* A message is many packets long: at first a part of it is there. *)
Place ==
  /\ Connected /\ cpc = "writing" /\ send = "posted"
  /\ data[Slot(loop)] # None
  /\ data' = [data EXCEPT ![Slot(loop)] = None]
  /\ UNCHANGED <<send, cqp, scpu, recv, faults>>

Write ==
  /\ Connected /\ cpc = "writing" /\ send = "posted"
  /\ data' = [data EXCEPT ![Slot(loop)] = loop]
  /\ send' = "executed"
  /\ UNCHANGED <<cqp, scpu, recv, faults>>

Deliver ==
  /\ Connected /\ cpc \in {"notifying", "leaving"} /\ send = "posted"
  /\ recv = "posted"
  /\ scpu' = ccpu
  /\ recv' = "ok" /\ send' = "executed"
  /\ UNCHANGED <<cqp, data, faults>>

Acknowledge ==
  /\ cqp = "RTS" /\ send = "executed"
  /\ send' = "ok"
  /\ UNCHANGED <<cqp, scpu, recv, data, faults>>

LinkFailure ==
  /\ faults < MaxFaults
  /\ cqp = "RTS" /\ send \in {"posted", "executed"}
  /\ faults' = faults + 1
  /\ send' = "err" /\ cqp' = "ERR"
  /\ UNCHANGED <<scpu, recv, data>>

Carry == Write \/ Deliver \/ Acknowledge

Adapters == /\ Carry \/ Place \/ LinkFailure
            /\ UNCHANGED <<clientVars, serverVars, sqp>>

-----------------------------------------------------------------------------
(* The server's session. *)

PostRecv ==
  /\ spc = "post"
  /\ recv' = "posted" /\ spc' = "polling"
  /\ UNCHANGED <<scpu, sqp, printed>>

(* Variant: the next receive is posted before the request is handled. *)
PollAndRepost ==
  /\ spc = "polling" /\ recv = "ok"
  /\ spc' = "handling" /\ recv' = "posted"
  /\ UNCHANGED <<scpu, sqp, printed>>

(* The session sends nothing, so a link that fails leaves it waiting. *)
Poll ==
  /\ spc = "polling" /\ recv = "ok"
  /\ spc' = "handling" /\ recv' = "free"
  /\ UNCHANGED <<scpu, sqp, printed>>

HandleRequest ==
  /\ spc = "handling" /\ scpu \in 1 .. Loops
  /\ printed' = Append(printed, scpu)
  /\ spc' = "post"
  /\ UNCHANGED <<scpu, recv, sqp>>

HandleDone ==
  /\ spc = "handling" /\ scpu = Done
  /\ spc' = "ended" /\ sqp' = "ERR"
  /\ UNCHANGED <<scpu, recv, printed>>

Server ==
  /\ PostRecv \/ Poll \/ HandleRequest \/ HandleDone
  /\ UNCHANGED <<clientVars, send, cqp, data, faults>>

-----------------------------------------------------------------------------
Next == Client \/ Adapters \/ Server

Spec == Init /\ [][Next]_vars

(* As in VllmSession: both programs run, the link delivers unless it fails. *)
FairSpec ==
  /\ Spec
  /\ WF_vars(Client) /\ WF_vars(Server)
  /\ WF_vars(Carry /\ UNCHANGED <<clientVars, serverVars, sqp>>)

-----------------------------------------------------------------------------
(* Safety *)

(* When the session handles a request, the whole message is in its buffer  *)
(* and stays there until the next receive is posted, although the client   *)
(* goes round the ring without being told: with two buffers or more the    *)
(* one missing receive is enough.                                          *)
MessageIntact ==
  (spc \in {"handling", "post"} /\ scpu \in 1 .. Loops) =>
    data[Slot(scpu)] = scpu

(* Requests are printed once each, in order, and all of them when the      *)
(* session ended on the done notification, whatever happened to the link.  *)
PrintedInOrder ==
  /\ \A k \in 1 .. Len(printed) : printed[k] = k
  /\ spc = "ended" => Len(printed) = Loops

-----------------------------------------------------------------------------
(* Liveness *)

(* Unless the link fails, everything is printed and both programs end      *)
(* their part; and the client ends in any case.                            *)
TransferEnds ==
  /\ <>(faults > 0 \/ (Len(printed) = Loops /\ spc = "ended"))
  /\ <>(cpc \in {"exited", "failed"})
=============================================================================
