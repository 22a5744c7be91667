------------------------------ MODULE Commands ------------------------------
(***************************************************************************)
(* enum Command of vllm/client.rs: what the Python side asks the worker    *)
(* thread of a connection to do, and the size of the notification that     *)
(* announces it to the server (struct Notification of rdma/mod.rs).        *)
(*                                                                         *)
(* The tensor blocks of a Send or a Recv are abstracted to what the worker *)
(* and the adapter tell apart:                                             *)
(*   good     both base pointers are registered and the range lies inside  *)
(*   empty    the local block has size 0                                   *)
(*   unknown  a base pointer is in neither map                             *)
(*   outside  the range leaves a registered buffer                         *)
(***************************************************************************)
EXTENDS Naturals, Sequences

CONSTANTS
  ReqIds,       (* request ids, byte strings in the code                    *)
  ReqLen,       (* the length of each id                                    *)
  BlockKinds    (* bound: the kinds of tensor blocks callers pass           *)

ASSUME ReqLenAssumption == ReqLen \in [ReqIds -> Nat]
ASSUME BlockKindsAssumption ==
  BlockKinds \subseteq {"good", "empty", "unknown", "outside"}

Command ==
  [op : {"send", "recv"}, arg : BlockKinds]
    \cup [op : {"complete"}, arg : ReqIds]
    \cup [op : {"disconnect"}, arg : {"none"}]

IsTransfer(cmd) == cmd.op \in {"send", "recv"}
IsGoodSend(cmd) == cmd.op = "send" /\ cmd.arg = "good"
IsGoodRecv(cmd) == cmd.op = "recv" /\ cmd.arg = "good"
IsComplete(cmd) == cmd.op = "complete"
IsDisconnect(cmd) == cmd.op = "disconnect"

(* bincode writes done as 4 bytes, the tag of req_id as 1, and for Some a  *)
(* length of 8 bytes and the id.  Notification::complete() has no req_id.  *)
NotificationSize(cmd) ==
  IF IsDisconnect(cmd) THEN 5 ELSE 13 + ReqLen[cmd.arg]
=============================================================================
