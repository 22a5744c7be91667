--------------------------- MODULE CompletionReqs ---------------------------
(***************************************************************************)
(* The table of recently completed requests, struct CompletionReqs of      *)
(* rdma-transport-py/src/vllm/mod.rs: a FIFO that remembers the order of   *)
(* arrival and a hash set that answers lookups.  The client and the server *)
(* each keep one.                                                          *)
(*                                                                         *)
(* A table is a record.  cap is the capacity of the VecDeque's allocation, *)
(* which is_full compares with: it is not a limit that the code sets, and  *)
(* it changes if the queue ever has to reallocate.                         *)
(***************************************************************************)
EXTENDS Naturals, Sequences, Functions

Tables(R) == [fifo : Seq(R), set : SUBSET R, cap : Nat]

NewReqs(size) == [fifo |-> << >>, set |-> {}, cap |-> size]

(* push_back on a full VecDeque doubles its allocation *)
CapAfterPush(reqs) ==
  IF Len(reqs.fifo) = reqs.cap THEN 2 * reqs.cap ELSE reqs.cap

AddReq(reqs, req) ==
  [fifo |-> Append(reqs.fifo, req),
   set  |-> reqs.set \cup {req},
   cap  |-> CapAfterPush(reqs)]

(* Variant: the queue gives up its oldest entry, the set keeps it. *)
RemoveFirstKeepSet(reqs) ==
  IF reqs.fifo = << >> THEN reqs ELSE [reqs EXCEPT !.fifo = Tail(@)]

RemoveFirst(reqs) ==
  IF reqs.fifo = << >>
    THEN reqs
    ELSE [fifo |-> Tail(reqs.fifo),
          set  |-> reqs.set \ {Head(reqs.fifo)},
          cap  |-> reqs.cap]

IsReqComplete(reqs, req) == req \in reqs.set

(* Variant: full only beyond the capacity. *)
IsFullStrict(reqs) == Len(reqs.fifo) > reqs.cap

IsFull(reqs) == Len(reqs.fifo) = reqs.cap

(* What every caller does under the write lock after add_req. *)
EvictIfFull(reqs) == IF IsFull(reqs) THEN RemoveFirst(reqs) ELSE reqs

(* The whole critical section, for the modules that take it as one step. *)
RecordReq(reqs, req) == EvictIfFull(AddReq(reqs, req))
=============================================================================
