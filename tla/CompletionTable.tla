--------------------------- MODULE CompletionTable ---------------------------
(***************************************************************************)
(* One CompletionReqs behind its Arc<RwLock<..>>.  On the server every     *)
(* session task writes to the same table (vllm/server.rs); on the client   *)
(* the worker thread does (vllm/client.rs).  A writer takes the lock, adds *)
(* the request, evicts the oldest one if the table became full, and drops  *)
(* the guard.  is_complete only tries the lock and answers false when a    *)
(* writer holds it.                                                        *)
(***************************************************************************)
EXTENDS CompletionReqs

CONSTANTS
  Writers,    (* session tasks, or the client's worker                      *)
  ReqIds,     (* request ids                                                *)
  Capacity,   (* capacity of the allocation; the code asks for 1024         *)
  MaxAdds,    (* bound: completions added in a behaviour                    *)
  NoWriter    (* the lock is free                                           *)

ASSUME CapacityAssumption == Capacity \in Nat \ {0}
ASSUME NoWriterAssumption == NoWriter \notin Writers
ASSUME MaxAddsAssumption  == MaxAdds \in Nat

VARIABLES
  reqs,       (* the shared table                                           *)
  lock,       (* the writer holding the RwLock, or NoWriter                 *)
  pc,         (* where each writer is in its critical section               *)
  pending,    (* the request each writer is adding                          *)
  log         (* history: every request added, in order                     *)

vars == <<reqs, lock, pc, pending, log>>

PCs == {"idle", "locked", "added", "evicted"}

TypeOK ==
  /\ reqs \in Tables(ReqIds)
  /\ lock \in Writers \cup {NoWriter}
  /\ pc \in [Writers -> PCs]
  /\ pending \in [Writers -> ReqIds]
  /\ log \in Seq(ReqIds)

Init ==
  /\ reqs = NewReqs(Capacity)
  /\ lock = NoWriter
  /\ pc = [w \in Writers |-> "idle"]
  /\ pending \in [Writers -> ReqIds]
  /\ log = << >>

(* completion_reqs.write().unwrap(): waits until the lock is free *)
WriteLock(w, req) ==
  /\ pc[w] = "idle"
  /\ lock = NoWriter
  /\ Len(log) < MaxAdds
  /\ lock' = w
  /\ pc' = [pc EXCEPT ![w] = "locked"]
  /\ pending' = [pending EXCEPT ![w] = req]
  /\ UNCHANGED <<reqs, log>>

Add(w) ==
  /\ pc[w] = "locked"
  /\ reqs' = AddReq(reqs, pending[w])
  /\ log' = Append(log, pending[w])
  /\ pc' = [pc EXCEPT ![w] = "added"]
  /\ UNCHANGED <<lock, pending>>

Evict(w) ==
  /\ pc[w] = "added"
  /\ reqs' = EvictIfFull(reqs)
  /\ pc' = [pc EXCEPT ![w] = "evicted"]
  /\ UNCHANGED <<lock, pending, log>>

(* The guard is dropped at the end of its scope: at once on the server,    *)
(* after write_metadata has finished on the client.                        *)
Unlock(w) ==
  /\ pc[w] = "evicted"
  /\ lock' = NoWriter
  /\ pc' = [pc EXCEPT ![w] = "idle"]
  /\ UNCHANGED <<reqs, pending, log>>

Next ==
  \E w \in Writers :
    \/ \E req \in ReqIds : WriteLock(w, req)
    \/ Add(w)
    \/ Evict(w)
    \/ Unlock(w)

Spec == Init /\ [][Next]_vars

(* is_complete: try_read, and false when the lock is taken *)
IsComplete(req) == lock = NoWriter /\ IsReqComplete(reqs, req)

-----------------------------------------------------------------------------
(* Safety *)

(* The queue never grows past the allocation it started with, so the       *)
(* threshold that is_full reads never moves and the table never leaks.     *)
(* is_full tests for equality: one add that is not followed by its         *)
(* eviction, from any writer, would suspend eviction until the queue has   *)
(* grown to the capacity of the next allocation.                           *)
WindowBounded ==
  /\ reqs.cap = Capacity
  /\ Len(reqs.fifo) <= Capacity
  /\ lock = NoWriter => Len(reqs.fifo) < Capacity

(* Exactly which requests is_complete reports, for any sequence of         *)
(* completions, repeated ids included.  The request added at position p is *)
(* evicted by the add at position p + Capacity - 1.  A request is visible  *)
(* when its latest add is still in the queue and no earlier add of the     *)
(* same id has been evicted since: the set holds one entry per id, so the  *)
(* eviction of an older duplicate hides the newer one.                     *)
Visible(req) ==
  \E p \in 1 .. Len(log) :
    /\ log[p] = req
    /\ Len(log) < p + Capacity - 1
    /\ \A q \in p + 1 .. Len(log) : log[q] # req
    /\ \A q \in 1 .. p - 1 :
         log[q] = req => q + Capacity - 1 \notin p .. Len(log)

VisibleExactly ==
  lock = NoWriter => \A req \in ReqIds : IsComplete(req) <=> Visible(req)

(* When every id is completed once, which is how the connector above uses  *)
(* the API, the table is exactly the last Capacity - 1 completions: none   *)
(* of them is ever reported as missing, and no older one as present.       *)
LogHasNoRepeats == \A i, j \in 1 .. Len(log) : log[i] = log[j] => i = j

LastAdds(n) == {log[i] : i \in {k \in 1 .. Len(log) : k > Len(log) - n}}

RecentReqsVisible ==
  (lock = NoWriter /\ LogHasNoRepeats) => reqs.set = LastAdds(Capacity - 1)

=============================================================================
