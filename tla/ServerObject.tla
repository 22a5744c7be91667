---------------------------- MODULE ServerObject ----------------------------
(***************************************************************************)
(* A VllmRdmaServer as its caller sees it, over several calls of listen,   *)
(* shutdown and is_complete.  VllmServer is what happens within one call   *)
(* of listen; here a call is a number, and has a shutdown channel, a table *)
(* of completions and, if server_init succeeds, a listener of its own.     *)
(* The object holds those of the last call, whatever became of it.         *)
(*                                                                         *)
(* An endpoint is never destroyed (dropping an RdmaCmId frees memory       *)
(* only), so an address that this process has bound stays bound.           *)
(***************************************************************************)
EXTENDS Naturals

CONSTANTS
  ReqIds,
  MaxListens     (* bound: calls of listen                                  *)

ASSUME ObjectAssumption == MaxListens \in Nat

VARIABLES
  address,       (* who has bound the object's address: "free", "ours" or   *)
                 (* "others"                                                *)
  current,       (* the call whose table the object holds; 0 before any     *)
  sender,        (* the call whose sender it holds; 0 if shutdown took it   *)
  channel,       (* the shutdown channel of each call: "open", "sent", or   *)
                 (* "closed", its sender dropped unused                     *)
  listener,      (* the listener of each call: "none" yet, "failed" to be   *)
                 (* set up, "running", "deaf" to all but the command,       *)
                 (* "draining" after the command, "unwinding" after a       *)
                 (* panic, or "exited"                                      *)
  recorded       (* the requests in the table of each call                  *)

objectVars == <<address, current, sender, channel, listener, recorded>>

Calls == 1 .. MaxListens

ObjectInit ==
  /\ address \in {"free", "others"}
  /\ current = 0 /\ sender = 0
  /\ channel = [g \in Calls |-> "open"]
  /\ listener = [g \in Calls |-> "none"]
  /\ recorded = [g \in Calls |-> {}]

InLoop(g) == listener[g] \in {"running", "deaf"}

(* Either way the runtime is dropped, which waits for the sessions. *)
Dropping(g) == listener[g] \in {"draining", "unwinding"}

-----------------------------------------------------------------------------
(* The caller. *)

(* The fields are replaced first; with that the sender of an earlier call  *)
(* is dropped.                                                             *)
Replace ==
  /\ current < MaxListens
  /\ current' = current + 1 /\ sender' = current + 1
  /\ channel' = [g \in Calls |-> IF g = sender THEN "closed" ELSE channel[g]]

Listens(as) == listener' = [listener EXCEPT ![current + 1] = as]

(* Variant: the endpoint shares an address that is in use. *)
ListenSharing ==
  /\ Replace
  /\ Listens("running") /\ address' = "ours"
  /\ UNCHANGED recorded

Listen ==
  /\ Replace /\ address = "free"
  /\ Listens("running") /\ address' = "ours"
  /\ UNCHANGED recorded

(* server_init(..).unwrap(): the address is in use, or one of its calls    *)
(* fails, with the endpoint bound already or not.  The caller may catch    *)
(* what the panic became and go on with the object.                        *)
ListenPanics ==
  /\ Replace
  /\ Listens("failed")
  /\ address' = address \/ (address = "free" /\ address' = "ours")
  /\ UNCHANGED recorded

(* shutdown() *)
SendCommand ==
  /\ sender # 0
  /\ sender' = 0
  /\ channel' = [channel EXCEPT ![sender] = "sent"]
  /\ UNCHANGED <<address, current, listener, recorded>>

IsComplete(req) == current # 0 /\ req \in recorded[current]

-----------------------------------------------------------------------------
(* The listener of a call and its sessions. *)

Becomes(g, state) ==
  /\ listener' = [listener EXCEPT ![g] = state]
  /\ UNCHANGED <<address, current, sender, channel, recorded>>

(* A session records into the table of its own call, and may do so after   *)
(* the listener has left its loop: dropping the runtime waits for it.      *)
Record(g, req) ==
  /\ InLoop(g) \/ Dropping(g)
  /\ recorded' = [recorded EXCEPT ![g] = @ \cup {req}]
  /\ UNCHANGED <<address, current, sender, channel, listener>>

(* How the loop ends: by the command, or, with neither branch of select!   *)
(* left, by a panic.                                                       *)
EndOfLoop(g) == IF channel[g] = "sent" THEN "draining" ELSE "unwinding"

(* A failed rdma_get_request leaves the command to wait for. *)
ListenerFails(g) ==
  /\ listener[g] = "running"
  /\ Becomes(g, IF channel[g] = "open" THEN "deaf" ELSE EndOfLoop(g))

(* Variant: a sender that is gone ends the loop as the command does. *)
StopIfClosed(g) ==
  /\ InLoop(g) /\ channel[g] # "open"
  /\ Becomes(g, "draining")

(* The command ends the loop.  A closed channel only disables its branch   *)
(* of select!, which panics when the other branch is disabled too.         *)
Stop(g) ==
  /\ InLoop(g) /\ channel[g] # "open"
  /\ channel[g] = "sent" \/ listener[g] = "deaf"
  /\ Becomes(g, EndOfLoop(g))

(* The runtime is gone, and the listener's thread. *)
Exit(g) ==
  /\ Dropping(g)
  /\ Becomes(g, "exited")

(* Another process gives the address up. *)
Released ==
  /\ address = "others"
  /\ address' = "free"
  /\ UNCHANGED <<current, sender, channel, listener, recorded>>

ObjectNext ==
  \/ Listen \/ ListenPanics \/ SendCommand \/ Released
  \/ \E g \in Calls : \/ ListenerFails(g) \/ Stop(g) \/ Exit(g)
                      \/ \E r \in ReqIds : Record(g, r)

ObjectSpec == ObjectInit /\ [][ObjectNext]_objectVars

-----------------------------------------------------------------------------
(* An address is served once: whatever became of the listener, and however *)
(* often listen is called again, no other call ever gets one.              *)
ServesOnce ==
  \A g, h \in Calls :
    (listener[g] \notin {"none", "failed"} /\ listener[h] \notin {"none", "failed"}) =>
      g = h

(* A running listener whose sender was replaced. *)
Orphaned(g) == listener[g] = "running" /\ channel[g] = "closed"

(* Calling listen again while the server runs loses it: nothing the caller *)
(* does afterwards ends that listener (only a failure of its own does),    *)
(* and is_complete denies every request its sessions record.               *)
OrphanedForGood ==
  [][\A g \in Calls :
       Orphaned(g) => /\ Orphaned(g)' \/ ListenerFails(g)
                      /\ \A req \in ReqIds : ~IsComplete(req)']_objectVars
=============================================================================
