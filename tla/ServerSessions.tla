--------------------------- MODULE ServerSessions ---------------------------
(***************************************************************************)
(* What is_complete of the server rests on: any number of connections, of  *)
(* each of which only TransferService is assumed (VllmSession implements   *)
(* it), and one table of completions, which all their session tasks fill   *)
(* under one lock (CompletionTable).  A session reads its next             *)
(* notification only after it has recorded the last one.                   *)
(***************************************************************************)
EXTENDS Commands, CompletionReqs, FiniteSets

CONSTANTS
  Clients,     (* the connections                                           *)
  Capacity,    (* of the table; 1024 in the code                            *)
  MaxCmds,     (* bound: commands queued per connection                     *)
  NoWriter     (* the lock is free                                          *)

ASSUME SessionsAssumption ==
  /\ IsFiniteSet(Clients) /\ NoWriter \notin Clients
  /\ Capacity \in Nat \ {0} /\ MaxCmds \in Nat

VARIABLES
  accepted, written, recorded,        (* of each connection: its service    *)
  note,                               (* the notification its session holds *)
  reqs, lock, pc, pending, log        (* the table                          *)

service == <<accepted, written, recorded>>
table == <<reqs, lock, pc, pending, log>>
vars == <<service, note, table>>

Connection(c) == INSTANCE TransferService
  WITH accepted <- accepted[c], written <- written[c], recorded <- recorded[c]

Table == INSTANCE CompletionTable
  WITH Writers <- Clients, MaxAdds <- Cardinality(Clients) * MaxCmds

Init ==
  /\ accepted = [c \in Clients |-> << >>]
  /\ written = [c \in Clients |-> {}]
  /\ recorded = [c \in Clients |-> << >>]
  /\ note = [c \in Clients |-> 0]
  /\ Table!Init

Queue(c, cmd) ==
  /\ Len(accepted[c]) < MaxCmds
  /\ accepted' = [accepted EXCEPT ![c] = Append(@, cmd)]
  /\ UNCHANGED <<written, recorded, note, table>>

-----------------------------------------------------------------------------
(* The wire. *)

Ready(c, k, done) ==
  \A j \in 1 .. k - 1 : IsGoodSend(accepted[c][j]) => j \in done

Write(c, k) ==
  /\ IsGoodSend(accepted[c][k]) /\ k \notin written[c]
  /\ Ready(c, k, written[c])
  /\ written' = [written EXCEPT ![c] = @ \cup {k}]
  /\ UNCHANGED <<accepted, recorded, note, table>>

-----------------------------------------------------------------------------
(* The session task of connection c. *)

Announced(c) == {recorded[c][i] : i \in 1 .. Len(recorded[c])}

(* Variant: a notification does not wait for the data before it. *)
ReadAtOnce(c, k) ==
  /\ note[c] = 0 /\ IsComplete(accepted[c][k]) /\ k \notin Announced(c)
  /\ \A j \in 1 .. k - 1 : IsComplete(accepted[c][j]) => j \in Announced(c)
  /\ note' = [note EXCEPT ![c] = k]
  /\ UNCHANGED <<service, table>>

(* handle_notification returns the next Complete. *)
Read(c, k) ==
  /\ note[c] = 0 /\ IsComplete(accepted[c][k]) /\ k \notin Announced(c)
  /\ \A j \in 1 .. k - 1 : IsComplete(accepted[c][j]) => j \in Announced(c)
  /\ Ready(c, k, written[c])
  /\ note' = [note EXCEPT ![c] = k]
  /\ UNCHANGED <<service, table>>

(* Variant: the session does not keep the lock from others. *)
WriteLockShared(c) ==
  /\ note[c] # 0 /\ pc[c] = "idle"
  /\ lock' = c
  /\ pc' = [pc EXCEPT ![c] = "locked"]
  /\ pending' = [pending EXCEPT ![c] = accepted[c][note[c]].arg]
  /\ UNCHANGED <<service, note, reqs, log>>

WriteLock(c) ==
  /\ note[c] # 0
  /\ Table!WriteLock(c, accepted[c][note[c]].arg)
  /\ UNCHANGED <<service, note>>

Add(c) ==
  /\ Table!Add(c)
  /\ recorded' = [recorded EXCEPT ![c] = Append(@, note[c])]
  /\ UNCHANGED <<accepted, written, note>>

Evict(c) == Table!Evict(c) /\ UNCHANGED <<service, note>>

Unlock(c) ==
  /\ Table!Unlock(c)
  /\ note' = [note EXCEPT ![c] = 0]
  /\ UNCHANGED service

Next ==
  \E c \in Clients :
    \/ \E cmd \in Command : Queue(c, cmd)
    \/ \E k \in 1 .. Len(accepted[c]) : Write(c, k) \/ Read(c, k)
    \/ WriteLock(c) \/ Add(c) \/ Evict(c) \/ Unlock(c)

Spec == Init /\ [][Next]_vars

-----------------------------------------------------------------------------
(* When is_complete answers true, some client did complete that request,   *)
(* and all it had sent before is there.  Ids are not kept apart by client: *)
(* of two that use the same id, the answer may be about the other one.     *)
VisibleHasData ==
  \A r \in ReqIds :
    Table!IsComplete(r) =>
      \E c \in Clients : \E k \in Announced(c) :
        accepted[c][k].arg = r /\ Ready(c, k, written[c])

(* Sharing a table costs no connection its promise, and the sessions       *)
(* together use the table as CompletionTable says, so that what holds of   *)
(* it holds for any mix of connections.                                    *)
OneTable ==
  /\ \A c \in Clients : Connection(c)!Init
  /\ [][\A c \in Clients : [Connection(c)!Next]_(Connection(c)!svars)]_vars
  /\ Table!Spec
=============================================================================
