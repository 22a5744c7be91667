----------------------------- MODULE VllmServer -----------------------------
(***************************************************************************)
(* The server as a whole (vllm/server.rs): the thread that listen spawns,  *)
(* which selects between the shutdown command and the next connection      *)
(* request, and the session tasks it spawns on a tokio runtime.            *)
(*                                                                         *)
(* Two things in the code never yield to the runtime: rdma_get_request     *)
(* blocks the listener's thread, and a session polls its completion queue  *)
(* in a loop, so it occupies one of the runtime's workers from its first   *)
(* poll to its end.  What a session does meanwhile is VllmSession; here it *)
(* runs until its client disconnects.                                      *)
(*                                                                         *)
(* Every accept retains the primary context of the GPU and the shutdown    *)
(* branch releases it once.  The driver counts the references of the whole *)
(* process, the application's own included.                                *)
(***************************************************************************)
EXTENDS Naturals, FiniteSets

CONSTANTS
  Clients,
  Workers,     (* worker threads of the runtime: one per core               *)
  HostRefs,    (* references the application itself holds on the context    *)
  MaxErrors    (* bound: failed calls in a behaviour                        *)

ASSUME ServerAssumption ==
  /\ Workers \in Nat \ {0} /\ MaxErrors \in Nat
  /\ HostRefs \in Nat \ {0}   \* its GPU buffers are what is served

VARIABLES
  cmd,         (* the oneshot channel of shutdown()                         *)
  lpc,         (* where the listener's thread is                            *)
  client,      (* what each client is doing                                 *)
  sess,        (* the session task of each client                           *)
  refs,        (* references on the primary context                         *)
  errors       (* failed calls so far                                       *)

vars == <<cmd, lpc, client, sess, refs, errors>>

TypeOK ==
  /\ cmd \in {"open", "sent", "taken", "closed"}
  /\ lpc \in {"select", "blocked", "deaf", "dropping", "exited"}
  /\ client \in [Clients -> {"idle", "requested", "connected", "leaving", "gone"}]
  /\ sess \in [Clients -> {"none", "spawned", "accepting", "establishing",
                           "serving", "ended", "panicked", "dropped"}]
  /\ refs \in Nat
  /\ errors \in 0 .. MaxErrors

Init ==
  /\ cmd = "open" /\ lpc = "select"
  /\ client = [c \in Clients |-> "idle"]
  /\ sess = [c \in Clients |-> "none"]
  /\ refs = HostRefs
  /\ errors = 0

Running ==
  {c \in Clients : sess[c] \in {"accepting", "establishing", "serving"}}

MayFail == errors < MaxErrors /\ errors' = errors + 1

-----------------------------------------------------------------------------
(* The Python side and the clients. *)

(* shutdown(): takes the sender, so a second call does nothing *)
Shutdown ==
  /\ cmd = "open"
  /\ cmd' = "sent"
  /\ UNCHANGED <<lpc, client, sess, refs, errors>>

(* The server object is dropped, or its listen is called again. *)
DropSender ==
  /\ cmd = "open"
  /\ cmd' = "closed"
  /\ UNCHANGED <<lpc, client, sess, refs, errors>>

Request(c) ==
  /\ client[c] = "idle"
  /\ client' = [client EXCEPT ![c] = "requested"]
  /\ UNCHANGED <<cmd, lpc, sess, refs, errors>>

(* The client sends its done notification. *)
Leave(c) ==
  /\ client[c] = "connected"
  /\ client' = [client EXCEPT ![c] = "leaving"]
  /\ UNCHANGED <<cmd, lpc, sess, refs, errors>>

(* The client's process disappears; an established session is not told. *)
Vanish(c) ==
  /\ client[c] \in {"requested", "connected"}
  /\ client' = [client EXCEPT ![c] = "gone"]
  /\ UNCHANGED <<cmd, lpc, sess, refs, errors>>

-----------------------------------------------------------------------------
(* The listener's thread.  select! polls its branches in random order.     *)

(* Releasing a context nobody retains fails; the unwrap of that ends the   *)
(* listener as the break would.                                            *)
ReleaseContext == refs' = IF refs = 0 THEN 0 ELSE refs - 1

TakeIfSent ==
  IF cmd = "sent" THEN cmd' = "taken" /\ ReleaseContext
                  ELSE UNCHANGED <<cmd, refs>>

(* The context is released and the loop left; the runtime goes with it. *)
SelectShutdown ==
  /\ lpc = "select" /\ cmd = "sent"
  /\ cmd' = "taken"
  /\ ReleaseContext
  /\ lpc' = "dropping"
  /\ UNCHANGED <<client, sess, errors>>

(* The command's branch is pending, disabled, or not polled yet: the other *)
(* one calls rdma_get_request.                                             *)
SelectListen ==
  /\ lpc = "select"
  /\ lpc' = "blocked"
  /\ UNCHANGED <<cmd, client, sess, refs, errors>>

GetRequest(c) ==
  /\ lpc = "blocked"
  /\ client[c] # "idle" /\ sess[c] = "none"
  /\ sess' = [sess EXCEPT ![c] = "spawned"]
  /\ lpc' = "select"
  /\ UNCHANGED <<cmd, client, refs, errors>>

(* Variant: the error ends the loop. *)
GetRequestFailsForGood ==
  /\ lpc = "blocked"
  /\ MayFail
  /\ lpc' = "dropping"
  /\ TakeIfSent
  /\ UNCHANGED <<client, sess>>

(* An error disables the branch for this select!, which goes on to the     *)
(* command: it takes it, waits for it and nothing else, or, with no branch *)
(* left, panics, which drops the runtime too.                              *)
GetRequestFails ==
  /\ lpc = "blocked"
  /\ MayFail
  /\ lpc' = IF cmd = "open" THEN "deaf" ELSE "dropping"
  /\ TakeIfSent
  /\ UNCHANGED <<client, sess>>

(* Only the command is left to wait for; its sender may go away as well. *)
HearCommand ==
  /\ lpc = "deaf" /\ cmd # "open"
  /\ lpc' = "dropping"
  /\ TakeIfSent
  /\ UNCHANGED <<client, sess, errors>>

(* Variant: the runtime does not wait for its workers. *)
DropRuntimeAtOnce ==
  /\ lpc = "dropping"
  /\ lpc' = "exited"
  /\ sess' = [c \in Clients |-> IF sess[c] = "spawned" \/ c \in Running
                                  THEN "dropped" ELSE sess[c]]
  /\ UNCHANGED <<cmd, client, refs, errors>>

(* Dropping the runtime waits for the workers; tasks never polled are      *)
(* dropped.                                                                *)
DropRuntime ==
  /\ lpc = "dropping" /\ Running = {}
  /\ lpc' = "exited"
  /\ sess' = [c \in Clients |-> IF sess[c] = "spawned" THEN "dropped" ELSE sess[c]]
  /\ UNCHANGED <<cmd, client, refs, errors>>

Listener == \/ SelectListen \/ \E c \in Clients : GetRequest(c)
            \/ HearCommand \/ DropRuntime

-----------------------------------------------------------------------------
(* Session tasks. *)

(* Variant: a runtime with a single thread. *)
StartAlone(c) ==
  /\ sess[c] = "spawned" /\ lpc # "exited"
  /\ Running = {}
  /\ sess' = [sess EXCEPT ![c] = "accepting"]
  /\ UNCHANGED <<cmd, lpc, client, refs, errors>>

(* A worker that runs no other session polls the task. *)
Start(c) ==
  /\ sess[c] = "spawned" /\ lpc # "exited"
  /\ Cardinality(Running) < Workers
  /\ sess' = [sess EXCEPT ![c] = "accepting"]
  /\ UNCHANGED <<cmd, lpc, client, refs, errors>>

(* Variant: accept relies on a context that is already there. *)
RetainNothing(c) ==
  /\ sess[c] = "accepting"
  /\ sess' = [sess EXCEPT ![c] = "establishing"]
  /\ UNCHANGED <<cmd, lpc, client, refs, errors>>

(* accept retains the context before it registers the GPU buffers. *)
Retain(c) ==
  /\ sess[c] = "accepting"
  /\ sess' = [sess EXCEPT ![c] = "establishing"]
  /\ refs' = refs + 1
  /\ UNCHANGED <<cmd, lpc, client, errors>>

Accept(c) ==
  /\ sess[c] = "establishing" /\ client[c] = "requested"
  /\ sess' = [sess EXCEPT ![c] = "serving"]
  /\ client' = [client EXCEPT ![c] = "connected"]
  /\ UNCHANGED <<cmd, lpc, refs, errors>>

(* The error is logged and the connection given up; disconnecting one that *)
(* never came up may panic.  A client that vanished may be noticed so, or  *)
(* leave the task spinning for its Connection.  The context stays retained.*)
AcceptFails(c) ==
  /\ sess[c] \in {"accepting", "establishing"}
  /\ MayFail \/ (client[c] = "gone" /\ UNCHANGED errors)
  /\ \E end \in {"ended", "panicked"} : sess' = [sess EXCEPT ![c] = end]
  /\ client' = [client EXCEPT ![c] = "gone"]
  /\ UNCHANGED <<cmd, lpc, refs>>

(* Variant: a session gives way to a shutdown. *)
EndSessionIfListening(c) ==
  /\ sess[c] = "serving" /\ client[c] = "leaving" /\ ~(cmd = "taken")
  /\ sess' = [sess EXCEPT ![c] = "ended"]
  /\ client' = [client EXCEPT ![c] = "gone"]
  /\ UNCHANGED <<cmd, lpc, refs, errors>>

(* The done notification ends the loop and the task disconnects. *)
EndSession(c) ==
  /\ sess[c] = "serving" /\ client[c] = "leaving"
  /\ sess' = [sess EXCEPT ![c] = "ended"]
  /\ client' = [client EXCEPT ![c] = "gone"]
  /\ UNCHANGED <<cmd, lpc, refs, errors>>

(* handle_notification(..).unwrap(), or that of server_disconnect *)
SessionPanics(c) ==
  /\ sess[c] = "serving"
  /\ MayFail
  /\ sess' = [sess EXCEPT ![c] = "panicked"]
  /\ UNCHANGED <<cmd, lpc, client, refs>>

Task(c) == Start(c) \/ Retain(c) \/ Accept(c) \/ EndSession(c)

Next ==
  \/ Shutdown \/ DropSender
  \/ SelectShutdown \/ Listener \/ GetRequestFails
  \/ \E c \in Clients : \/ Request(c) \/ Leave(c) \/ Vanish(c)
                        \/ Task(c) \/ AcceptFails(c) \/ SessionPanics(c)

(* Threads run; a worker gets to every task it can take; and select! draws *)
(* the order of its branches afresh each time, so it does not put the      *)
(* command second for ever.                                                *)
FairSpec ==
  /\ Init /\ [][Next]_vars
  /\ WF_vars(Listener) /\ SF_vars(SelectShutdown)
  /\ \A c \in Clients : SF_vars(Task(c))

-----------------------------------------------------------------------------
(* Safety *)

(* A client that leaves in order is never cut off, shutdown or not: its    *)
(* session ends by reading its done notification, or by a failure.         *)
NoClientCutOff ==
  \A c \in Clients : sess[c] = "dropped" => client[c] \in {"requested", "gone"}

(* shutdown() releases the context while sessions still run, and only once *)
(* for however many of them: none ever loses the context its buffers were  *)
(* registered under, because each session of its own retained it.          *)
ContextOutlivesSessions ==
  (\E c \in Clients : sess[c] \in {"establishing", "serving"}) => refs > 0

(* The object that listen was called on, as ServerObject sees it.  The     *)
(* call is the first; a sender that goes away looks like a second call,    *)
(* which fails because the first has bound the address.                    *)
Object == INSTANCE ServerObject WITH
  ReqIds <- {}, MaxListens <- 2,
  address <- "ours", recorded <- <<{}, {}>>,
  current <- IF cmd = "closed" THEN 2 ELSE 1,
  sender <- IF cmd = "closed" THEN 2 ELSE IF cmd = "open" THEN 1 ELSE 0,
  channel <- <<IF cmd = "taken" THEN "sent" ELSE cmd, "open">>,
  listener <- <<IF lpc \in {"select", "blocked"} THEN "running"
                ELSE IF lpc # "dropping" THEN lpc
                ELSE IF cmd = "taken" THEN "draining" ELSE "unwinding",
                IF cmd = "closed" THEN "failed" ELSE "none">>

(* A listener does nothing that its object does not expect of it: it       *)
(* leaves its loop for the command, or by a panic when a failure leaves    *)
(* nothing to wait for, and never comes back.                              *)
ObjectAgrees == [][Object!ObjectNext]_(Object!objectVars)

-----------------------------------------------------------------------------
(* Liveness *)

Stopping == lpc \in {"deaf", "dropping", "exited"}

(* A request is answered unless the listener is stopping (one failed       *)
(* rdma_get_request is enough), or every worker is taken by a session.     *)
RequestAnswered ==
  \A c \in Clients :
    (client[c] = "requested") ~>
      \/ client[c] # "requested"
      \/ Stopping \/ Cardinality(Running) = Workers

(* The session of a client that leaves in order comes to its end even if   *)
(* the server is shut down meanwhile.                                      *)
LeavingSessionEnds ==
  \A c \in Clients :
    (client[c] = "leaving") ~> (sess[c] \in {"ended", "panicked"})

(* What the server's example takes for granted: after shutdown() the       *)
(* cleanup is done.  At least the listener should notice the command.      *)
ShutdownNoticed == (cmd = "sent") ~> (cmd = "taken")
=============================================================================
