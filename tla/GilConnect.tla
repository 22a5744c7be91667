----------------------------- MODULE GilConnect -----------------------------
(***************************************************************************)
(* Processes that serve and connect at the same time, as a set of vLLM     *)
(* workers would, and the lock they do not see: the interpreter's.         *)
(*                                                                         *)
(* connect is called from Python and keeps the GIL until it returns, that  *)
(* is, through the whole handshake.  The binding routes every log record   *)
(* through Python's logging, and the listener, the sessions and the        *)
(* client's worker, all native threads, log: each needs the GIL of its own *)
(* process for a moment, and waits for it.                                 *)
(*                                                                         *)
(* Logging is on (the scripts in rdma-transport-py/examples set DEBUG),    *)
(* every process listens, and of all that may fail in a handshake only     *)
(* what the lock itself brings about is here, a request that nobody        *)
(* answers in time: Handshake and VllmServer have the other cases.         *)
(***************************************************************************)
EXTENDS Naturals

CONSTANTS
  Procs,      (* processes: each has a server and makes connections         *)
  Routes,     (* the pairs <<p, q>> such that p may connect to q's server   *)
  None        (* nobody                                                     *)

ASSUME GilAssumption == Routes \subseteq Procs \X Procs /\ None \notin Procs

VARIABLES
  caller,     (* the server that a thread of the process is connecting to   *)
  link        (* how far the connection of each route is                    *)

vars == <<caller, link>>

(* A thread inside connect holds the GIL of its process. *)
GilFree(p) == caller[p] = None

Pending == {"requested", "taken", "accepting"}

(* The connect that made the request is still there to be answered. *)
Wanted(r) == caller[r[1]] = r[2]

TypeOK ==
  /\ caller \in [Procs -> Procs \cup {None}]
  /\ link \in [Routes -> Pending \cup {"idle", "up", "stopping", "leaving"}]
  /\ \A p \in Procs :
       caller[p] # None =>
         <<p, caller[p]>> \in Routes /\ link[<<p, caller[p]>>] \in Pending

Init ==
  /\ caller = [p \in Procs |-> None]
  /\ link = [r \in Routes |-> "idle"]

Moves(r, from, to) == link[r] = from /\ link' = [link EXCEPT ![r] = to]

-----------------------------------------------------------------------------
(* The client's side of route r, in process r[1]. *)

Connect(r) ==
  /\ GilFree(r[1])
  /\ Moves(r, "idle", "requested")
  /\ caller' = [caller EXCEPT ![r[1]] = r[2]]

(* The connection manager gives up on a request that is not answered: the  *)
(* unwrap in connect panics, which gives the GIL back.  The request stays  *)
(* where it is on the server's side.                                       *)
ConnectFails(r) ==
  /\ link[r] \in Pending /\ Wanted(r)
  /\ caller' = [caller EXCEPT ![r[1]] = None]
  /\ UNCHANGED link

(* shutdown() is a call from Python; it only queues the command. *)
Shutdown(r) ==
  /\ GilFree(r[1])
  /\ Moves(r, "up", "stopping")
  /\ UNCHANGED caller

(* The worker logs `disconnect' before it sends the done notification. *)
LogDisconnect(r) ==
  /\ GilFree(r[1])
  /\ Moves(r, "stopping", "leaving")
  /\ UNCHANGED caller

-----------------------------------------------------------------------------
(* The server's side, in process r[2]. *)

(* The listener's thread takes one request after the other. *)
GetRequest(r) ==
  /\ \A s \in Routes : s[2] = r[2] => link[s] # "taken"
  /\ Moves(r, "requested", "taken")
  /\ UNCHANGED caller

(* Variant: the record is written without Python. *)
LogStartNatively(r) ==
  /\ Moves(r, "taken", "accepting")
  /\ UNCHANGED caller

(* It logs `start qp handshake' before it spawns the session's task. *)
LogStart(r) ==
  /\ GilFree(r[2])
  /\ Moves(r, "taken", "accepting")
  /\ UNCHANGED caller

(* Variant: accept logs too. *)
AcceptAndLog(r) ==
  /\ Wanted(r)
  /\ GilFree(r[2])
  /\ Moves(r, "accepting", "up")
  /\ caller' = [caller EXCEPT ![r[1]] = None]

(* Variant: connect returns and the GIL stays taken. *)
AcceptKeepingGil(r) ==
  /\ Wanted(r)
  /\ Moves(r, "accepting", "up")
  /\ UNCHANGED caller

(* Both sides run the handshake without a word; connect returns. *)
Accept(r) ==
  /\ Wanted(r)
  /\ Moves(r, "accepting", "up")
  /\ caller' = [caller EXCEPT ![r[1]] = None]

(* Nobody is there any more: accept fails, the session's task logs it and  *)
(* is over.                                                                *)
AcceptFails(r) ==
  /\ ~Wanted(r)
  /\ GilFree(r[2])
  /\ Moves(r, "accepting", "idle")
  /\ UNCHANGED caller

(* The session logs the done notification and is over. *)
LogDone(r) ==
  /\ GilFree(r[2])
  /\ Moves(r, "leaving", "idle")
  /\ UNCHANGED caller

-----------------------------------------------------------------------------
Threads(r) == \/ GetRequest(r) \/ LogStart(r) \/ Accept(r) \/ AcceptFails(r)
              \/ LogDisconnect(r) \/ LogDone(r)

Next ==
  \E r \in Routes : Connect(r) \/ ConnectFails(r) \/ Shutdown(r) \/ Threads(r)

Spec == Init /\ [][Next]_vars

(* Requests are taken in the order they came, and a thread that waits for  *)
(* the GIL gets it if it is given up again and again: the interpreter asks *)
(* its holder to hand it over.  (A route has one such step at a time.)     *)
(* Nothing is assumed of the connection manager's patience.                *)
FairSpec == Spec /\ \A r \in Routes : SF_vars(Threads(r))

-----------------------------------------------------------------------------
(* A set of processes each of which waits, inside connect, for the server  *)
(* of another of them, or its own, to begin the handshake.                 *)
Knot(S) ==
  \A p \in S : caller[p] \in S /\ link[<<p, caller[p]>>] \in {"requested", "taken"}

Entangled(p) == \E S \in SUBSET Procs : p \in S /\ Knot(S)

(* Nobody inside or outside a knot can loosen it, whatever they do: each   *)
(* listener in it waits for the GIL that a connect of its own process      *)
(* holds.  It lasts until the connection manager times out one of its own  *)
(* connects; the code sets no timeout.                                     *)
KnotsOutlastAllButTimeouts ==
  [][\A S \in SUBSET Procs :
       Knot(S) => Knot(S)' \/ \E p \in S : ConnectFails(<<p, caller[p]>>)]_vars

(* No native thread of the route has a step to take: it is at rest, its    *)
(* request is behind one that is being taken, or a thread waits for a GIL. *)
Waits(r) ==
  \/ link[r] \in {"idle", "up"}
  \/ link[r] = "requested" /\ \E s \in Routes : s[2] = r[2] /\ link[s] = "taken"
  \/ link[r] = "stopping" /\ ~GilFree(r[1])
  \/ link[r] \in {"taken", "leaving"} /\ ~GilFree(r[2])
  \/ link[r] = "accepting" /\ ~Wanted(r) /\ ~GilFree(r[2])

(* When no thread anywhere has a step left, only knots are left: every     *)
(* process that is still inside connect is in one, and a request that is   *)
(* not disposed of, wanted or not, or a connection whose shutdown did not  *)
(* get through waits for a process that is.                                *)
HangIsKnot ==
  (\A r \in Routes : Waits(r)) =>
    /\ \A p \in Procs : caller[p] # None => Entangled(p)
    /\ \A r \in Routes : link[r] = "stopping" => Entangled(r[1])
    /\ \A r \in Routes : link[r] \in Pending \cup {"leaving"} => Entangled(r[2])

(* Knots are the only way to hang: a connect returns unless its process    *)
(* is or gets into such a knot, and a connection that was shut down is     *)
(* over on both sides in the end, with the same exception for the two      *)
(* threads that have to log it.                                            *)
OnlyKnotsHang ==
  /\ \A p \in Procs : (caller[p] # None) ~> (caller[p] = None \/ Entangled(p))
  /\ \A r \in Routes :
       (link[r] = "stopping") ~>
         (link[r] = "idle" \/ Entangled(r[1]) \/ Entangled(r[2]))
=============================================================================
