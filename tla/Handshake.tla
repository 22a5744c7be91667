------------------------------ MODULE Handshake ------------------------------
(***************************************************************************)
(* Setting up one connection: connect of rdma/client.rs against accept of  *)
(* rdma/server.rs.  The connection manager brings the queue pair up; then  *)
(* each side sends its Connection (address and key of its cpu_buffer) with *)
(* a SEND, and the server writes the list of its GPU buffers into the      *)
(* client's cpu_buffer with immediate data.                                *)
(*                                                                         *)
(* An action takes a side from one call that blocks or spins to the next.  *)
(* What lies between (registering memory, serializing) is local; a call    *)
(* that fails on the way is an action of its own.  The polls themselves do *)
(* not fail.  Queues are slots, as in VllmSession.                         *)
(***************************************************************************)
EXTENDS Naturals

CONSTANTS
  BufferCounts,    (* bound: how many GPU buffers the server may have       *)
  CpuBufferSize,   (* CPU_BUFFER_BASE_SIZE                                  *)
  MaxErrors        (* bound: failed calls and link failures in a behaviour  *)

ASSUME HandshakeAssumption ==
  BufferCounts \subseteq Nat /\ CpuBufferSize \in Nat /\ MaxErrors \in Nat

Sides == {"client", "server"}
Peer(s) == IF s = "client" THEN "server" ELSE "client"

VARIABLES
  pc,       (* where each side is                                           *)
  cm,       (* the connection manager's exchange                            *)
  qp,       (* the queue pair of each side                                  *)
  send,     (* the slot of each send queue                                  *)
  recv,     (* the slot of each receive queue                               *)
  conn,     (* the Connection each side received: whose buffer it names     *)
  cpu,      (* each cpu_buffer: how many buffers the list in it names       *)
  gpuMap,   (* how many buffers the client ends up knowing                  *)
  count,    (* how many GPU buffers the server registers                    *)
  errors    (* failures so far                                              *)

vars == <<pc, cm, qp, send, recv, conn, cpu, gpuMap, count, errors>>

None == "none"
Unset == 1000000    \* no list of buffers yet
Partial == 1000001  \* the first packets of one
FreeSend == [st |-> "free", op |-> None]
FreeRecv == [st |-> "free", opcode |-> None]

ClientPCs == {"start", "connecting", "pollSend", "pollRecv", "pollConns",
              "connected", "failed"}
ServerPCs == {"start", "listening", "requested", "accepting", "pollRecv", "pollSend",
              "pollConns", "session", "failed", "closed", "panicked"}

TypeOK ==
  /\ pc["client"] \in ClientPCs /\ pc["server"] \in ServerPCs
  /\ cm \in {"idle", "rejected", "requested", "accepted", "established", "broken"}
  /\ qp \in [Sides -> {"INIT", "RTS", "ERR"}]
  /\ send \in [Sides -> [st : {"free", "posted", "executed", "ok", "err"},
                         op : {None, "send", "imm"}]]
  /\ recv \in [Sides -> [st : {"free", "posted", "ok", "err"},
                         opcode : {None, "recv", "imm"}]]
  /\ conn \in [Sides -> Sides \cup {None}]
  /\ cpu \in [Sides -> Nat] /\ gpuMap \in Nat
  /\ count \in BufferCounts
  /\ errors \in 0 .. MaxErrors

Init ==
  /\ pc = [client |-> "start", server |-> "start"]
  /\ cm = "idle" /\ qp = [s \in Sides |-> "INIT"]
  /\ send = [s \in Sides |-> FreeSend] /\ recv = [s \in Sides |-> FreeRecv]
  /\ conn = [s \in Sides |-> None]
  /\ cpu = [s \in Sides |-> Unset] /\ gpuMap = Unset
  /\ count \in BufferCounts
  /\ errors = 0

-----------------------------------------------------------------------------
Goto(s, label) == pc' = [pc EXCEPT ![s] = label]

MayFail == errors < MaxErrors /\ errors' = errors + 1

PostRecv(s) == recv' = [recv EXCEPT ![s] = [FreeRecv EXCEPT !.st = "posted"]]

Post(s, op) == send' = [send EXCEPT ![s] = [st |-> "posted", op |-> op]]

SendDone(s) == send[s].st \in {"ok", "err"}
TakeSend(s) == send' = [send EXCEPT ![s] = FreeSend]
RecvDone(s) == recv[s].st \in {"ok", "err"}

-----------------------------------------------------------------------------
(* The client: connect and its establish_conn. *)

(* Memory is registered, the receive for the server's Connection posted    *)
(* and the request sent; any of it may fail before the request leaves.     *)
RequestConnection ==
  /\ pc["client"] = "start"
  /\ PostRecv("client")
  /\ cm' = IF pc["server"] = "listening" THEN "requested" ELSE "rejected"
  /\ Goto("client", "connecting")
  /\ UNCHANGED <<qp, send, conn, cpu, gpuMap, count, errors>>

PrepareFails ==
  /\ pc["client"] = "start"
  /\ MayFail
  /\ PostRecv("client") \/ UNCHANGED recv
  /\ Goto("client", "failed")
  /\ UNCHANGED <<cm, qp, send, conn, cpu, gpuMap, count>>

(* rdma_connect returns and the client sends its Connection *)
ConnectReturns ==
  /\ pc["client"] = "connecting" /\ cm = "accepted"
  /\ cm' = "established"
  /\ qp' = [qp EXCEPT !["client"] = "RTS"]
  /\ Post("client", "send")
  /\ Goto("client", "pollSend")
  /\ UNCHANGED <<recv, conn, cpu, gpuMap, count, errors>>

(* ... or that send is refused, on a connection that is up. *)
SendConnectionFails ==
  /\ pc["client"] = "connecting" /\ cm = "accepted"
  /\ MayFail
  /\ cm' = "established"
  /\ qp' = [qp EXCEPT !["client"] = "RTS"]
  /\ Goto("client", "failed")
  /\ UNCHANGED <<send, recv, conn, cpu, gpuMap, count>>

(* Nobody listens at the address, the server's side of the exchange broke  *)
(* down, or its task failed before accepting and nobody answers.           *)
ConnectFails ==
  /\ pc["client"] = "connecting"
  /\ \/ cm \in {"rejected", "broken"}
     \/ cm = "requested" /\ pc["server"] \in {"failed", "closed", "panicked"}
  /\ Goto("client", "failed")
  /\ UNCHANGED <<cm, qp, send, recv, conn, cpu, gpuMap, count, errors>>

(* The answer does not come in time, or cannot be processed: the queue     *)
(* pair of the client never comes up.                                      *)
ConnectBreaks ==
  /\ pc["client"] = "connecting" /\ cm \in {"requested", "accepted"}
  /\ MayFail
  /\ cm' = "broken"
  /\ Goto("client", "failed")
  /\ UNCHANGED <<qp, send, recv, conn, cpu, gpuMap, count>>

ClientPollSend ==
  /\ pc["client"] = "pollSend" /\ SendDone("client")
  /\ TakeSend("client")
  /\ Goto("client", IF send["client"].st = "ok" THEN "pollRecv" ELSE "failed")
  /\ UNCHANGED <<cm, qp, recv, conn, cpu, gpuMap, count, errors>>

(* Variant: the poll gives up after a while. *)
ClientPollRecvWithTimeout ==
  /\ pc["client"] = "pollRecv"
  /\ IF recv["client"].st = "ok"
       THEN PostRecv("client") /\ Goto("client", "pollConns")
       ELSE UNCHANGED recv /\ Goto("client", "failed")
  /\ UNCHANGED <<cm, qp, send, conn, cpu, gpuMap, count, errors>>

(* Variant: no receive is posted for the list. *)
ClientPollRecvOnce ==
  /\ pc["client"] = "pollRecv" /\ RecvDone("client")
  /\ recv' = [recv EXCEPT !["client"] = FreeRecv]
  /\ Goto("client", IF recv["client"].st = "ok" THEN "pollConns" ELSE "failed")
  /\ UNCHANGED <<cm, qp, send, conn, cpu, gpuMap, count, errors>>

(* The server's Connection is there; the receive for the list is posted. *)
ClientPollRecv ==
  /\ pc["client"] = "pollRecv" /\ RecvDone("client")
  /\ IF recv["client"].st = "ok"
       THEN PostRecv("client") /\ Goto("client", "pollConns")
       ELSE recv' = [recv EXCEPT !["client"] = FreeRecv] /\ Goto("client", "failed")
  /\ UNCHANGED <<cm, qp, send, conn, cpu, gpuMap, count, errors>>

(* The receive for the list is refused. *)
ListRecvFails ==
  /\ pc["client"] = "pollRecv" /\ recv["client"].st = "ok"
  /\ MayFail
  /\ recv' = [recv EXCEPT !["client"] = FreeRecv]
  /\ Goto("client", "failed")
  /\ UNCHANGED <<cm, qp, send, conn, cpu, gpuMap, count>>

(* Variant: another receive is posted, as after the Connection. *)
ClientPollConnsReposts ==
  /\ pc["client"] = "pollConns" /\ RecvDone("client")
  /\ PostRecv("client")
  /\ IF recv["client"] = [st |-> "ok", opcode |-> "imm"]
       THEN gpuMap' = cpu["client"] /\ Goto("client", "connected")
       ELSE UNCHANGED gpuMap /\ Goto("client", "failed")
  /\ UNCHANGED <<cm, qp, send, conn, cpu, count, errors>>

ClientPollConns ==
  /\ pc["client"] = "pollConns" /\ RecvDone("client")
  /\ recv' = [recv EXCEPT !["client"] = FreeRecv]
  /\ IF recv["client"] = [st |-> "ok", opcode |-> "imm"]
       THEN gpuMap' = cpu["client"] /\ Goto("client", "connected")
       ELSE UNCHANGED gpuMap /\ Goto("client", "failed")
  /\ UNCHANGED <<cm, qp, send, conn, cpu, count, errors>>

Client ==
  \/ RequestConnection \/ ConnectReturns \/ ConnectFails
  \/ ClientPollSend \/ ClientPollRecv \/ ClientPollConns

ClientFails ==
  PrepareFails \/ SendConnectionFails \/ ConnectBreaks \/ ListRecvFails

-----------------------------------------------------------------------------
(* The server: the spawned task runs accept and its establish_conn. *)

(* init: resolve the address, create the endpoint, listen *)
ServerInit ==
  /\ pc["server"] = "start"
  /\ Goto("server", "listening")
  /\ UNCHANGED <<cm, qp, send, recv, conn, cpu, gpuMap, count, errors>>

ServerInitFails ==
  /\ pc["server"] = "start"
  /\ MayFail
  /\ Goto("server", "panicked")
  /\ UNCHANGED <<cm, qp, send, recv, conn, cpu, gpuMap, count>>

(* The request of a client that has given up looks like any other. *)
GetRequest ==
  /\ pc["server"] = "listening" /\ cm \in {"requested", "broken"}
  /\ Goto("server", "requested")
  /\ UNCHANGED <<cm, qp, send, recv, conn, cpu, gpuMap, count, errors>>

(* Variant: the request is accepted without a receive posted. *)
AcceptWithoutReceive ==
  /\ pc["server"] = "requested"
  /\ cm' = "accepted"
  /\ qp' = [qp EXCEPT !["server"] = "RTS"]
  /\ Goto("server", "accepting")
  /\ UNCHANGED <<send, recv, conn, cpu, gpuMap, count, errors>>

(* Memory is registered, the receive for the client's Connection posted    *)
(* before the request is accepted.                                         *)
AcceptRequest ==
  /\ pc["server"] = "requested"
  /\ PostRecv("server")
  /\ cm' = IF cm = "requested" THEN "accepted" ELSE cm
  /\ qp' = [qp EXCEPT !["server"] = "RTS"]
  /\ Goto("server", "accepting")
  /\ UNCHANGED <<send, conn, cpu, gpuMap, count, errors>>

(* Any call up to rdma_accept fails, the receive posted by then or not. *)
AcceptFails ==
  /\ pc["server"] = "requested"
  /\ MayFail
  /\ PostRecv("server") \/ UNCHANGED recv
  /\ Goto("server", "failed")
  /\ UNCHANGED <<cm, qp, send, conn, cpu, gpuMap, count>>

AcceptReturns ==
  /\ pc["server"] = "accepting" /\ cm = "established"
  /\ Goto("server", "pollRecv")
  /\ UNCHANGED <<cm, qp, send, recv, conn, cpu, gpuMap, count, errors>>

(* rdma_accept fails: the client is no longer there. *)
AcceptUnanswered ==
  /\ pc["server"] = "accepting" /\ cm = "broken"
  /\ Goto("server", "failed")
  /\ UNCHANGED <<cm, qp, send, recv, conn, cpu, gpuMap, count, errors>>

(* It fails although the client is there, which may have returned from     *)
(* rdma_connect by then.  The connection manager's patience (a minute of   *)
(* retries) outlasts that of the client's queue pair (seconds): a          *)
(* Connection sent meanwhile has arrived or failed.                        *)
AcceptBreaks ==
  /\ pc["server"] = "accepting"
  /\ \/ cm = "accepted" /\ cm' = "broken"
     \/ cm = "established" /\ send["client"].st # "posted" /\ UNCHANGED cm
  /\ MayFail
  /\ Goto("server", "failed")
  /\ UNCHANGED <<qp, send, recv, conn, cpu, gpuMap, count>>

(* Variant: the list is sent in place of the server's Connection. *)
ServerPollRecvSendsList ==
  /\ pc["server"] = "pollRecv" /\ RecvDone("server")
  /\ recv' = [recv EXCEPT !["server"] = FreeRecv]
  /\ Post("server", "imm") /\ Goto("server", "pollConns")
  /\ UNCHANGED <<cm, qp, conn, cpu, gpuMap, count, errors>>

ServerPollRecv ==
  /\ pc["server"] = "pollRecv" /\ RecvDone("server")
  /\ recv' = [recv EXCEPT !["server"] = FreeRecv]
  /\ IF recv["server"].st = "ok"
       THEN Post("server", "send") /\ Goto("server", "pollSend")
       ELSE UNCHANGED send /\ Goto("server", "failed")
  /\ UNCHANGED <<cm, qp, conn, cpu, gpuMap, count, errors>>

(* The Connection is sent inline, for which this side's queue pair has not *)
(* asked for room.                                                         *)
InlineSendFails ==
  /\ pc["server"] = "pollRecv" /\ recv["server"].st = "ok"
  /\ MayFail
  /\ recv' = [recv EXCEPT !["server"] = FreeRecv]
  /\ Goto("server", "failed")
  /\ UNCHANGED <<cm, qp, send, conn, cpu, gpuMap, count>>

(* bincode: 8 bytes for the length, 12 for each Connection *)
ListSize(n) == 8 + 12 * n

(* The list is serialized, if it fits, and written to the client. *)
ServerPollSend ==
  /\ pc["server"] = "pollSend" /\ SendDone("server")
  /\ IF send["server"].st = "ok" /\ ListSize(count) <= CpuBufferSize
       THEN /\ cpu' = [cpu EXCEPT !["server"] = count]
            /\ Post("server", "imm")
            /\ Goto("server", "pollConns")
       ELSE TakeSend("server") /\ UNCHANGED cpu /\ Goto("server", "failed")
  /\ UNCHANGED <<cm, qp, recv, conn, gpuMap, count, errors>>

(* The write is refused. *)
ListWriteFails ==
  /\ pc["server"] = "pollSend" /\ send["server"].st = "ok"
  /\ MayFail
  /\ TakeSend("server")
  /\ cpu' = [cpu EXCEPT !["server"] = count]
  /\ Goto("server", "failed")
  /\ UNCHANGED <<cm, qp, recv, conn, gpuMap, count>>

(* Variant: the session starts before the list is known to have arrived. *)
ServerStartsAtOnce ==
  /\ pc["server"] = "pollConns"
  /\ send' = [send EXCEPT !["server"] = FreeSend]
  /\ Goto("server", "session")
  /\ UNCHANGED <<cm, qp, recv, conn, cpu, gpuMap, count, errors>>

ServerPollConns ==
  /\ pc["server"] = "pollConns" /\ SendDone("server")
  /\ TakeSend("server")
  /\ Goto("server", IF send["server"].st = "ok" THEN "session" ELSE "failed")
  /\ UNCHANGED <<cm, qp, recv, conn, cpu, gpuMap, count, errors>>

(* server_disconnect(..).unwrap().  On a connection that never came up the *)
(* outcome of rdma_disconnect is left open.                                *)
ServerGivesUp ==
  /\ pc["server"] = "failed"
  /\ qp' = [qp EXCEPT !["server"] = "ERR"]
  /\ \/ Goto("server", "closed")
     \/ cm # "established" /\ Goto("server", "panicked")
  /\ UNCHANGED <<cm, send, recv, conn, cpu, gpuMap, count, errors>>

(* rdma_disconnect fails, before or after the queue pair was taken down. *)
DisconnectFails ==
  /\ pc["server"] = "failed"
  /\ MayFail
  /\ qp' = [qp EXCEPT !["server"] = "ERR"] \/ UNCHANGED qp
  /\ Goto("server", "panicked")
  /\ UNCHANGED <<cm, send, recv, conn, cpu, gpuMap, count>>

Server ==
  \/ ServerInit \/ GetRequest \/ AcceptRequest \/ AcceptReturns \/ AcceptUnanswered
  \/ ServerPollRecv \/ ServerPollSend \/ ServerPollConns \/ ServerGivesUp

ServerFails ==
  \/ ServerInitFails \/ AcceptFails \/ AcceptBreaks
  \/ InlineSendFails \/ ListWriteFails \/ DisconnectFails

-----------------------------------------------------------------------------
(* The adapters. *)

Carrying(s, op) ==
  /\ qp[s] = "RTS" /\ qp[Peer(s)] = "RTS"
  /\ send[s] = [st |-> "posted", op |-> op]
  /\ recv[Peer(s)].st = "posted"

Consume(s, opcode) ==
  /\ recv' = [recv EXCEPT ![Peer(s)] = [st |-> "ok", opcode |-> opcode]]
  /\ send' = [send EXCEPT ![s].st = "executed"]

(* A SEND of the sender's Connection lands in the posted struct. *)
DeliverSend(s) ==
  /\ Carrying(s, "send")
  /\ Consume(s, "recv")
  /\ conn' = [conn EXCEPT ![Peer(s)] = s]
  /\ UNCHANGED <<pc, cm, qp, cpu, gpuMap, count, errors>>

(* All but the last packet of the write may land while no receive is       *)
(* posted, where the path carries less than its 4096 bytes in one.         *)
PlaceEarly(s) ==
  /\ \A t \in Sides : qp[t] = "RTS"
  /\ send[s] = [st |-> "posted", op |-> "imm"]
  /\ cpu' = [cpu EXCEPT ![conn[s]] = Partial]
  /\ UNCHANGED <<pc, cm, qp, send, recv, conn, gpuMap, count, errors>>

(* The write is whole, in the buffer the Connection names. *)
DeliverConns(s) ==
  /\ Carrying(s, "imm")
  /\ Consume(s, "imm")
  /\ cpu' = [cpu EXCEPT ![conn[s]] = cpu[s]]
  /\ UNCHANGED <<pc, cm, qp, conn, gpuMap, count, errors>>

Acknowledge(s) ==
  /\ qp[s] = "RTS" /\ send[s].st = "executed"
  /\ send' = [send EXCEPT ![s].st = "ok"]
  /\ UNCHANGED <<pc, cm, qp, recv, conn, cpu, gpuMap, count, errors>>

(* The transport gives up: the link failed, or the peer's end is down. *)
SendFails(s) ==
  /\ qp[s] = "RTS" /\ send[s].st \in {"posted", "executed"}
  /\ \/ MayFail
     \/ qp[Peer(s)] = "ERR" /\ send[s].st = "posted" /\ UNCHANGED errors
  /\ qp' = [qp EXCEPT ![s] = "ERR"]
  /\ send' = [send EXCEPT ![s].st = "err"]
  /\ UNCHANGED <<pc, cm, recv, conn, cpu, gpuMap, count>>

Flush(s) ==
  /\ qp[s] = "ERR"
  /\ \/ /\ send[s].st \in {"posted", "executed"}
        /\ send' = [send EXCEPT ![s].st = "err"]
        /\ UNCHANGED recv
     \/ /\ recv[s].st = "posted"
        /\ recv' = [recv EXCEPT ![s].st = "err"]
        /\ UNCHANGED send
  /\ UNCHANGED <<pc, cm, qp, conn, cpu, gpuMap, count, errors>>

Carry(s) == DeliverSend(s) \/ DeliverConns(s) \/ Acknowledge(s) \/ Flush(s)

Next ==
  \/ Client \/ ClientFails
  \/ Server \/ ServerFails
  \/ \E s \in Sides : Carry(s) \/ SendFails(s) \/ PlaceEarly(s)

(* SendFails is fair only through the peer's failure: a dead peer makes    *)
(* the retries run out.                                                    *)
PeerDown(s) == SendFails(s) /\ errors' = errors

FairSpec ==
  /\ Init /\ [][Next]_vars
  /\ WF_vars(Client) /\ WF_vars(Server)
  /\ \A s \in Sides : WF_vars(Carry(s)) /\ WF_vars(PeerDown(s))

-----------------------------------------------------------------------------
(* Safety *)

(* What the handshake is for: a connected client writes to the server's    *)
(* cpu_buffer and knows every GPU buffer of the server, and by the time a  *)
(* session starts the server's list has reached the client.                *)
HandshakeAgreement ==
  /\ pc["client"] = "connected" => conn["client"] = "server" /\ gpuMap = count
  /\ pc["server"] = "session" =>
       /\ conn["server"] = "client"
       /\ cpu["client"] = count
       /\ pc["client"] = "connected" \/ recv["client"].st = "ok"

(* With one receive posted at a time, every message meets the receive that *)
(* is meant for it: each completion is of the message the side waits for   *)
(* (the client's check for the opcode of the list, an error in the code,   *)
(* never fires), and neither Connection has to wait for a receiver, as     *)
(* both sides post theirs before the connection comes up.                  *)
MessagesMeetTheirReceive ==
  /\ (pc["client"] = "pollRecv" /\ recv["client"].st = "ok") =>
       recv["client"].opcode = "recv"
  /\ (pc["client"] = "pollConns" /\ recv["client"].st = "ok") =>
       recv["client"].opcode = "imm"
  /\ recv["server"].st = "ok" => recv["server"].opcode = "recv"
  /\ \A s \in Sides :
       (send[s] = [st |-> "posted", op |-> "send"] /\ qp[Peer(s)] = "RTS") =>
         recv[Peer(s)].st = "posted"

(* The handshake leaves each side as VllmSession takes it over: nothing    *)
(* posted and no completion unpolled in queues that have room for one, and *)
(* both queue pairs up when both sides have come through.  Otherwise the   *)
(* first poll of the session would take a message of the handshake for its *)
(* own, or its first post would be refused.                                *)
Through(s) == pc[s] = IF s = "client" THEN "connected" ELSE "session"

SessionStartsClean ==
  /\ \A s \in Sides : Through(s) => send[s] = FreeSend /\ recv[s] = FreeRecv
  /\ (\A s \in Sides : Through(s)) => \A s \in Sides : qp[s] = "RTS"

(* A Connection is received into a variable of establish_conn and the list *)
(* into a buffer that connect owns: whichever side gives up, and however   *)
(* early, nothing arrives there once the call has returned.  Nothing in    *)
(* the code takes a posted receive or a registered region back.  The one   *)
(* exception is the first packets of a list whose receive was refused: the *)
(* server was told the buffer's address and does not know that connect     *)
(* has failed and freed it.                                                *)
Receiving == [client |-> {"connecting", "pollSend", "pollRecv"},
              server |-> {"accepting", "pollRecv"}]

InConnect == Receiving["client"] \cup {"pollConns"}

ListRefused ==
  pc["client"] = "failed" /\ recv["client"] = FreeRecv /\ conn["client"] = "server"

LandsInLiveMemory ==
  [][/\ \A s \in Sides : conn'[s] # conn[s] => pc[s] \in Receiving[s]
     /\ cpu'["client"] # cpu["client"] =>
          pc["client"] \in InConnect \/ (ListRefused /\ cpu'["client"] = Partial)]_vars

(* When a side is at its end, or waits for the other or for a completion,  *)
(* and when an adapter has nothing to do for its side.                     *)
GivenUp(s) == pc[s] \in {"failed", "closed", "panicked"}

ClientWaits ==
  \/ Through("client") \/ GivenUp("client")
  \/ /\ pc["client"] = "connecting" /\ cm \notin {"accepted", "rejected", "broken"}
     /\ ~(cm = "requested" /\ GivenUp("server"))
  \/ pc["client"] = "pollSend" /\ ~SendDone("client")
  \/ pc["client"] \in {"pollRecv", "pollConns"} /\ ~RecvDone("client")

ServerWaits ==
  \/ Through("server") \/ pc["server"] \in {"closed", "panicked"}
  \/ pc["server"] = "listening" /\ cm \notin {"requested", "broken"}
  \/ pc["server"] = "accepting" /\ cm \notin {"established", "broken"}
  \/ pc["server"] = "pollRecv" /\ ~RecvDone("server")
  \/ pc["server"] \in {"pollSend", "pollConns"} /\ ~SendDone("server")

AdapterWaits(s) ==
  /\ qp[s] = "RTS" =>
       /\ send[s].st # "executed"
       /\ send[s].st = "posted" =>
            qp[Peer(s)] # "ERR" /\ ~Carrying(s, send[s].op)
  /\ qp[s] = "ERR" =>
       send[s].st \notin {"posted", "executed"} /\ recv[s].st # "posted"

(* Nobody is left waiting but by a peer that gave up: when no step is left *)
(* that the code or an adapter would take, each side is through or has     *)
(* given up, or the other has and never said so.  In particular both sides *)
(* never wait for each other, at whatever call and however often one       *)
(* failed.                                                                 *)
OnlyDesertedHang ==
  (ClientWaits /\ ServerWaits /\ \A s \in Sides : AdapterWaits(s)) =>
    \A s \in Sides : Through(s) \/ GivenUp(s) \/ GivenUp(Peer(s))

(* Every attempt comes to an end, except that the peer of a side that gave *)
(* up may spin on its receive queue for ever: nobody tells it.             *)
HandshakeSettles ==
  <>(\/ pc["client"] = "connected" /\ pc["server"] = "session"
     \/ pc["client"] = "failed"
     \/ pc["server"] \in {"closed", "panicked"})
=============================================================================
