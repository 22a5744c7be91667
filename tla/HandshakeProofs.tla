--------------------------- MODULE HandshakeProofs ---------------------------
(***************************************************************************)
(* For any number of GPU buffers, any size of the cpu_buffers and any      *)
(* number of failed calls: the two sides of Handshake stay in step.        *)
(***************************************************************************)
EXTENDS Handshake, TLAPS

Idle(s) == send[s].st = "free" /\ recv[s].st = "free"

(* What the slots of a side hold at each of its program points; its queue  *)
(* pair is in error whenever a completion is.                              *)
SlotInv ==
  \A s \in Sides :
    /\ send[s].st = "free" => send[s].op = None
    /\ recv[s].st = "free" => recv[s].opcode = None
    /\ send[s].st \in {"posted", "executed", "ok"} => qp[s] = "RTS"
    /\ send[s].st = "err" \/ recv[s].st = "err" => qp[s] = "ERR"

(* The server has no Connection of the client's to answer. *)
Unheard ==
  /\ pc["server"] \in {"accepting", "pollRecv", "failed", "closed", "panicked"}
  /\ recv["server"].st # "ok"

ClientInv ==
  /\ (qp["client"] = "INIT") <=> (cm # "established")
  /\ send["client"].op # "imm"
  /\ pc["client"] = "start" => Idle("client") /\ cm = "idle"
  /\ pc["client"] = "connecting" =>
       /\ send["client"].st = "free" /\ recv["client"].st = "posted"
       /\ cm \notin {"idle", "established"}
  /\ pc["client"] = "pollSend" =>
       /\ send["client"].op = "send" /\ recv["client"].st # "free"
       /\ cm = "established"
  /\ pc["client"] \in {"pollRecv", "pollConns"} =>
       /\ send["client"].st = "free" /\ recv["client"].st # "free"
       /\ cm = "established"
  /\ pc["client"] \in {"pollRecv", "pollConns", "connected"} => qp["client"] = "RTS"
  /\ pc["client"] = "connected" => Idle("client")
  /\ pc["client"] = "failed" => send["client"].st = "free"
  /\ (pc["client"] = "failed" /\ qp["client"] = "RTS") =>
       \/ recv["client"].st = "posted" /\ conn["client"] = None /\ Unheard
       \/ recv["client"].st = "free" /\ conn["client"] = "server"

ServerInv ==
  /\ pc["server"] \in {"start", "listening", "requested"} =>
       Idle("server") /\ qp["server"] = "INIT"
  /\ pc["server"] = "start" => cm \in {"idle", "rejected"}
  /\ pc["server"] = "listening" => cm \in {"idle", "rejected", "requested", "broken"}
  /\ pc["server"] = "requested" => cm \in {"requested", "broken"}
  /\ cm = "accepted" => pc["server"] = "accepting" /\ recv["server"].st = "posted"
  /\ pc["server"] = "accepting" => cm \in {"accepted", "established", "broken"}
  /\ pc["server"] \in {"accepting", "pollRecv"} =>
       /\ send["server"].st = "free" /\ recv["server"].st # "free"
       /\ qp["server"] = "RTS"
  /\ pc["server"] \in {"pollRecv", "pollSend", "pollConns", "session"} =>
       cm = "established" /\ qp["server"] # "INIT"
  /\ pc["server"] \in {"pollSend", "pollConns", "session"} =>
       recv["server"].st = "free" /\ conn["server"] = "client"
  /\ pc["server"] = "pollSend" => send["server"].op = "send"
  /\ pc["server"] = "pollConns" =>
       send["server"].op = "imm" /\ cpu["server"] = count
  /\ pc["server"] = "session" => qp["server"] = "RTS"
  /\ pc["server"] \in {"session", "failed", "closed", "panicked"} =>
       send["server"].st = "free"
  /\ (pc["server"] \in {"failed", "panicked"} /\ recv["server"].st = "posted") =>
       send["client"].st # "posted"
  /\ pc["server"] = "closed" => qp["server"] # "RTS"
  /\ recv["server"].st = "ok" =>
       recv["server"].opcode = "recv" /\ conn["server"] = "client"

(* The server's Connection: None until it is delivered, then in the        *)
(* client's receive queue until it is polled.                              *)
ConnInv ==
  /\ conn["client"] \in {None, "server"} /\ conn["server"] \in {None, "client"}
  /\ pc["client"] \in {"start", "connecting"} => conn["client"] = None
  /\ pc["client"] \in {"pollConns", "connected"} => conn["client"] = "server"
  /\ pc["client"] \in {"pollSend", "pollRecv"} =>
       IF recv["client"].st = "ok"
         THEN recv["client"].opcode = "recv" /\ conn["client"] = "server"
         ELSE conn["client"] = None
  /\ pc["server"] \in {"start", "listening", "requested", "accepting", "pollRecv"}
       => conn["client"] = None
  /\ send["server"].op = "send" =>
       /\ send["server"].st = "posted" => conn["client"] = None
       /\ send["server"].st \in {"executed", "ok"} => conn["client"] = "server"
  /\ send["server"].op = "imm" => conn["client"] = "server"
  /\ (send["client"].st = "posted" /\ qp["server"] = "RTS") =>
       recv["server"].st = "posted"

(* The list of buffers, which follows it. *)
ListInv ==
  /\ (pc["client"] = "pollConns" /\ recv["client"].st = "ok") =>
       recv["client"].opcode = "imm" /\ cpu["client"] = count
  /\ pc["client"] = "connected" => gpuMap = count
  /\ (\/ send["server"].op = "imm" /\ send["server"].st \in {"executed", "ok"}
      \/ pc["server"] = "session") =>
       /\ cpu["client"] = count
       /\ \/ pc["client"] = "connected"
          \/ pc["client"] = "pollConns" /\ recv["client"].st = "ok"

(* How far the peer must be: a server that still waits for the client's    *)
(* Connection has it once the client's send is done, and when the client   *)
(* has the list, the server has nothing left to send.                      *)
Listed ==
  pc["client"] = "connected" \/ (pc["client"] = "pollConns" /\ recv["client"].st = "ok")

HeardInv ==
  /\ (/\ \/ send["client"].st \in {"executed", "ok"}
         \/ pc["client"] \in {"pollRecv", "pollConns", "connected"}
      /\ pc["server"] \in {"accepting", "pollRecv"}) =>
       recv["server"].st = "ok"
  /\ Listed =>
       /\ pc["server"] \in {"pollConns", "session", "failed", "closed", "panicked"}
       /\ send["server"].st # "posted"

PcType == pc = [s \in Sides |-> pc[s]]

InStep == SlotInv /\ ClientInv /\ ServerInv /\ ConnInv /\ ListInv /\ HeardInv

IInv == TypeOK /\ PcType /\ InStep

-----------------------------------------------------------------------------
(* The invariant is inductive: the types first, then, action by action, what *)
(* it does to the fields of the two sides and that they remain in step.    *)

LEMMA InitIInv == Init => IInv
  BY HandshakeAssumption
  DEF Init, IInv, InStep, TypeOK, PcType, SlotInv, ClientInv, ServerInv, ConnInv,
      ListInv, HeardInv, Listed, Idle, Unheard, Sides, FreeSend, FreeRecv, None, Unset, ClientPCs, ServerPCs

LEMMA PartialType == Partial \in Nat
  BY SMT DEF Partial

(* The types, and that pc has a value for the two sides alone. *)
LEMMA TypeStep ==
  ASSUME TypeOK, PcType, [Next]_vars
  PROVE  TypeOK' /\ PcType'
<1> USE HandshakeAssumption
    DEF TypeOK, PcType, Sides, ClientPCs, ServerPCs, Goto, FreeSend, FreeRecv, None
<1>1. CASE UNCHANGED vars
  BY <1>1 DEF vars
<1>2. ASSUME MayFail PROVE errors' \in 0 .. MaxErrors
  BY <1>2 DEF MayFail
<1>3. CASE RequestConnection
  BY <1>3 DEF RequestConnection, PostRecv
<1>4. CASE PrepareFails
  <2>1. recv' \in [Sides -> [st : {"free", "posted", "ok", "err"},
                            opcode : {None, "recv", "imm"}]]
    BY <1>4 DEF PrepareFails, PostRecv
  <2>2. /\ pc' = [pc EXCEPT !["client"] = "failed"]
        /\ errors' \in 0 .. MaxErrors
        /\ UNCHANGED <<cm, qp, send, conn, cpu, gpuMap, count>>
    BY <1>2, <1>4 DEF PrepareFails
  <2> QED
    BY <2>1, <2>2
<1>5. CASE ConnectReturns
  BY <1>5 DEF ConnectReturns, Post
<1>6. CASE ConnectFails
  BY <1>6 DEF ConnectFails
<1>21. CASE SendConnectionFails \/ ConnectBreaks \/ ListRecvFails
  BY <1>2, <1>21 DEF SendConnectionFails, ConnectBreaks, ListRecvFails
<1>22. CASE ServerInitFails \/ AcceptBreaks \/ ListWriteFails
  <2>1. CASE ServerInitFails
    BY <1>2, <2>1 DEF ServerInitFails
  <2>2. CASE AcceptBreaks
    BY <1>2, <2>2 DEF AcceptBreaks
  <2>3. CASE ListWriteFails
    BY <1>2, <2>3 DEF ListWriteFails, TakeSend
  <2> QED
    BY <1>22, <2>1, <2>2, <2>3
<1>23. CASE DisconnectFails
  <2>1. qp' \in [Sides -> {"INIT", "RTS", "ERR"}]
    BY <1>23 DEF DisconnectFails
  <2>2. /\ pc' = [pc EXCEPT !["server"] = "panicked"]
        /\ errors' \in 0 .. MaxErrors
        /\ UNCHANGED <<cm, send, recv, conn, cpu, gpuMap, count>>
    BY <1>2, <1>23 DEF DisconnectFails
  <2> QED
    BY <2>1, <2>2
<1>7. CASE ClientPollSend
  BY <1>7 DEF ClientPollSend, TakeSend
<1>8. CASE ClientPollRecv
  BY <1>8 DEF ClientPollRecv, PostRecv
<1>9. CASE ClientPollConns
  BY <1>9 DEF ClientPollConns
<1>10. CASE ServerInit \/ GetRequest \/ AcceptReturns \/ AcceptUnanswered
  BY <1>10 DEF ServerInit, GetRequest, AcceptReturns, AcceptUnanswered
<1>11. CASE AcceptRequest
  BY <1>11 DEF AcceptRequest, PostRecv
<1>12. CASE AcceptFails
  <2>1. recv' \in [Sides -> [st : {"free", "posted", "ok", "err"},
                            opcode : {None, "recv", "imm"}]]
    BY <1>12 DEF AcceptFails, PostRecv
  <2>2. /\ pc' = [pc EXCEPT !["server"] = "failed"]
        /\ errors' \in 0 .. MaxErrors
        /\ UNCHANGED <<cm, qp, send, conn, cpu, gpuMap, count>>
    BY <1>2, <1>12 DEF AcceptFails
  <2> QED
    BY <2>1, <2>2
<1>13. CASE ServerPollRecv
  BY <1>13 DEF ServerPollRecv, Post
<1>14. CASE InlineSendFails
  BY <1>2, <1>14 DEF InlineSendFails
<1>15. CASE ServerPollSend
  BY <1>15 DEF ServerPollSend, Post, TakeSend
<1>16. CASE ServerPollConns
  BY <1>16 DEF ServerPollConns, TakeSend
<1>17. CASE ServerGivesUp
  BY <1>17 DEF ServerGivesUp
<1>18. ASSUME NEW s \in Sides, DeliverSend(s) \/ DeliverConns(s)
       PROVE  TypeOK' /\ PcType'
  BY <1>18 DEF DeliverSend, DeliverConns, Consume, Peer
<1>19. ASSUME NEW s \in Sides, Acknowledge(s) \/ Flush(s)
       PROVE  TypeOK' /\ PcType'
  BY <1>19 DEF Acknowledge, Flush
<1>20. ASSUME NEW s \in Sides, SendFails(s)
       PROVE  TypeOK' /\ PcType'
  BY <1>2, <1>20 DEF SendFails
<1>24. ASSUME NEW s \in Sides, PlaceEarly(s)
       PROVE  TypeOK' /\ PcType'
  <2>1. cpu' = [cpu EXCEPT ![conn[s]] = Partial] /\ Partial \in Nat
    BY <1>24, PartialType DEF PlaceEarly
  <2>2. cpu' \in [Sides -> Nat]
    BY <2>1
  <2>3. UNCHANGED <<pc, cm, qp, send, recv, conn, gpuMap, count, errors>>
    BY <1>24 DEF PlaceEarly
  <2> QED
    BY <2>2, <2>3
<1> QED
  BY <1>1, <1>3, <1>4, <1>5, <1>6, <1>7, <1>8, <1>9, <1>10, <1>11, <1>12, <1>13,
     <1>14, <1>15, <1>16, <1>17, <1>18, <1>19, <1>20, <1>21, <1>22, <1>23, <1>24
  DEF Next, Client, ClientFails, Server, ServerFails, Carry

LEMMA ClientStep ==
  ASSUME IInv, Client \/ ClientFails
  PROVE  InStep'
<1> USE DEF IInv, TypeOK, PcType, Sides, ClientPCs, ServerPCs, FreeSend, FreeRecv,
            None, Unset, SlotInv, ClientInv, ServerInv, ConnInv, ListInv, HeardInv,
            Listed, Idle, Unheard
<1>1. CASE RequestConnection
  <2>1. /\ pc["client"] = "start"
        /\ pc'["client"] = "connecting" /\ pc'["server"] = pc["server"]
        /\ recv'["client"] = [st |-> "posted", opcode |-> None]
        /\ recv'["server"] = recv["server"]
        /\ cm' \in {"requested", "rejected"}
        /\ cm' = "requested" => pc["server"] = "listening"
        /\ UNCHANGED <<qp, send, conn, cpu, gpuMap, count>>
    BY <1>1 DEF RequestConnection, Goto, PostRecv
  <2> QED
    BY <2>1 DEF InStep
<1>2. CASE PrepareFails
  <2>1. /\ pc["client"] = "start"
        /\ pc'["client"] = "failed" /\ pc'["server"] = pc["server"]
        /\ recv'["client"] \in {recv["client"], [st |-> "posted", opcode |-> None]}
        /\ recv'["server"] = recv["server"]
        /\ UNCHANGED <<cm, qp, send, conn, cpu, gpuMap, count>>
    BY <1>2 DEF PrepareFails, Goto, PostRecv
  <2> QED
    BY <2>1 DEF InStep
<1>3. CASE ConnectReturns
  <2>1. /\ pc["client"] = "connecting"
        /\ pc'["client"] = "pollSend" /\ pc'["server"] = pc["server"]
        /\ cm = "accepted" /\ cm' = "established"
        /\ qp'["client"] = "RTS"
        /\ qp'["server"] = qp["server"]
        /\ send'["client"] = [st |-> "posted", op |-> "send"]
        /\ send'["server"] = send["server"]
        /\ UNCHANGED <<recv, conn, cpu, gpuMap, count>>
    BY <1>3 DEF ConnectReturns, Goto, Post
  <2> QED
    BY <2>1 DEF InStep
<1>4. CASE ConnectFails
  <2>1. /\ pc["client"] = "connecting"
        /\ pc'["client"] = "failed" /\ pc'["server"] = pc["server"]
        /\ cm \in {"rejected", "requested", "broken"}
        /\ UNCHANGED <<cm, qp, send, recv, conn, cpu, gpuMap, count>>
    BY <1>4 DEF ConnectFails, Goto
  <2> QED
    BY <2>1 DEF InStep
<1>5. CASE ClientPollSend
  <2>1. /\ pc["client"] = "pollSend"
        /\ send["client"].st \in {"ok", "err"}
        /\ pc'["client"] = IF send["client"].st = "ok" THEN "pollRecv" ELSE "failed"
        /\ pc'["server"] = pc["server"]
        /\ send'["client"] = FreeSend
        /\ send'["server"] = send["server"]
        /\ UNCHANGED <<cm, qp, recv, conn, cpu, gpuMap, count>>
    BY <1>5 DEF ClientPollSend, Goto, TakeSend, SendDone
  <2> QED
    BY <2>1 DEF InStep
<1>6. CASE ClientPollRecv
  <2>1. /\ pc["client"] = "pollRecv" /\ pc'["server"] = pc["server"]
        /\ recv["client"].st \in {"ok", "err"} /\ recv'["server"] = recv["server"]
        /\ recv["client"].st = "ok" =>
             /\ pc'["client"] = "pollConns"
             /\ recv'["client"] = [st |-> "posted", opcode |-> None]
        /\ recv["client"].st = "err" =>
             pc'["client"] = "failed" /\ recv'["client"] = FreeRecv
        /\ UNCHANGED <<cm, qp, send, conn, cpu, gpuMap, count>>
    BY <1>6 DEF ClientPollRecv, Goto, PostRecv, RecvDone
  <2> QED
    BY <2>1 DEF InStep
<1>7. CASE ClientPollConns
  <2>1. /\ pc["client"] = "pollConns" /\ pc'["server"] = pc["server"]
        /\ recv["client"].st \in {"ok", "err"}
        /\ recv'["client"] = FreeRecv
        /\ recv'["server"] = recv["server"]
        /\ \/ /\ recv["client"].st = "ok" /\ gpuMap' = cpu["client"]
              /\ pc'["client"] = "connected"
           \/ /\ pc'["client"] = "failed" /\ gpuMap' = gpuMap
              /\ recv["client"].st = "err" \/ recv["client"].opcode # "imm"
        /\ UNCHANGED <<cm, qp, send, conn, cpu, count>>
    BY <1>7 DEF ClientPollConns, Goto, RecvDone
  <2> QED
    BY <2>1 DEF InStep
<1>8. CASE SendConnectionFails
  <2>1. /\ pc["client"] = "connecting"
        /\ pc'["client"] = "failed" /\ pc'["server"] = pc["server"]
        /\ cm = "accepted" /\ cm' = "established"
        /\ qp'["client"] = "RTS"
        /\ qp'["server"] = qp["server"]
        /\ UNCHANGED <<send, recv, conn, cpu, gpuMap, count>>
    BY <1>8 DEF SendConnectionFails, Goto
  <2> QED
    BY <2>1 DEF InStep
<1>9. CASE ConnectBreaks
  <2>1. /\ pc["client"] = "connecting"
        /\ pc'["client"] = "failed" /\ pc'["server"] = pc["server"]
        /\ cm \in {"requested", "accepted"} /\ cm' = "broken"
        /\ UNCHANGED <<qp, send, recv, conn, cpu, gpuMap, count>>
    BY <1>9 DEF ConnectBreaks, Goto
  <2> QED
    BY <2>1 DEF InStep
<1>10. CASE ListRecvFails
  <2>1. /\ pc["client"] = "pollRecv" /\ recv["client"].st = "ok"
        /\ pc'["client"] = "failed" /\ pc'["server"] = pc["server"]
        /\ recv'["client"] = FreeRecv
        /\ recv'["server"] = recv["server"]
        /\ UNCHANGED <<cm, qp, send, conn, cpu, gpuMap, count>>
    BY <1>10 DEF ListRecvFails, Goto
  <2> QED
    BY <2>1 DEF InStep
<1> QED
  BY <1>1, <1>2, <1>3, <1>4, <1>5, <1>6, <1>7, <1>8, <1>9, <1>10 DEF Client, ClientFails

LEMMA ServerStep ==
  ASSUME IInv, Server \/ ServerFails
  PROVE  InStep'
<1> USE DEF IInv, TypeOK, PcType, Sides, ClientPCs, ServerPCs, FreeSend, FreeRecv,
            None, Unset, SlotInv, ClientInv, ServerInv, ConnInv, ListInv, HeardInv,
            Listed, Idle, Unheard
<1>1. CASE ServerInit
  <2>1. /\ pc["server"] = "start"
        /\ pc'["server"] = "listening" /\ pc'["client"] = pc["client"]
        /\ UNCHANGED <<cm, qp, send, recv, conn, cpu, gpuMap, count>>
    BY <1>1 DEF ServerInit, Goto
  <2> QED
    BY <2>1 DEF InStep
<1>2. CASE ServerInitFails
  <2>1. /\ pc["server"] = "start"
        /\ pc'["server"] = "panicked" /\ pc'["client"] = pc["client"]
        /\ UNCHANGED <<cm, qp, send, recv, conn, cpu, gpuMap, count>>
    BY <1>2 DEF ServerInitFails, Goto
  <2> QED
    BY <2>1 DEF InStep
<1>3. CASE GetRequest
  <2>1. /\ pc["server"] = "listening"
        /\ pc'["server"] = "requested" /\ pc'["client"] = pc["client"]
        /\ cm \in {"requested", "broken"}
        /\ UNCHANGED <<cm, qp, send, recv, conn, cpu, gpuMap, count>>
    BY <1>3 DEF GetRequest, Goto
  <2> QED
    BY <2>1 DEF InStep
<1>4. CASE AcceptRequest
  <2>1. /\ pc["server"] = "requested"
        /\ pc'["server"] = "accepting" /\ pc'["client"] = pc["client"]
        /\ cm' = IF cm = "requested" THEN "accepted" ELSE cm
        /\ qp'["server"] = "RTS"
        /\ qp'["client"] = qp["client"]
        /\ recv'["server"] = [st |-> "posted", opcode |-> None]
        /\ recv'["client"] = recv["client"]
        /\ UNCHANGED <<send, conn, cpu, gpuMap, count>>
    BY <1>4 DEF AcceptRequest, Goto, PostRecv
  <2> QED
    BY <2>1 DEF InStep
<1>5. CASE AcceptFails
  <2>1. /\ pc["server"] = "requested"
        /\ pc'["server"] = "failed" /\ pc'["client"] = pc["client"]
        /\ recv'["server"] \in {recv["server"], [st |-> "posted", opcode |-> None]}
        /\ recv'["client"] = recv["client"]
        /\ UNCHANGED <<cm, qp, send, conn, cpu, gpuMap, count>>
    BY <1>5 DEF AcceptFails, Goto, PostRecv
  <2> QED
    BY <2>1 DEF InStep
<1>6. CASE AcceptReturns
  <2>1. /\ pc["server"] = "accepting"
        /\ pc'["server"] = "pollRecv" /\ pc'["client"] = pc["client"]
        /\ cm = "established"
        /\ UNCHANGED <<cm, qp, send, recv, conn, cpu, gpuMap, count>>
    BY <1>6 DEF AcceptReturns, Goto
  <2> QED
    BY <2>1 DEF InStep
<1>7. CASE ServerPollRecv
  <2>1. /\ pc["server"] = "pollRecv" /\ pc'["client"] = pc["client"]
        /\ recv["server"].st \in {"ok", "err"} /\ send'["client"] = send["client"]
        /\ recv'["server"] = FreeRecv
        /\ recv'["client"] = recv["client"]
        /\ \/ /\ recv["server"].st = "ok" /\ pc'["server"] = "pollSend"
              /\ send'["server"] = [st |-> "posted", op |-> "send"]
           \/ /\ recv["server"].st = "err" /\ pc'["server"] = "failed"
              /\ send'["server"] = send["server"]
        /\ UNCHANGED <<cm, qp, conn, cpu, gpuMap, count>>
    BY <1>7 DEF ServerPollRecv, Goto, Post, RecvDone
  <2> QED
    BY <2>1 DEF InStep
<1>8. CASE InlineSendFails
  <2>1. /\ pc["server"] = "pollRecv"
        /\ pc'["server"] = "failed" /\ pc'["client"] = pc["client"]
        /\ recv["server"].st = "ok"
        /\ recv'["server"] = FreeRecv
        /\ recv'["client"] = recv["client"]
        /\ UNCHANGED <<cm, qp, send, conn, cpu, gpuMap, count>>
    BY <1>8 DEF InlineSendFails, Goto
  <2> QED
    BY <2>1 DEF InStep
<1>9. CASE ServerPollSend
  <2>1. /\ pc["server"] = "pollSend" /\ pc'["client"] = pc["client"]
        /\ send["server"].st \in {"ok", "err"} /\ send'["client"] = send["client"]
        /\ cpu'["client"] = cpu["client"]
        /\ \/ /\ send["server"].st = "ok" /\ pc'["server"] = "pollConns"
              /\ send'["server"] = [st |-> "posted", op |-> "imm"]
              /\ cpu'["server"] = count
           \/ pc'["server"] = "failed" /\ send'["server"] = FreeSend
        /\ UNCHANGED <<cm, qp, recv, conn, gpuMap, count>>
    BY <1>9 DEF ServerPollSend, Goto, Post, TakeSend, SendDone
  <2> QED
    BY <2>1 DEF InStep
<1>10. CASE ServerPollConns
  <2>1. /\ pc["server"] = "pollConns" /\ pc'["client"] = pc["client"]
        /\ send["server"].st \in {"ok", "err"}
        /\ pc'["server"] = IF send["server"].st = "ok" THEN "session" ELSE "failed"
        /\ send'["server"] = FreeSend
        /\ send'["client"] = send["client"]
        /\ UNCHANGED <<cm, qp, recv, conn, cpu, gpuMap, count>>
    BY <1>10 DEF ServerPollConns, Goto, TakeSend, SendDone
  <2> QED
    BY <2>1 DEF InStep
<1>11. CASE ServerGivesUp
  <2>1. /\ pc["server"] = "failed" /\ pc'["client"] = pc["client"]
        /\ pc'["server"] \in {"closed", "panicked"}
        /\ qp'["server"] = "ERR"
        /\ qp'["client"] = qp["client"]
        /\ UNCHANGED <<cm, send, recv, conn, cpu, gpuMap, count>>
    BY <1>11 DEF ServerGivesUp, Goto
  <2> QED
    BY <2>1 DEF InStep
<1>12. CASE AcceptUnanswered
  <2>1. /\ pc["server"] = "accepting" /\ cm = "broken"
        /\ pc'["server"] = "failed" /\ pc'["client"] = pc["client"]
        /\ UNCHANGED <<cm, qp, send, recv, conn, cpu, gpuMap, count>>
    BY <1>12 DEF AcceptUnanswered, Goto
  <2> QED
    BY <2>1 DEF InStep
<1>13. CASE AcceptBreaks
  <2>1. /\ pc["server"] = "accepting"
        /\ pc'["server"] = "failed" /\ pc'["client"] = pc["client"]
        /\ \/ cm = "accepted" /\ cm' = "broken"
           \/ cm = "established" /\ cm' = cm /\ send["client"].st # "posted"
        /\ UNCHANGED <<qp, send, recv, conn, cpu, gpuMap, count>>
    BY <1>13 DEF AcceptBreaks, Goto
  <2> QED
    BY <2>1 DEF InStep
<1>14. CASE ListWriteFails
  <2>1. /\ pc["server"] = "pollSend" /\ send["server"].st = "ok"
        /\ pc'["server"] = "failed" /\ pc'["client"] = pc["client"]
        /\ send'["server"] = FreeSend /\ send'["client"] = send["client"]
        /\ cpu'["client"] = cpu["client"]
        /\ UNCHANGED <<cm, qp, recv, conn, gpuMap, count>>
    BY <1>14 DEF ListWriteFails, Goto, TakeSend
  <2> QED
    BY <2>1 DEF InStep
<1>15. CASE DisconnectFails
  <2>1. /\ pc["server"] = "failed"
        /\ pc'["server"] = "panicked" /\ pc'["client"] = pc["client"]
        /\ qp'["server"] \in {qp["server"], "ERR"}
        /\ qp'["client"] = qp["client"]
        /\ UNCHANGED <<cm, send, recv, conn, cpu, gpuMap, count>>
    BY <1>15 DEF DisconnectFails, Goto
  <2> QED
    BY <2>1 DEF InStep
<1> QED
  BY <1>1, <1>2, <1>3, <1>4, <1>5, <1>6, <1>7, <1>8, <1>9, <1>10, <1>11, <1>12,
     <1>13, <1>14, <1>15 DEF Server, ServerFails

LEMMA AdaptersStep ==
  ASSUME IInv, NEW s \in Sides, Carry(s) \/ SendFails(s) \/ PlaceEarly(s)
  PROVE  InStep'
<1> USE DEF IInv, TypeOK, PcType, Sides, ClientPCs, ServerPCs, FreeSend, FreeRecv,
            None, Unset, SlotInv, ClientInv, ServerInv, ConnInv, ListInv, HeardInv,
            Listed, Idle, Unheard
<1>1. CASE DeliverSend("client")
  <2>1. /\ qp["client"] = "RTS" /\ qp["server"] = "RTS"
        /\ send["client"] = [st |-> "posted", op |-> "send"]
        /\ recv["server"].st = "posted"
        /\ send'["client"] = [st |-> "executed", op |-> "send"]
        /\ send'["server"] = send["server"]
        /\ recv'["server"] = [st |-> "ok", opcode |-> "recv"]
        /\ recv'["client"] = recv["client"]
        /\ conn'["server"] = "client"
        /\ conn'["client"] = conn["client"]
        /\ pc' = pc /\ UNCHANGED <<cm, qp, cpu, gpuMap, count>>
    BY <1>1 DEF DeliverSend, Carrying, Consume, Peer
  <2> QED
    BY <2>1 DEF InStep
<1>2. CASE DeliverSend("server")
  <2>1. /\ qp["server"] = "RTS" /\ qp["client"] = "RTS"
        /\ send["server"] = [st |-> "posted", op |-> "send"]
        /\ recv["client"].st = "posted"
        /\ send'["server"] = [st |-> "executed", op |-> "send"]
        /\ send'["client"] = send["client"]
        /\ recv'["client"] = [st |-> "ok", opcode |-> "recv"]
        /\ recv'["server"] = recv["server"]
        /\ conn'["client"] = "server"
        /\ conn'["server"] = conn["server"]
        /\ pc' = pc /\ UNCHANGED <<cm, qp, cpu, gpuMap, count>>
    BY <1>2 DEF DeliverSend, Carrying, Consume, Peer
  <2> QED
    BY <2>1 DEF InStep
<1>3. CASE DeliverConns("client")
  <2>1. /\ qp["client"] = "RTS" /\ qp["server"] = "RTS"
        /\ send["client"] = [st |-> "posted", op |-> "imm"]
        /\ recv["server"].st = "posted"
        /\ send'["client"] = [st |-> "executed", op |-> "imm"]
        /\ send'["server"] = send["server"]
        /\ recv'["server"] = [st |-> "ok", opcode |-> "imm"]
        /\ recv'["client"] = recv["client"]
        /\ cpu' = [cpu EXCEPT ![conn["client"]] = cpu["client"]]
        /\ pc' = pc /\ UNCHANGED <<cm, qp, conn, gpuMap, count>>
    BY <1>3 DEF DeliverConns, Carrying, Consume, Peer
  <2> QED
    BY <2>1 DEF InStep
<1>4. CASE DeliverConns("server")
  <2>1. /\ qp["server"] = "RTS" /\ qp["client"] = "RTS"
        /\ send["server"] = [st |-> "posted", op |-> "imm"]
        /\ recv["client"].st = "posted"
        /\ send'["server"] = [st |-> "executed", op |-> "imm"]
        /\ send'["client"] = send["client"]
        /\ recv'["client"] = [st |-> "ok", opcode |-> "imm"]
        /\ recv'["server"] = recv["server"]
        /\ cpu' = [cpu EXCEPT ![conn["server"]] = cpu["server"]]
        /\ pc' = pc /\ UNCHANGED <<cm, qp, conn, gpuMap, count>>
    BY <1>4 DEF DeliverConns, Carrying, Consume, Peer
  <2> QED
    BY <2>1 DEF InStep
<1>5. CASE Acknowledge("client")
  <2>1. /\ qp["client"] = "RTS" /\ send["client"].st = "executed"
        /\ send'["client"] = [st |-> "ok", op |-> send["client"].op]
        /\ send'["server"] = send["server"]
        /\ pc' = pc /\ UNCHANGED <<cm, qp, recv, conn, cpu, gpuMap, count>>
    BY <1>5 DEF Acknowledge
  <2> QED
    BY <2>1 DEF InStep
<1>6. CASE Acknowledge("server")
  <2>1. /\ qp["server"] = "RTS" /\ send["server"].st = "executed"
        /\ send'["server"] = [st |-> "ok", op |-> send["server"].op]
        /\ send'["client"] = send["client"]
        /\ pc' = pc /\ UNCHANGED <<cm, qp, recv, conn, cpu, gpuMap, count>>
    BY <1>6 DEF Acknowledge
  <2> QED
    BY <2>1 DEF InStep
<1>7. CASE SendFails("client")
  <2>1. /\ send["client"].st \in {"posted", "executed"} /\ qp["client"] = "RTS"
        /\ send'["client"] = [st |-> "err", op |-> send["client"].op]
        /\ send'["server"] = send["server"]
        /\ qp'["client"] = "ERR"
        /\ qp'["server"] = qp["server"]
        /\ pc' = pc /\ UNCHANGED <<cm, recv, conn, cpu, gpuMap, count>>
    BY <1>7 DEF SendFails
  <2> QED
    BY <2>1 DEF InStep
<1>8. CASE SendFails("server")
  <2>1. /\ send["server"].st \in {"posted", "executed"} /\ qp["server"] = "RTS"
        /\ send'["server"] = [st |-> "err", op |-> send["server"].op]
        /\ send'["client"] = send["client"]
        /\ qp'["server"] = "ERR"
        /\ qp'["client"] = qp["client"]
        /\ pc' = pc /\ UNCHANGED <<cm, recv, conn, cpu, gpuMap, count>>
    BY <1>8 DEF SendFails
  <2> QED
    BY <2>1 DEF InStep
<1>9. CASE Flush("client")
  <2>1. /\ qp["client"] = "ERR"
        /\ send'["server"] = send["server"]
        /\ recv'["server"] = recv["server"]
        /\ \/ /\ send["client"].st \in {"posted", "executed"}
              /\ send'["client"] = [st |-> "err", op |-> send["client"].op]
              /\ recv'["client"] = recv["client"]
           \/ /\ recv["client"].st = "posted"
              /\ recv'["client"] = [st |-> "err", opcode |-> recv["client"].opcode]
              /\ send'["client"] = send["client"]
        /\ pc' = pc /\ UNCHANGED <<cm, qp, conn, cpu, gpuMap, count>>
    BY <1>9 DEF Flush
  <2> QED
    BY <2>1 DEF InStep
<1>10. CASE Flush("server")
  <2>1. /\ qp["server"] = "ERR"
        /\ send'["client"] = send["client"]
        /\ recv'["client"] = recv["client"]
        /\ \/ /\ send["server"].st \in {"posted", "executed"}
              /\ send'["server"] = [st |-> "err", op |-> send["server"].op]
              /\ recv'["server"] = recv["server"]
           \/ /\ recv["server"].st = "posted"
              /\ recv'["server"] = [st |-> "err", opcode |-> recv["server"].opcode]
              /\ send'["server"] = send["server"]
        /\ pc' = pc /\ UNCHANGED <<cm, qp, conn, cpu, gpuMap, count>>
    BY <1>10 DEF Flush
  <2> QED
    BY <2>1 DEF InStep
<1>11. CASE PlaceEarly(s)
  <2>0. /\ send[s].st = "posted" /\ send[s].op = "imm" /\ qp["client"] = "RTS"
        /\ cpu' = [cpu EXCEPT ![conn[s]] = Partial]
        /\ UNCHANGED <<pc, cm, qp, send, recv, conn, gpuMap, count>>
    BY <1>11 DEF PlaceEarly
  <2>1. s = "server" /\ pc["server"] = "pollConns" /\ conn["server"] = "client"
    BY <2>0 DEF InStep
  <2>2. cpu'["server"] = cpu["server"]
    BY <2>0, <2>1
  <2> QED
    BY <2>0, <2>1, <2>2 DEF InStep
<1> QED
  BY <1>1, <1>2, <1>3, <1>4, <1>5, <1>6, <1>7, <1>8, <1>9, <1>10, <1>11 DEF Carry

LEMMA Step == IInv /\ [Next]_vars => IInv'
<1> SUFFICES ASSUME IInv, [Next]_vars PROVE IInv'
  OBVIOUS
<1>1. TypeOK' /\ PcType'
  BY TypeStep DEF IInv
<1>2. InStep'
  <2>1. CASE UNCHANGED vars
    BY <2>1
    DEF vars, IInv, InStep, SlotInv, ClientInv, ServerInv, ConnInv, ListInv, HeardInv,
        Listed, Idle, Unheard
  <2>2. CASE Next
    BY <2>2, ClientStep, ServerStep, AdaptersStep DEF Next
  <2> QED
    BY <2>1, <2>2
<1> QED
  BY <1>1, <1>2 DEF IInv

-----------------------------------------------------------------------------

THEOREM Invariance == FairSpec => []IInv
  BY InitIInv, Step, PTL DEF FairSpec

(* Every state of the two sides has its type. *)
THEOREM TypeCorrect == FairSpec => []TypeOK
<1>1. IInv => TypeOK
  BY DEF IInv
<1> QED
  BY <1>1, Invariance, PTL

(* A side that comes out of the handshake holds the other's buffer and     *)
(* list, and so does the peer, whichever failures they went through.       *)
THEOREM Agreement == FairSpec => []HandshakeAgreement
<1>1. IInv => HandshakeAgreement
  BY DEF IInv, InStep, ClientInv, ServerInv, ConnInv, ListInv, HandshakeAgreement
<1> QED
  BY <1>1, Invariance, PTL

(* No message is taken for another and neither Connection is ever answered *)
(* "receiver not ready".                                                   *)
THEOREM MessagesMatch == FairSpec => []MessagesMeetTheirReceive
<1>1. ASSUME IInv PROVE MessagesMeetTheirReceive
  <2>1. /\ (pc["client"] = "pollRecv" /\ recv["client"].st = "ok") =>
             recv["client"].opcode = "recv"
        /\ (pc["client"] = "pollConns" /\ recv["client"].st = "ok") =>
             recv["client"].opcode = "imm"
        /\ recv["server"].st = "ok" => recv["server"].opcode = "recv"
    BY <1>1 DEF IInv, InStep, ServerInv, ConnInv, ListInv
  <2>2. \A s \in Sides :
          (send[s] = [st |-> "posted", op |-> "send"] /\ qp[Peer(s)] = "RTS") =>
            recv[Peer(s)].st = "posted"
    BY <1>1
    DEF IInv, InStep, TypeOK, SlotInv, ClientInv, ServerInv, ConnInv, Unheard,
        Sides, Peer, ClientPCs, ServerPCs, None
  <2> QED
    BY <2>1, <2>2 DEF MessagesMeetTheirReceive
<1> QED
  BY <1>1, Invariance, PTL

(* Whatever happened on the way, a side that is through has both its queues *)
(* empty, and two sides that are through are connected.                    *)
THEOREM SessionsStart == FairSpec => []SessionStartsClean
<1>1. IInv => SessionStartsClean
  <2> SUFFICES ASSUME IInv PROVE SessionStartsClean
    OBVIOUS
  <2> USE DEF IInv, TypeOK, InStep, SlotInv, ClientInv, ServerInv, Idle, Sides,
              FreeSend, FreeRecv, None, Through
  <2>1. ASSUME NEW s \in Sides, Through(s)
        PROVE  send[s] = FreeSend /\ recv[s] = FreeRecv /\ qp[s] = "RTS"
    <3>1. send[s].st = "free" /\ recv[s].st = "free" /\ qp[s] = "RTS"
      BY <2>1
    <3> QED
      BY <3>1
  <2> QED
    BY <2>1 DEF SessionStartsClean
<1> QED
  BY <1>1, Invariance, PTL

(* Neither side is left waiting but by a peer that gave up: when all wait, *)
(* a client that has not given up faces a server that has, or both are     *)
(* through.                                                                *)
LEMMA ClientDeserted ==
  ASSUME IInv, ClientWaits, ServerWaits, \A s \in Sides : AdapterWaits(s),
         ~GivenUp("server"), ~GivenUp("client")
  PROVE  Through("client")
<1> USE DEF IInv, TypeOK, InStep, SlotInv, ClientInv, ServerInv, ConnInv, ListInv,
            HeardInv, Listed, Idle, Unheard, Sides, Peer, ClientPCs, ServerPCs, None,
            GivenUp, Through, SendDone, RecvDone
<1> SUFFICES ASSUME ~Through("client") PROVE FALSE
  OBVIOUS
<1>1. /\ AdapterWaits("client") /\ AdapterWaits("server")
  OBVIOUS
<1>2. CASE pc["client"] = "connecting"
  BY <1>2 DEF ClientWaits, ServerWaits
<1>3. CASE pc["client"] = "pollSend"
  <2>1. /\ send["client"].st = "posted" /\ send["client"].op = "send"
        /\ qp["client"] = "RTS" /\ cm = "established"
    BY <1>1, <1>3 DEF ClientWaits, AdapterWaits
  <2>2. qp["server"] = "RTS" /\ recv["server"].st = "posted"
    BY <1>1, <2>1 DEF ServerWaits, AdapterWaits
  <2>3. send["client"] = [st |-> "posted", op |-> "send"]
    BY <2>1
  <2> QED
    BY <1>1, <2>1, <2>2, <2>3 DEF AdapterWaits, Carrying
<1>4. CASE pc["client"] \in {"pollRecv", "pollConns"}
  <2>1. /\ recv["client"].st = "posted" /\ qp["client"] = "RTS"
        /\ cm = "established"
    BY <1>4 DEF ClientWaits
  <2>2. CASE pc["server"] \in {"pollSend", "pollConns"}
    <3>1. send["server"].st = "posted" /\ qp["server"] = "RTS"
      BY <1>1, <2>2 DEF ServerWaits, AdapterWaits
    <3>2. send["server"] = [st |-> "posted", op |-> send["server"].op]
      BY <3>1
    <3> QED
      BY <1>1, <2>1, <3>1, <3>2 DEF AdapterWaits, Carrying
  <2>3. CASE pc["server"] \notin {"pollSend", "pollConns"}
    BY <1>1, <1>4, <2>1, <2>3 DEF ServerWaits, AdapterWaits
  <2> QED
    BY <2>2, <2>3
<1> QED
  BY <1>2, <1>3, <1>4 DEF ClientWaits

LEMMA ServerDeserted ==
  ASSUME IInv, ServerWaits, AdapterWaits("server"), ~GivenUp("server"),
         Through("client")
  PROVE  Through("server")
<1> USE DEF IInv, TypeOK, InStep, SlotInv, ClientInv, ServerInv, ConnInv,
            HeardInv, Listed, Sides, ServerPCs, None, GivenUp, Through, SendDone
<1>1. pc["server"] \in {"pollConns", "session"} /\ send["server"].st # "posted"
  OBVIOUS
<1>2. CASE pc["server"] = "pollConns"
  BY <1>1, <1>2 DEF ServerWaits, AdapterWaits
<1> QED
  BY <1>1, <1>2

(* However often anything failed, both sides never wait for each other.    *)
THEOREM NoMutualWait == FairSpec => []OnlyDesertedHang
<1>1. IInv => OnlyDesertedHang
  <2> SUFFICES ASSUME IInv, ClientWaits, ServerWaits,
                      \A s \in Sides : AdapterWaits(s), NEW s \in Sides
               PROVE  Through(s) \/ GivenUp(s) \/ GivenUp(Peer(s))
    BY DEF OnlyDesertedHang
  <2>1. CASE GivenUp("client") \/ GivenUp("server")
    BY <2>1 DEF Sides, Peer
  <2>2. CASE ~GivenUp("client") /\ ~GivenUp("server")
    <3>1. Through("client")
      BY <2>2, ClientDeserted
    <3>2. Through("server")
      BY <2>2, <3>1, ServerDeserted DEF Sides
    <3> QED
      BY <3>1, <3>2 DEF Sides
  <2> QED
    BY <2>1, <2>2
<1> QED
  BY <1>1, Invariance, PTL

(* Nothing lands in a variable or buffer of a call that has returned, but  *)
(* the first packets of a list that was refused.                           *)
THEOREM MemoryLive == FairSpec => LandsInLiveMemory
<1> DEFINE Lands == /\ \A s \in Sides : conn'[s] # conn[s] => pc[s] \in Receiving[s]
                    /\ cpu'["client"] # cpu["client"] =>
                         \/ pc["client"] \in InConnect
                         \/ ListRefused /\ cpu'["client"] = Partial
<1>1. ASSUME IInv, \E s \in Sides : Carry(s) \/ SendFails(s) \/ PlaceEarly(s)
      PROVE  Lands
  <2> USE <1>1 DEF IInv, InStep, TypeOK, SlotInv, ClientInv, ServerInv, ConnInv, Sides,
                   Peer, Idle, Unheard, Carrying, Consume, Receiving, InConnect, None,
                   ClientPCs, ServerPCs
  <2>1. CASE DeliverSend("client")
    BY <2>1 DEF DeliverSend
  <2>2. CASE DeliverSend("server")
    BY <2>2 DEF DeliverSend
  <2>3. CASE DeliverConns("client")
    BY <2>3 DEF DeliverConns
  <2>4. CASE DeliverConns("server")
    BY <2>4 DEF DeliverConns
  <2>5. CASE \E s \in Sides : Acknowledge(s) \/ Flush(s) \/ SendFails(s)
    BY <2>5 DEF Acknowledge, Flush, SendFails
  <2>6. CASE \E s \in Sides : PlaceEarly(s)
    <3>1. /\ qp["client"] = "RTS" /\ conn' = conn
          /\ send["server"].st = "posted" /\ send["server"].op = "imm"
          /\ cpu' = [cpu EXCEPT ![conn["server"]] = Partial]
      <4>1. PICK s \in Sides : PlaceEarly(s)
        BY <2>6
      <4>2. /\ send[s].st = "posted" /\ send[s].op = "imm" /\ qp["client"] = "RTS"
            /\ cpu' = [cpu EXCEPT ![conn[s]] = Partial]
            /\ conn' = conn
        BY <4>1 DEF PlaceEarly
      <4>3. s = "server"
        BY <4>2
      <4> QED
        BY <4>2, <4>3
    <3>2. conn["server"] = "client" /\ conn["client"] = "server"
      BY <3>1
    <3>3. pc["client"] \in InConnect \/ ListRefused
      <4>1. pc["client"] \notin {"start", "connecting", "connected"}
        BY <3>1, <3>2 DEF HeardInv, Listed
      <4>2. pc["client"] = "failed" => recv["client"].st = "free"
        BY <3>1, <3>2
      <4> QED
        BY <3>2, <4>1, <4>2 DEF ListRefused, FreeRecv
    <3> QED
      BY <3>1, <3>2, <3>3
  <2> QED
    BY <2>1, <2>2, <2>3, <2>4, <2>5, <2>6 DEF Carry
<1>2. ASSUME IInv, [Next]_vars,
             ~ \E s \in Sides : Carry(s) \/ SendFails(s) \/ PlaceEarly(s)
      PROVE  Lands
  <2>1. conn' = conn /\ cpu'["client"] = cpu["client"]
    BY <1>2
    DEF Next, vars, Client, Server, ClientFails, ServerFails, PrepareFails,
        RequestConnection, ConnectReturns, SendConnectionFails, ConnectFails,
        ConnectBreaks, ClientPollSend, ClientPollRecv, ListRecvFails,
        ClientPollConns, ServerInit, ServerInitFails, GetRequest, AcceptRequest,
        AcceptFails, AcceptReturns, AcceptUnanswered, AcceptBreaks,
        ServerPollRecv, InlineSendFails, ServerPollSend, ListWriteFails,
        ServerPollConns, ServerGivesUp, DisconnectFails, IInv, TypeOK, Sides
  <2> QED
    BY <2>1
<1>3. IInv /\ [Next]_vars => [Lands]_vars
  BY <1>1, <1>2
<1> QED
  BY <1>3, Invariance, PTL DEF FairSpec, LandsInLiveMemory
=============================================================================
