-------------------------- MODULE VllmServerProofs --------------------------
(***************************************************************************)
(* For any number of clients, workers and failures: no client that leaves  *)
(* in order is cut off by a shutdown, and no session ever loses the        *)
(* context its buffers were registered under.  For any number of calls of  *)
(* listen on one object: only one is ever served, and one that was         *)
(* replaced while it ran is lost.  What VllmServer does in one call is     *)
(* what the object over several calls counts on.                           *)
(***************************************************************************)
EXTENDS VllmServer, ServerObject, TLAPS

Retained(c) == sess[c] \in {"establishing", "serving"}

(* A client that was never accepted has not got beyond its request. *)
ClientInv ==
  \A c \in Clients :
    /\ client[c] = "idle" => sess[c] = "none"
    /\ sess[c] \in {"spawned", "dropped"} => client[c] \in {"requested", "gone"}
    /\ sess[c] = "none" => client[c] \in {"idle", "requested", "gone"}

(* The context is released at most once, when the command is taken; until  *)
(* then the application's references are all there, and a session in       *)
(* progress adds one to whatever is left.                                  *)
RefsInv ==
  /\ cmd # "taken" => refs >= HostRefs
  /\ refs + 1 >= HostRefs
  /\ (\E c \in Clients : Retained(c)) =>
       /\ cmd # "taken" => refs >= HostRefs + 1
       /\ refs >= HostRefs

IInv == TypeOK /\ ClientInv /\ RefsInv

-----------------------------------------------------------------------------

LEMMA InitIInv == Init => IInv
  BY ServerAssumption DEF Init, IInv, TypeOK, ClientInv, RefsInv, Retained

(* Taking the command releases the context once. *)
LEMMA CommandTaken ==
  ASSUME IInv, TakeIfSent, sess' = sess
  PROVE  RefsInv' /\ refs' \in Nat
         /\ cmd' \in {"open", "sent", "taken", "closed"}
  BY ServerAssumption
  DEF IInv, TypeOK, RefsInv, Retained, TakeIfSent, ReleaseContext

LEMMA HostStep ==
  ASSUME IInv, Shutdown \/ DropSender \/ SelectListen
  PROVE  IInv'
  BY DEF IInv, TypeOK, ClientInv, RefsInv, Retained, Shutdown, DropSender,
         SelectListen

LEMMA ClientStep ==
  ASSUME IInv, NEW c \in Clients, Request(c) \/ Leave(c) \/ Vanish(c)
  PROVE  IInv'
BY DEF IInv, TypeOK, ClientInv, RefsInv, Retained, Request, Leave, Vanish

LEMMA ShutdownStep ==
  ASSUME IInv, SelectShutdown \/ GetRequestFails \/ HearCommand
  PROVE  IInv'
<1>1. UNCHANGED <<client, sess>> /\ lpc' \in {"deaf", "dropping"}
      /\ errors' \in 0 .. MaxErrors
  BY ServerAssumption
  DEF IInv, TypeOK, SelectShutdown, GetRequestFails, HearCommand, MayFail
<1>2. TakeIfSent
  BY DEF SelectShutdown, GetRequestFails, HearCommand, TakeIfSent
<1>3. RefsInv' /\ refs' \in Nat /\ cmd' \in {"open", "sent", "taken", "closed"}
  BY <1>1, <1>2, CommandTaken
<1> QED
  BY <1>1, <1>3 DEF IInv, TypeOK, ClientInv

LEMMA RequestStep ==
  ASSUME IInv, NEW c \in Clients, GetRequest(c)
  PROVE  IInv'
BY DEF IInv, TypeOK, ClientInv, RefsInv, Retained, GetRequest

LEMMA DropStep ==
  ASSUME IInv, DropRuntime
  PROVE  IInv'
<1>1. /\ UNCHANGED <<cmd, client, refs, errors>> /\ lpc' = "exited"
      /\ \A c \in Clients :
           sess'[c] = IF sess[c] = "spawned" THEN "dropped" ELSE sess[c]
  BY DEF DropRuntime
<1>2. \A c \in Clients : Retained(c)' => Retained(c)
  BY <1>1 DEF Retained
<1>3. TypeOK'
  BY DEF IInv, TypeOK, DropRuntime
<1>4. ClientInv'
  BY <1>1 DEF IInv, ClientInv
<1>5. RefsInv'
  BY <1>1, <1>2 DEF IInv, RefsInv
<1> QED
  BY <1>3, <1>4, <1>5 DEF IInv

LEMMA TaskStep ==
  ASSUME IInv, NEW c \in Clients,
         Task(c) \/ AcceptFails(c) \/ SessionPanics(c)
  PROVE  IInv'
<1>1. CASE Start(c)
  BY <1>1 DEF IInv, TypeOK, ClientInv, RefsInv, Retained, Start
<1>2. CASE Retain(c)
  <2>1. /\ UNCHANGED <<cmd, lpc, client, errors>> /\ refs' = refs + 1
        /\ sess[c] = "accepting" /\ sess' = [sess EXCEPT ![c] = "establishing"]
    BY <1>2 DEF Retain
  <2>2. RefsInv'
    BY <2>1, ServerAssumption DEF IInv, TypeOK, RefsInv
  <2>3. TypeOK' /\ ClientInv'
    BY <2>1 DEF IInv, TypeOK, ClientInv
  <2> QED
    BY <2>2, <2>3 DEF IInv
<1>3. CASE Accept(c)
  BY <1>3 DEF IInv, TypeOK, ClientInv, RefsInv, Retained, Accept
<1>4. CASE EndSession(c)
  BY <1>4 DEF IInv, TypeOK, ClientInv, RefsInv, Retained, EndSession
<1>5. CASE AcceptFails(c)
  BY <1>5, ServerAssumption
  DEF IInv, TypeOK, ClientInv, RefsInv, Retained, AcceptFails, MayFail
<1>6. CASE SessionPanics(c)
  BY <1>6, ServerAssumption
  DEF IInv, TypeOK, ClientInv, RefsInv, Retained, SessionPanics, MayFail
<1> QED
  BY <1>1, <1>2, <1>3, <1>4, <1>5, <1>6 DEF Task

LEMMA Step == IInv /\ [Next]_vars => IInv'
<1> SUFFICES ASSUME IInv, [Next]_vars PROVE IInv'
  OBVIOUS
<1>1. CASE UNCHANGED vars
  BY <1>1 DEF vars, IInv, TypeOK, ClientInv, RefsInv, Retained
<1>2. CASE Next
  BY <1>2, HostStep, ClientStep, ShutdownStep, RequestStep, DropStep, TaskStep
  DEF Next, Listener
<1> QED
  BY <1>1, <1>2

-----------------------------------------------------------------------------

THEOREM Invariance == FairSpec => []IInv
  BY InitIInv, Step, PTL DEF FairSpec

(* Every state of the server has its type. *)
THEOREM TypeCorrect == FairSpec => []TypeOK
<1>1. IInv => TypeOK
  BY DEF IInv
<1> QED
  BY <1>1, Invariance, PTL

(* A client the runtime drops had never been accepted, whenever the        *)
(* shutdown came and however many tasks were waiting for a worker.         *)
THEOREM NoneCutOff == FairSpec => []NoClientCutOff
<1>1. IInv => NoClientCutOff
  BY DEF IInv, ClientInv, NoClientCutOff
<1> QED
  BY <1>1, Invariance, PTL

(* Releasing the context once at the shutdown leaves every session in      *)
(* progress a reference, whatever the number of clients accepted so far.   *)
THEOREM ContextStays == FairSpec => []ContextOutlivesSessions
<1>1. IInv => ContextOutlivesSessions
  BY ServerAssumption DEF IInv, TypeOK, RefsInv, Retained, ContextOutlivesSessions
<1> QED
  BY <1>1, Invariance, PTL

-----------------------------------------------------------------------------
(* One call of listen as the object sees it: what changes there is the     *)
(* command's channel and where the listener is.                            *)

LEMMA ChannelMaps ==
  ASSUME cmd = "open", cmd' \in {"sent", "closed"}, UNCHANGED lpc
  PROVE  Object!ObjectNext
<1>1. CASE cmd' = "sent"
  BY <1>1 DEF Object!ObjectNext, Object!SendCommand
<1>2. CASE cmd' = "closed"
  BY <1>2 DEF Object!ObjectNext, Object!ListenPanics, Object!Replace,
              Object!Listens, Object!Calls
<1> QED
  BY <1>1, <1>2

(* The command is taken or the loop left, neither of which shows before.   *)
LEMMA ListenerMaps ==
  ASSUME TypeOK, TakeIfSent,
         \/ SelectShutdown \/ GetRequestFails \/ HearCommand
  PROVE  Object!ObjectNext
<1> USE DEF Object!Calls, Object!Becomes, Object!InLoop, Object!EndOfLoop
<1>1. CASE lpc = "blocked" /\ lpc' = (IF cmd = "open" THEN "deaf" ELSE "dropping")
  <2>1. Object!ListenerFails(1)
    BY <1>1 DEF TypeOK, TakeIfSent, Object!ListenerFails
  <2> QED
    BY <2>1 DEF Object!ObjectNext
<1>2. CASE /\ \/ lpc = "select" /\ cmd = "sent"
              \/ lpc = "deaf" /\ cmd # "open"
           /\ lpc' = "dropping"
  <2>1. Object!Stop(1)
    BY <1>2 DEF TypeOK, TakeIfSent, Object!Stop
  <2> QED
    BY <2>1 DEF Object!ObjectNext
<1> QED
  BY <1>1, <1>2 DEF SelectShutdown, GetRequestFails, HearCommand

LEMMA ExitMaps == ASSUME DropRuntime PROVE Object!ObjectNext
<1>1. Object!Exit(1)
  BY DEF DropRuntime, Object!Exit, Object!Dropping, Object!Becomes
<1> QED
  BY <1>1 DEF Object!ObjectNext, Object!Calls

LEMMA UnseenMaps ==
  ASSUME UNCHANGED cmd,
         \/ UNCHANGED lpc
         \/ lpc \in {"select", "blocked"} /\ lpc' \in {"select", "blocked"}
  PROVE  UNCHANGED Object!objectVars
BY DEF Object!objectVars

(* For any number of clients, workers and failures, what VllmServer says   *)
(* of one call of listen is what ServerObject counts on.                   *)
THEOREM ObjectAgreement == FairSpec => ObjectAgrees
<1>1. TypeOK /\ [Next]_vars => [Object!ObjectNext]_(Object!objectVars)
  <2> SUFFICES ASSUME TypeOK, [Next]_vars
               PROVE  Object!ObjectNext \/ UNCHANGED Object!objectVars
    OBVIOUS
  <2>1. CASE Shutdown \/ DropSender
    BY <2>1, ChannelMaps DEF Shutdown, DropSender
  <2>2. CASE SelectShutdown \/ GetRequestFails \/ HearCommand
    <3>1. TakeIfSent
      BY <2>2 DEF SelectShutdown, GetRequestFails, HearCommand, TakeIfSent
    <3> QED
      BY <2>2, <3>1, ListenerMaps
  <2>3. CASE DropRuntime
    BY <2>3, ExitMaps
  <2>4. CASE SelectListen \/ \E c \in Clients : GetRequest(c)
    BY <2>4, UnseenMaps DEF SelectListen, GetRequest
  <2>5. ASSUME NEW c \in Clients,
               \/ Request(c) \/ Leave(c) \/ Vanish(c)
               \/ Task(c) \/ AcceptFails(c) \/ SessionPanics(c)
        PROVE  UNCHANGED Object!objectVars
    BY <2>5, UnseenMaps
    DEF Request, Leave, Vanish, Task, Start, Retain, Accept, EndSession,
        AcceptFails, SessionPanics
  <2>6. CASE UNCHANGED vars
    BY <2>6, UnseenMaps DEF vars
  <2> QED
    BY <2>1, <2>2, <2>3, <2>4, <2>5, <2>6 DEF Next, Listener
<1> QED
  BY <1>1, TypeCorrect, PTL DEF FairSpec, ObjectAgrees

-----------------------------------------------------------------------------
(* ServerObject: the object over several calls of listen.                  *)

(* This process has bound the address for a listener of its own. *)
Served(g) == listener[g] \notin {"none", "failed"}

ListenerStates ==
  {"none", "failed", "running", "deaf", "draining", "unwinding", "exited"}

ObjectType ==
  /\ current \in 0 .. MaxListens
  /\ channel \in [Calls -> {"open", "sent", "closed"}]
  /\ listener \in [Calls -> ListenerStates]
  /\ recorded \in [Calls -> SUBSET ReqIds]

(* Of all the calls the address serves at most one, and what a call has    *)
(* recorded came from its listener.                                        *)
ServedInv ==
  \A g \in Calls :
    /\ Served(g) => address = "ours" /\ g <= current
    /\ recorded[g] # {} => Served(g)

(* The object holds the sender of its last call until it has used it. *)
SenderInv ==
  /\ sender = IF current # 0 /\ channel[current] = "open" THEN current ELSE 0
  /\ current # 0 => channel[current] # "closed"

(* The calls to come have left no trace. *)
FreshInv ==
  \A g \in Calls :
    g > current => listener[g] = "none" /\ channel[g] = "open"

ObjectInv ==
  ObjectType /\ ServedInv /\ SenderInv /\ FreshInv /\ ServesOnce

LEMMA InitObject ==
  ASSUME ObjectInit
  PROVE  ObjectInv
BY ObjectAssumption
DEF ObjectInit, ObjectInv, ObjectType, ListenerStates, ServedInv, SenderInv,
    FreshInv, ServesOnce, Calls, Served

LEMMA ListenObject ==
  ASSUME ObjectInv, Listen \/ ListenPanics
  PROVE  ObjectInv'
<1> USE ObjectAssumption DEF ObjectInv, ObjectType, ListenerStates, Served, Calls
<1>1. PICK as \in {"running", "failed"} :
        /\ current' = current + 1 /\ sender' = current + 1
        /\ current + 1 \in Calls
        /\ channel' = [g \in Calls |->
                         IF g = sender THEN "closed" ELSE channel[g]]
        /\ listener' = [listener EXCEPT ![current + 1] = as]
        /\ as = "running" => address = "free" /\ address' = "ours"
        /\ address = "ours" => address' = "ours"
        /\ UNCHANGED recorded
  BY DEF Listen, ListenPanics, Replace, Listens
<1>2. ObjectType'
  <2>1. channel' \in [Calls -> {"open", "sent", "closed"}]
    BY <1>1
  <2>2. listener' \in [Calls -> ListenerStates]
    BY <1>1
  <2>3. current' \in 0 .. MaxListens /\ recorded' \in [Calls -> SUBSET ReqIds]
    BY <1>1
  <2> QED
    BY <2>1, <2>2, <2>3
<1>3. /\ current \in Nat /\ current' = current + 1 /\ sender' = current + 1
      /\ listener[current + 1] = "none" /\ recorded[current + 1] = {}
      /\ listener'[current + 1] = as
      /\ \A g \in Calls \ {current + 1} : listener'[g] = listener[g]
      /\ \A g \in Calls : g > current => channel'[g] = "open"
  BY <1>1 DEF ServedInv, FreshInv, SenderInv
<1>4. ServedInv'
  <2>1. ASSUME NEW g \in Calls
        PROVE  /\ Served(g)' => address' = "ours" /\ g <= current'
               /\ recorded'[g] # {} => Served(g)'
    <3>1. CASE g = current + 1
      <4>1. listener'[g] = as /\ recorded'[g] = {} /\ g <= current'
        BY <1>1, <1>3, <3>1
      <4>2. as # "failed" => address' = "ours"
        BY <1>1
      <4> QED
        BY <4>1, <4>2
    <3>2. CASE g # current + 1
      BY <1>1, <1>3, <3>2 DEF ServedInv
    <3> QED
      BY <3>1, <3>2
  <2> QED
    BY <2>1 DEF ServedInv
<1>5. SenderInv' /\ FreshInv'
  <2>1. FreshInv'
    <3>1. ASSUME NEW g \in Calls, g > current'
          PROVE  listener'[g] = "none" /\ channel'[g] = "open"
      <4>1. g > current /\ g # current + 1
        BY <1>3, <3>1
      <4> QED
        BY <1>3, <4>1 DEF FreshInv
    <3> QED
      BY <3>1 DEF FreshInv
  <2>2. current' > current /\ current' \in Calls /\ current' # 0
    BY <1>1, <1>3
  <2>3. channel'[current'] = "open"
    BY <1>3, <2>2
  <2> QED
    BY <1>3, <2>1, <2>2, <2>3 DEF SenderInv
<1>6. ServesOnce'
  <2>1. CASE \E g \in Calls : Served(g)
    <3>1. as # "running"
      BY <1>1, <2>1 DEF ServedInv
    <3>2. \A g \in Calls : Served(g)' => Served(g)
      BY <1>1, <1>3, <3>1
    <3> QED
      BY <3>2 DEF ServesOnce
  <2>2. CASE ~ \E g \in Calls : Served(g)
    <3>1. \A g \in Calls : Served(g)' => g = current + 1
      BY <1>3, <2>2
    <3> QED
      BY <3>1 DEF ServesOnce
  <2> QED
    BY <2>1, <2>2
<1> QED
  BY <1>2, <1>4, <1>5, <1>6

LEMMA RestObject ==
  ASSUME ObjectInv, SendCommand \/ Released
  PROVE  ObjectInv'
BY ObjectAssumption
DEF ObjectInv, ObjectType, ListenerStates, ServedInv, SenderInv, FreshInv,
    ServesOnce, Calls, Served, SendCommand, Released

LEMMA ListenerObject ==
  ASSUME ObjectInv, NEW g \in Calls,
         \/ ListenerFails(g) \/ Stop(g) \/ Exit(g)
         \/ \E r \in ReqIds : Record(g, r)
  PROVE  ObjectInv'
<1> USE ObjectAssumption
    DEF ObjectInv, ObjectType, ListenerStates, ServedInv, SenderInv, FreshInv,
        ServesOnce, Calls, Served
<1>1. CASE ListenerFails(g) \/ Stop(g) \/ Exit(g)
  <2>1. PICK as \in {"deaf", "draining", "unwinding", "exited"} :
          Becomes(g, as) /\ Served(g)
    BY <1>1
    DEF ListenerFails, Stop, Exit, InLoop, Dropping, EndOfLoop, Becomes
  <2> QED
    BY <2>1 DEF Becomes
<1>2. CASE \E r \in ReqIds : Record(g, r)
  BY <1>2 DEF Record, InLoop, Dropping
<1> QED
  BY <1>1, <1>2

LEMMA StepObject ==
  ASSUME ObjectInv, [ObjectNext]_objectVars
  PROVE  ObjectInv'
<1>1. CASE UNCHANGED objectVars
  BY <1>1
  DEF objectVars, ObjectInv, ObjectType, ListenerStates, ServedInv, SenderInv,
      FreshInv, ServesOnce, Calls, Served
<1>2. CASE ObjectNext
  BY <1>2, ListenObject, RestObject, ListenerObject DEF ObjectNext
<1> QED
  BY <1>1, <1>2

(* An address is served by one call of listen at most, however often the   *)
(* object is used again and whatever failed before.                        *)
THEOREM AddressServedOnce == ObjectSpec => []ServesOnce
<1>1. ObjectInit => ObjectInv
  BY InitObject
<1>2. ObjectInv /\ [ObjectNext]_objectVars => ObjectInv'
  BY StepObject
<1>3. ObjectInv => ServesOnce
  BY DEF ObjectInv
<1> QED
  BY <1>1, <1>2, <1>3, PTL DEF ObjectSpec

(* One step of a listener whose sender was replaced. *)
LEMMA OrphanStep ==
  ASSUME ObjectInv, ObjectInv', [ObjectNext]_objectVars,
         NEW g \in Calls, Orphaned(g)
  PROVE  /\ Orphaned(g)' \/ ListenerFails(g)
         /\ \A req \in ReqIds : ~IsComplete(req)'
<1> USE ObjectAssumption DEF Calls, Served
<1>1. /\ listener[g] = "running" /\ channel[g] = "closed"
      /\ current \in Calls /\ g # current /\ g # sender
      /\ g < current
  BY DEF Orphaned, ObjectInv, ObjectType, ListenerStates, ServedInv, SenderInv
<1>2. /\ Orphaned(g)' \/ ListenerFails(g)
      /\ Served(g)' /\ g < current' /\ current' \in Calls
  <2> USE DEF ObjectInv, ObjectType, Orphaned
  <2>1. CASE Listen \/ ListenPanics
    <3>1. /\ current' = current + 1 /\ current' \in Calls
          /\ listener'[g] = listener[g]
          /\ channel' = [h \in Calls |->
                           IF h = sender THEN "closed" ELSE channel[h]]
      BY <1>1, <2>1
      DEF Listen, ListenPanics, Replace, Listens
    <3> QED
      BY <1>1, <3>1
  <2>2. CASE SendCommand
    <3>1. channel'[g] = channel[g] /\ UNCHANGED <<current, listener>>
      BY <1>1, <2>2 DEF SendCommand
    <3> QED
      BY <1>1, <3>1
  <2>3. ASSUME NEW h \in Calls, ListenerFails(h) \/ Stop(h) \/ Exit(h)
        PROVE  /\ Orphaned(g)' \/ ListenerFails(g)
               /\ Served(g)' /\ current' = current
    <3>1. CASE h = g
      BY <1>1, <2>3, <3>1
      DEF ListenerFails, Stop, Exit, EndOfLoop, Dropping, Becomes
    <3>2. CASE h # g
      BY <1>1, <2>3, <3>2
      DEF ListenerFails, Stop, Exit, EndOfLoop, Dropping, Becomes
    <3> QED
      BY <3>1, <3>2
  <2>4. CASE \/ Released \/ UNCHANGED objectVars
             \/ \E h \in Calls, r \in ReqIds : Record(h, r)
    BY <1>1, <2>4 DEF Released, objectVars, Record
  <2> QED
    BY <1>1, <2>1, <2>2, <2>3, <2>4 DEF ObjectNext
<1>3. /\ listener'[g] \notin {"none", "failed"}
      /\ current' \in Calls /\ g # current'
  BY <1>1, <1>2
<1>4. recorded'[current'] = {}
  BY <1>3 DEF ObjectInv, ServedInv, ServesOnce
<1> QED
  BY <1>2, <1>4 DEF IsComplete

(* Calling listen while the server runs loses the listener: no later call  *)
(* of the object reaches it, and no request its sessions record is ever    *)
(* reported.                                                               *)
THEOREM LostForGood == ObjectSpec => OrphanedForGood
<1> DEFINE Lost == \A g \in Calls :
                     Orphaned(g) =>
                       /\ Orphaned(g)' \/ ListenerFails(g)
                       /\ \A req \in ReqIds : ~IsComplete(req)'
<1>1. ObjectInit => ObjectInv
  BY InitObject
<1>2. ObjectInv /\ [ObjectNext]_objectVars => ObjectInv'
  BY StepObject
<1>3. ObjectInv /\ ObjectInv' /\ [ObjectNext]_objectVars => [Lost]_objectVars
  BY OrphanStep
<1> QED
  BY <1>1, <1>2, <1>3, PTL DEF ObjectSpec, OrphanedForGood
=============================================================================
