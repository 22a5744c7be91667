-------------------------- MODULE GilConnectProofs --------------------------
(***************************************************************************)
(* For any processes and routes: GilConnect keeps its types, a knot holds  *)
(* until one of its own connects times out, and nothing but knots hangs.   *)
(***************************************************************************)
EXTENDS GilConnect, TLAPS

(* TypeOK is inductive: whoever is inside connect has a request that is    *)
(* still to be answered, and answering it is what lets it go.              *)
LEMMA TypeStep == TypeOK /\ [Next]_vars => TypeOK'
<1> SUFFICES ASSUME TypeOK, [Next]_vars
             PROVE  TypeOK'
  OBVIOUS
<1> USE GilAssumption DEF TypeOK, Pending, GilFree, Moves, Wanted
<1>1. CASE UNCHANGED vars
  BY <1>1 DEF vars
<1>2. ASSUME NEW r \in Routes, Connect(r)
      PROVE  TypeOK'
  <2>1. r[1] \in Procs /\ r[2] \in Procs /\ r = <<r[1], r[2]>>
    OBVIOUS
  <2> QED
    BY <1>2, <2>1 DEF Connect
<1>3. ASSUME NEW r \in Routes, Accept(r)
      PROVE  TypeOK'
  BY <1>3 DEF Accept
<1>4. ASSUME NEW r \in Routes, Shutdown(r) \/ LogDisconnect(r) \/ LogDone(r)
      PROVE  TypeOK'
  BY <1>4 DEF Shutdown, LogDisconnect, LogDone
<1>6. ASSUME NEW r \in Routes, AcceptFails(r)
      PROVE  TypeOK'
  <2>1. \A p \in Procs : r # <<p, caller[p]>>
    BY <1>6 DEF AcceptFails
  <2> QED
    BY <1>6, <2>1 DEF AcceptFails
<1>7. ASSUME NEW r \in Routes, ConnectFails(r)
      PROVE  TypeOK'
  BY <1>7 DEF ConnectFails
<1>5. ASSUME NEW r \in Routes, GetRequest(r) \/ LogStart(r)
      PROVE  TypeOK'
  BY <1>5 DEF GetRequest, LogStart
<1> QED
  BY <1>1, <1>2, <1>3, <1>4, <1>5, <1>6, <1>7 DEF Next, Threads

(* Connections, callers and the GIL never get out of step, for any number  *)
(* of processes.                                                           *)
THEOREM TypeCorrect == Spec => []TypeOK
<1>1. Init => TypeOK
  BY GilAssumption DEF Init, TypeOK, Pending
<1> QED
  BY <1>1, TypeStep, PTL DEF Spec

(* A step of any route leaves every knot as it is, unless it is a connect  *)
(* of the knot itself that times out.                                      *)
LEMMA KnotStays ==
  ASSUME TypeOK, [Next]_vars, NEW S \in SUBSET Procs, Knot(S),
         \A p \in S : ~ConnectFails(<<p, caller[p]>>)
  PROVE  Knot(S)'
<1> USE GilAssumption DEF TypeOK, Knot, GilFree, Moves, Pending, Wanted
<1>1. CASE UNCHANGED vars
  BY <1>1 DEF vars
<1>2. ASSUME NEW p \in S
      PROVE  /\ caller[p] \in S /\ caller[p] \in Procs /\ caller[p] # None
             /\ <<p, caller[p]>> \in Routes
  OBVIOUS
<1>3. ASSUME NEW r \in Routes, Connect(r)
      PROVE  Knot(S)'
  <2>1. r[1] \in Procs /\ r[1] \notin S
    BY <1>2, <1>3 DEF Connect
  <2>2. \A p \in S : r # <<p, caller[p]>>
    BY <1>3 DEF Connect
  <2> QED
    BY <1>2, <1>3, <2>1, <2>2 DEF Connect
<1>4. ASSUME NEW r \in Routes, Shutdown(r) \/ LogDisconnect(r)
      PROVE  Knot(S)'
  BY <1>2, <1>4 DEF Shutdown, LogDisconnect
<1>5. ASSUME NEW r \in Routes, GetRequest(r)
      PROVE  Knot(S)'
  BY <1>2, <1>5 DEF GetRequest
<1>6. ASSUME NEW r \in Routes, LogStart(r)
      PROVE  Knot(S)'
  <2>1. \A p \in S : r # <<p, caller[p]>>
    <3> SUFFICES ASSUME NEW p \in S, r = <<p, caller[p]>>
                 PROVE  FALSE
      OBVIOUS
    <3>1. r[2] = caller[p] /\ r[2] \in S
      BY <1>2
    <3> QED
      BY <1>2, <1>6, <3>1 DEF LogStart
  <2> QED
    BY <1>2, <1>6, <2>1 DEF LogStart
<1>7. ASSUME NEW r \in Routes, Accept(r)
      PROVE  Knot(S)'
  <2>1. \A p \in S : p # r[1] /\ r # <<p, caller[p]>>
    <3> SUFFICES ASSUME NEW p \in S, p = r[1]
                 PROVE  FALSE
      BY <1>7
    <3>1. link[r] = "accepting" /\ caller[r[1]] = r[2]
      BY <1>7 DEF Accept
    <3>2. r = <<p, caller[p]>>
      BY <3>1
    <3> QED
      BY <1>7, <3>1, <3>2 DEF Accept
  <2> QED
    BY <1>2, <1>7, <2>1 DEF Accept
<1>8. ASSUME NEW r \in Routes, LogDone(r)
      PROVE  Knot(S)'
  BY <1>2, <1>8 DEF LogDone
<1>9. ASSUME NEW r \in Routes, AcceptFails(r)
      PROVE  Knot(S)'
  <2>1. \A p \in S : r # <<p, caller[p]>>
    BY <1>9 DEF AcceptFails
  <2> QED
    BY <1>2, <1>9, <2>1 DEF AcceptFails
<1>10. ASSUME NEW r \in Routes, ConnectFails(r)
       PROVE  Knot(S)'
  <2>1. r = <<r[1], caller[r[1]]>> /\ r[1] \in Procs
    BY <1>10 DEF ConnectFails
  <2>2. r[1] \notin S
    BY <1>10, <2>1
  <2> QED
    BY <1>2, <1>10, <2>2 DEF ConnectFails
<1> QED
  BY <1>1, <1>3, <1>4, <1>5, <1>6, <1>7, <1>8, <1>9, <1>10 DEF Next, Threads

(* However many processes connect to each other, a knot once tied stays    *)
(* until one of its own connects times out.                                *)
THEOREM OnlyTimeoutsUndoKnots == Spec => KnotsOutlastAllButTimeouts
<1> DEFINE A == \A S \in SUBSET Procs :
                 Knot(S) => Knot(S)' \/ \E p \in S : ConnectFails(<<p, caller[p]>>)
<1>1. TypeOK /\ [Next]_vars => [A]_vars
  BY KnotStays
<1> QED
  BY <1>1, TypeCorrect, PTL DEF Spec, KnotsOutlastAllButTimeouts

(* Whoever is inside connect when every thread waits forms a knot: the     *)
(* request is taken, or behind one that is, and the thread that took it    *)
(* waits for the GIL of the server's process, which is inside connect too. *)
LEMMA WaitingCallersAreAKnot ==
  ASSUME TypeOK, \A r \in Routes : Waits(r)
  PROVE  Knot({p \in Procs : caller[p] # None})
<1> USE GilAssumption DEF TypeOK, Pending, GilFree, Wanted
<1> SUFFICES ASSUME NEW p \in Procs, caller[p] # None
             PROVE  /\ caller[p] \in Procs /\ caller[caller[p]] # None
                    /\ link[<<p, caller[p]>>] \in {"requested", "taken"}
  BY DEF Knot
<1> DEFINE q == caller[p]
<1> DEFINE r == <<p, q>>
<1>1. r \in Routes /\ link[r] \in Pending /\ r[2] = q /\ q \in Procs
  OBVIOUS
<1>2. /\ link[r] \in {"requested", "taken"}
      /\ \E s \in Routes : s[2] = q /\ link[s] = "taken"
  BY <1>1 DEF Waits
<1>3. PICK s \in Routes : s[2] = q /\ link[s] = "taken"
  BY <1>2
<1>4. caller[q] # None
  BY <1>3 DEF Waits
<1> QED
  BY <1>1, <1>2, <1>4

(* When nothing moves any more, every process inside connect is in a knot, *)
(* however many processes and routes there are.                            *)
THEOREM OnlyKnotsAreLeft == Spec => []HangIsKnot
<1>1. TypeOK => HangIsKnot
  <2> SUFFICES ASSUME TypeOK, \A r \in Routes : Waits(r)
               PROVE  HangIsKnot
    BY DEF HangIsKnot
  <2>1. \A p \in Procs : caller[p] # None => Entangled(p)
    BY WaitingCallersAreAKnot DEF Entangled
  <2>2. \A r \in Routes : r[1] \in Procs /\ r[2] \in Procs
    BY GilAssumption
  <2>3. \A r \in Routes : /\ link[r] = "stopping" => caller[r[1]] # None
                          /\ link[r] = "leaving" => caller[r[2]] # None
    BY DEF Waits, GilFree
  <2>4. ASSUME NEW r \in Routes, link[r] \in Pending
        PROVE  caller[r[2]] # None
    <3>1. CASE link[r] = "requested"
      <4>1. PICK s \in Routes : s[2] = r[2] /\ link[s] = "taken"
        BY <3>1 DEF Waits
      <4> QED
        BY <4>1 DEF Waits, GilFree
    <3> QED
      BY <2>4, <3>1 DEF Waits, GilFree, Pending
  <2> QED
    BY <2>1, <2>2, <2>3, <2>4 DEF HangIsKnot
<1> QED
  BY <1>1, TypeCorrect, PTL
=============================================================================
