-------------------------- MODULE BufferMapsProofs --------------------------
(***************************************************************************)
(* Proofs about BufferMaps for every width of an address, any lists of     *)
(* buffers, any offsets and sizes and any number of transfers.             *)
(***************************************************************************)
EXTENDS BufferMaps, FiniteSetTheorems, SequenceTheorems,
  WellFoundedInduction, TLAPS

(* There is an address: 2 ^ AddrBits counts the subsets of a set. *)
LEMMA TopIsPositive == Top \in Nat /\ Top > 0
<1> DEFINE bits == 1 .. AddrBits
<1>0. AddrBits \in Nat
  BY ListsAssumption
<1>1. IsFiniteSet(bits) /\ Cardinality(bits) = AddrBits
  BY <1>0, FS_Interval
<1> HIDE DEF bits
<1>2. IsFiniteSet(SUBSET bits) /\ Cardinality(SUBSET bits) = Top
  BY <1>1, FS_SUBSET DEF Top
<1>3. SUBSET bits # {}
  OBVIOUS
<1>4. Cardinality(SUBSET bits) \in Nat /\ Cardinality(SUBSET bits) # 0
  BY <1>2, <1>3, FS_CardinalityType, FS_EmptySet
<1> QED
  BY <1>2, <1>4

(* Every nonempty set of naturals below a bound has a largest element.     *)
LEMMA LargestExists ==
  ASSUME NEW n \in Nat, NEW S \in SUBSET (1 .. n), S # {}
  PROVE  \E i \in S : \A j \in S : j <= i
<1> DEFINE T == {n - i : i \in S}
<1>0. \A i \in S : i \in Nat /\ n - i \in Nat
  OBVIOUS
<1>1. T \subseteq Nat /\ T # {}
  BY <1>0
<1>2. PICK t \in T : \A u \in T : <<u, t>> \notin OpToRel(<, Nat)
  BY <1>1, WFMin, NatLessThanWellFounded, Zenon
<1>3. \A u \in T : ~(u < t)
  BY <1>1, <1>2 DEF OpToRel
<1>4. PICK i \in S : t = n - i
  OBVIOUS
<1>5. ASSUME NEW j \in S PROVE j <= i
  <2>1. ~(n - j < n - i)
    BY <1>3, <1>4
  <2> QED
    BY <1>0, <2>1
<1> QED
  BY <1>5

LEMMA LastOfFacts ==
  ASSUME NEW list, Len(list) \in Nat, NEW base \in Bases(list)
  PROVE  /\ LastOf(list, base) \in 1 .. Len(list)
         /\ list[LastOf(list, base)].base = base
         /\ \A j \in LastOf(list, base) + 1 .. Len(list) : list[j].base # base
<1> DEFINE S == {i \in 1 .. Len(list) : list[i].base = base}
<1>1. PICK i \in S : \A j \in S : j <= i
  BY LargestExists DEF Bases
<1>2. \A j \in i + 1 .. Len(list) : list[j].base # base
  BY <1>1
<1> QED
  BY <1>2 DEF LastOf

LEMMA LastOfIsUnique ==
  ASSUME NEW list, Len(list) \in Nat, NEW base, NEW i \in 1 .. Len(list),
         list[i].base = base,
         \A j \in i + 1 .. Len(list) : list[j].base # base
  PROVE  LastOf(list, base) = i
<1>1. base \in Bases(list)
  BY DEF Bases
<1> DEFINE l == LastOf(list, base)
<1>2. l \in 1 .. Len(list) /\ list[l].base = base
  BY <1>1, LastOfFacts
<1>3. \A j \in l + 1 .. Len(list) : list[j].base # base
  BY <1>1, LastOfFacts
<1> QED
  BY <1>2, <1>3

(* Reducing a sum of two addresses. *)
LEMMA Wrap ==
  ASSUME NEW a \in Address, NEW b \in Address
  PROVE  /\ (a + b) % Top \in Address
         /\ a + b < Top => (a + b) % Top = a + b
         /\ a + b >= Top => (a + b) % Top = a + b - Top
<1>1. /\ Top \in Nat \ {0} /\ a \in Nat /\ b \in Nat
      /\ a < Top /\ b < Top
  BY TopIsPositive DEF Address
<1>2. a + b < Top => (a + b) % Top = a + b
  BY <1>1
<1>3. a + b >= Top => (a + b) % Top = a + b - Top
  <2>1. a + b \in Nat /\ a + b < 2 * Top
    BY <1>1
  <2> QED
    BY <1>1, <2>1
<1>4. CASE a + b < Top
  BY <1>1, <1>2, <1>4 DEF Address
<1>5. CASE a + b >= Top
  BY <1>1, <1>3, <1>5 DEF Address
<1> QED
  BY <1>1, <1>2, <1>3, <1>4, <1>5

(* The adapter finds a range inside a buffer exactly if the offset and the *)
(* size fit it in exact arithmetic: an address that wraps around comes out *)
(* below the base.                                                         *)
LEMMA CoversIffFits ==
  ASSUME NEW b \in Buffers, b.base + b.size <= Top,
         NEW offset \in Address, NEW size \in Nat, size > 0
  PROVE  /\ Covers(b, (b.base + offset) % Top, size) <=> offset + size <= b.size
         /\ offset + size <= b.size => b.base + offset < Top
<1>1. /\ b.base \in Nat /\ offset \in Nat /\ b.size \in Nat /\ Top \in Nat
      /\ b.base \in Address /\ offset < Top
  BY TopIsPositive DEF Buffers, Address
<1>2. CASE b.base + offset < Top
  <2>1. (b.base + offset) % Top = b.base + offset
    BY <1>1, <1>2, Wrap
  <2> QED
    BY <1>1, <1>2, <2>1 DEF Covers
<1>3. CASE b.base + offset >= Top
  <2>1. (b.base + offset) % Top = b.base + offset - Top
    BY <1>1, <1>3, Wrap
  <2> QED
    BY <1>1, <1>3, <2>1 DEF Covers
<1> QED
  BY <1>1, <1>2, <1>3

-----------------------------------------------------------------------------
(* The inductive invariant. *)

Lists(s) == Len(offered[s])

(* The regions of a side are the buffers it was created with, in order.    *)
RegionsInv ==
  \A s \in Sides :
    /\ Len(regs[s]) <= Lists(s)
    /\ \A i \in 1 .. Len(regs[s]) : regs[s][i] = GPUMemBuffer(offered[s][i])
    /\ phase # "setup" => Len(regs[s]) = Lists(s)

(* The client's map names every base pointer the server was created with,  *)
(* and for each the key of the last buffer there.                          *)
RemoteInv ==
  IF phase = "setup"
    THEN remote = << >> /\ done = << >>
    ELSE /\ DOMAIN remote = Bases(offered["server"])
         /\ \A base \in DOMAIN remote :
              remote[base] = [base |-> base, key |-> LastOf(offered["server"], base)]

(* Sends alone leave the client's memory as it was, and the bytes that the *)
(* last of them moved are the same on both sides.                          *)
OnlySends == \A i \in 1 .. Len(done) : done[i].cmd.op = "send"

SameBytes(cmd) ==
  \A a \in Address :
    (LocalAddr(cmd) <= a /\ a < LocalAddr(cmd) + cmd.local.size) =>
      mem["server"][RemoteAddr(cmd) + (a - LocalAddr(cmd))] = mem["client"][a]

SentInv ==
  OnlySends =>
    /\ mem["client"] = Original["client"]
    /\ (Len(done) > 0 /\ done[Len(done)].result = "moved") =>
         SameBytes(done[Len(done)].cmd)

IInv ==
  /\ TypeOK /\ RegionsInv /\ RemoteInv
  /\ KindDecides /\ ForeignBytesUntouched /\ RoundTrip /\ SentInv

-----------------------------------------------------------------------------
(* What a side was created with. *)

LEMMA OfferedFacts ==
  ASSUME offered \in [Sides -> BufferLists], NEW s \in Sides
  PROVE  /\ offered[s] \in Seq(TensorBlock) /\ Lists(s) \in Nat
         /\ \A i \in 1 .. Lists(s) :
              /\ offered[s][i] \in TensorBlock
              /\ offered[s][i].size > 0
              /\ offered[s][i].base + offered[s][i].size <= Top
              /\ GPUMemBuffer(offered[s][i]) \in Buffers
         /\ Bases(offered[s]) \subseteq Address
<1>1. /\ offered[s] \in Seq(TensorBlock)
      /\ \A i \in 1 .. Lists(s) :
           /\ offered[s][i].size > 0
           /\ offered[s][i].base + offered[s][i].size <= Top
  BY ListsAssumption DEF Lists
<1>2. Lists(s) \in Nat /\ \A i \in 1 .. Lists(s) : offered[s][i] \in TensorBlock
  BY <1>1 DEF Lists
<1>3. \A b \in TensorBlock : GPUMemBuffer(b) \in Buffers
  BY DEF TensorBlock, GPUMemBuffer, Buffers
<1>4. Bases(offered[s]) \subseteq Address
  <2>1. ASSUME NEW base \in Bases(offered[s]) PROVE base \in Address
    <3>1. PICK i \in 1 .. Lists(s) : base = offered[s][i].base
      BY DEF Bases, Lists
    <3> QED
      BY <1>2, <3>1 DEF TensorBlock
  <2> QED
    BY <2>1
<1> QED
  BY <1>1, <1>2, <1>3, <1>4

(* Once every buffer is registered, region i of a side is its buffer i.    *)
LEMMA RegionsFacts ==
  ASSUME TypeOK, RegionsInv, NEW s \in Sides, Len(regs[s]) = Lists(s)
  PROVE  /\ Bases(regs[s]) = Bases(offered[s])
         /\ \A base \in Bases(offered[s]) :
              /\ LastOf(regs[s], base) = LastOf(offered[s], base)
              /\ LastOf(offered[s], base) \in 1 .. Lists(s)
              /\ offered[s][LastOf(offered[s], base)].base = base
<1>1. Lists(s) \in Nat /\ Len(regs[s]) \in Nat /\ Len(offered[s]) = Len(regs[s])
  BY OfferedFacts DEF TypeOK, Lists
<1>2. ASSUME NEW i \in 1 .. Lists(s)
      PROVE  regs[s][i].base = offered[s][i].base
  <2>1. regs[s][i] = GPUMemBuffer(offered[s][i])
    BY DEF RegionsInv
  <2> QED
    BY <2>1 DEF GPUMemBuffer
<1>3. Bases(regs[s]) = Bases(offered[s])
  <2>1. ASSUME NEW base
        PROVE  base \in Bases(regs[s]) <=> base \in Bases(offered[s])
    <3>1. base \in Bases(regs[s]) <=>
            \E i \in 1 .. Lists(s) : base = regs[s][i].base
      BY DEF Bases, Lists
    <3>2. base \in Bases(offered[s]) <=>
            \E i \in 1 .. Lists(s) : base = offered[s][i].base
      BY DEF Bases, Lists
    <3> QED
      BY <1>2, <3>1, <3>2
  <2> QED
    BY <2>1 DEF Bases
<1>4. ASSUME NEW base \in Bases(offered[s])
      PROVE  /\ LastOf(regs[s], base) = LastOf(offered[s], base)
             /\ LastOf(offered[s], base) \in 1 .. Lists(s)
             /\ offered[s][LastOf(offered[s], base)].base = base
  <2> DEFINE l == LastOf(offered[s], base)
  <2>1. /\ l \in 1 .. Lists(s) /\ offered[s][l].base = base
        /\ \A j \in l + 1 .. Lists(s) : offered[s][j].base # base
    BY <1>1, LastOfFacts DEF Lists
  <2> HIDE DEF l
  <2>2. /\ l \in 1 .. Len(regs[s]) /\ regs[s][l].base = base
        /\ \A j \in l + 1 .. Len(regs[s]) : regs[s][j].base # base
    BY <1>1, <1>2, <2>1
  <2>3. LastOf(regs[s], base) = l
    BY <1>1, <2>2, LastOfIsUnique
  <2> QED
    BY <2>1, <2>3 DEF l
<1> QED
  BY <1>3, <1>4

-----------------------------------------------------------------------------
(* What becomes of one command. *)

(* The commands Execute chooses from. *)
LEMMA NamedFacts ==
  ASSUME TypeOK, NEW s \in Sides, NEW sizes \in SUBSET Nat, NEW b \in Named(s, sizes)
  PROVE  b \in TensorBlock
<1>1. Top - 1 \in Address
  BY TopIsPositive DEF Address
<1>2. Bases(offered[s]) \subseteq Address
  BY OfferedFacts DEF TypeOK
<1> QED
  BY <1>1, <1>2, ListsAssumption DEF Named, TensorBlock

LEMMA PermittedIffFits ==
  ASSUME TypeOK, RegionsInv, RemoteInv, phase # "setup",
         NEW cmd \in Command, cmd.local.size > 0, Known(cmd)
  PROVE  /\ Permitted(cmd) <=> /\ Fits("client", cmd.local, cmd.local.size)
                               /\ Fits("server", cmd.remote, cmd.local.size)
         /\ Permitted(cmd) => ~Overflows(cmd)
         /\ cmd.local.base \in Bases(offered["client"])
         /\ cmd.remote.base \in Bases(offered["server"])
<1> DEFINE lc == LastOf(offered["client"], cmd.local.base)
           ls == LastOf(offered["server"], cmd.remote.base)
           bc == GPUMemBuffer(offered["client"][lc])
           bs == GPUMemBuffer(offered["server"][ls])
<1>1. /\ Len(regs["client"]) = Lists("client") /\ "client" \in Sides
      /\ Len(regs["server"]) = Lists("server") /\ "server" \in Sides
  BY DEF RegionsInv, Sides
<1>2. /\ cmd.local.base \in Bases(offered["client"])
      /\ cmd.remote.base \in Bases(offered["server"])
  BY <1>1, RegionsFacts DEF Known, RemoteInv
<1>3. /\ lc \in 1 .. Lists("client") /\ bc.base = cmd.local.base
      /\ LastOf(regs["client"], cmd.local.base) = lc
      /\ regs["client"][lc] = bc /\ bc.size = offered["client"][lc].size
  BY <1>1, <1>2, RegionsFacts DEF RegionsInv, GPUMemBuffer
<1>4. /\ ls \in 1 .. Lists("server") /\ bs.base = cmd.remote.base
      /\ remote[cmd.remote.base] = [base |-> bs.base, key |-> ls]
      /\ regs["server"][ls] = bs /\ bs.size = offered["server"][ls].size
  BY <1>1, <1>2, RegionsFacts DEF RegionsInv, RemoteInv, GPUMemBuffer
<1>5. /\ bc \in Buffers /\ bc.base + bc.size <= Top
      /\ bs \in Buffers /\ bs.base + bs.size <= Top
  BY <1>1, <1>3, <1>4, OfferedFacts DEF TypeOK, GPUMemBuffer
<1>6. /\ cmd.local.offset \in Address /\ cmd.remote.offset \in Address
      /\ cmd.local.size \in Nat
  BY DEF Command, TensorBlock
<1>7. /\ Permitted(cmd) <=>
           /\ Covers(bc, (bc.base + cmd.local.offset) % Top, cmd.local.size)
           /\ Covers(bs, (bs.base + cmd.remote.offset) % Top, cmd.local.size)
      /\ Overflows(cmd) <=> \/ bc.base + cmd.local.offset >= Top
                            \/ bs.base + cmd.remote.offset >= Top
      /\ Fits("client", cmd.local, cmd.local.size) <=>
           cmd.local.offset + cmd.local.size <= bc.size
      /\ Fits("server", cmd.remote, cmd.local.size) <=>
           cmd.remote.offset + cmd.local.size <= bs.size
  BY <1>3, <1>4 DEF Permitted, Overflows, Fits, LocalAddr, RemoteAddr
<1> HIDE DEF bc, bs, lc, ls
<1>8. /\ Covers(bc, (bc.base + cmd.local.offset) % Top, cmd.local.size) <=>
           cmd.local.offset + cmd.local.size <= bc.size
      /\ cmd.local.offset + cmd.local.size <= bc.size => bc.base + cmd.local.offset < Top
  BY <1>5, <1>6, CoversIffFits
<1>9. /\ Covers(bs, (bs.base + cmd.remote.offset) % Top, cmd.local.size) <=>
           cmd.remote.offset + cmd.local.size <= bs.size
      /\ cmd.remote.offset + cmd.local.size <= bs.size => bs.base + cmd.remote.offset < Top
  BY <1>5, <1>6, CoversIffFits
<1>10. /\ bc.base + cmd.local.offset < Top => ~(bc.base + cmd.local.offset >= Top)
       /\ bs.base + cmd.remote.offset < Top => ~(bs.base + cmd.remote.offset >= Top)
  BY <1>5, <1>6, TopIsPositive DEF Buffers, Address
<1> QED
  BY <1>2, <1>7, <1>8, <1>9, <1>10

(* The bytes a permitted transfer touches on either side.                  *)
LEMMA MovedInside ==
  ASSUME TypeOK, RegionsInv, RemoteInv, phase # "setup",
         NEW cmd \in Command, cmd.local.size > 0, Known(cmd), Permitted(cmd)
  PROVE  /\ LocalAddr(cmd) \in Address /\ RemoteAddr(cmd) \in Address
         /\ LocalAddr(cmd) + cmd.local.size <= Top
         /\ RemoteAddr(cmd) + cmd.local.size <= Top
         /\ \A a \in LocalAddr(cmd) .. LocalAddr(cmd) + cmd.local.size - 1 :
              \E i \in 1 .. Lists("client") : Covers(offered["client"][i], a, 1)
         /\ \A a \in RemoteAddr(cmd) .. RemoteAddr(cmd) + cmd.local.size - 1 :
              \E i \in 1 .. Lists("server") : Covers(offered["server"][i], a, 1)
<1> DEFINE lc == LastOf(offered["client"], cmd.local.base)
           ls == LastOf(offered["server"], cmd.remote.base)
<1>1. /\ Len(regs["client"]) = Lists("client") /\ "client" \in Sides
      /\ Len(regs["server"]) = Lists("server") /\ "server" \in Sides
  BY DEF RegionsInv, Sides
<1>2. /\ cmd.local.base \in Bases(offered["client"])
      /\ cmd.remote.base \in Bases(offered["server"])
  BY PermittedIffFits
<1>3. /\ lc \in 1 .. Lists("client")
      /\ LastOf(regs["client"], cmd.local.base) = lc
      /\ regs["client"][lc] = GPUMemBuffer(offered["client"][lc])
  BY <1>1, <1>2, RegionsFacts DEF RegionsInv
<1>4. /\ ls \in 1 .. Lists("server")
      /\ remote[cmd.remote.base] = [base |-> cmd.remote.base, key |-> ls]
      /\ regs["server"][ls] = GPUMemBuffer(offered["server"][ls])
  BY <1>1, <1>2, RegionsFacts DEF RegionsInv, RemoteInv
<1>5. /\ offered["client"][lc] \in TensorBlock
      /\ offered["client"][lc].base + offered["client"][lc].size <= Top
      /\ offered["server"][ls] \in TensorBlock
      /\ offered["server"][ls].base + offered["server"][ls].size <= Top
  BY <1>1, <1>3, <1>4, OfferedFacts DEF TypeOK
<1>6. /\ LocalAddr(cmd) \in Address /\ RemoteAddr(cmd) \in Address
  <2>1. /\ cmd.local.base \in Address /\ cmd.local.offset \in Address
        /\ cmd.remote.base \in Address /\ cmd.remote.offset \in Address
    BY DEF Command, TensorBlock
  <2> QED
    BY <1>4, <2>1, Wrap DEF LocalAddr, RemoteAddr
<1>7. /\ Covers(offered["client"][lc], LocalAddr(cmd), cmd.local.size)
      /\ Covers(offered["server"][ls], RemoteAddr(cmd), cmd.local.size)
  BY <1>3, <1>4 DEF Permitted, GPUMemBuffer, Covers
<1>8. cmd.local.size \in Nat
  BY DEF Command, TensorBlock
<1> HIDE DEF lc, ls
<1>9. ASSUME NEW b \in TensorBlock, b.base + b.size <= Top, NEW addr \in Address,
             Covers(b, addr, cmd.local.size)
      PROVE  /\ addr + cmd.local.size <= Top
             /\ \A a \in addr .. addr + cmd.local.size - 1 : Covers(b, a, 1)
  <2>1. b.base \in Nat /\ b.size \in Nat /\ addr \in Nat /\ Top \in Nat
    BY TopIsPositive DEF TensorBlock, Address
  <2> QED
    BY <1>8, <1>9, <2>1 DEF Covers
<1>10. /\ LocalAddr(cmd) + cmd.local.size <= Top
       /\ \A a \in LocalAddr(cmd) .. LocalAddr(cmd) + cmd.local.size - 1 :
            Covers(offered["client"][lc], a, 1)
  BY <1>5, <1>6, <1>7, <1>9
<1>11. /\ RemoteAddr(cmd) + cmd.local.size <= Top
       /\ \A a \in RemoteAddr(cmd) .. RemoteAddr(cmd) + cmd.local.size - 1 :
            Covers(offered["server"][ls], a, 1)
  BY <1>5, <1>6, <1>7, <1>9
<1> QED
  BY <1>3, <1>4, <1>6, <1>10, <1>11

(* What the kind of a command says about its result.                       *)
ExpectedOf(kind, b) ==
  CASE kind = "empty"   -> {"skipped"}
    [] kind = "unknown" -> {"panicked"}
    [] kind = "good"    -> {"moved"}
    [] OTHER -> IF b = "debug" THEN {"rejected", "panicked"} ELSE {"rejected"}

Expected(cmd) == ExpectedOf(KindOf(cmd), build)

ResultsExpected == \A i \in 1 .. Len(done) : done[i].result \in Expected(done[i].cmd)

LEMMA KindDecidesIff == KindDecides <=> ResultsExpected
BY DEF KindDecides, ResultsExpected, Expected, ExpectedOf

(* The kind of a command is settled when the two sides are created.        *)
LEMMA ExpectedIsStable ==
  ASSUME UNCHANGED <<build, offered>>, NEW cmd
  PROVE  Expected(cmd)' = Expected(cmd)
<1>1. KindOf(cmd)' = KindOf(cmd)
  BY DEF KindOf, Fits
<1> QED
  BY <1>1 DEF Expected

LEMMA KnownIffInBases ==
  ASSUME TypeOK, RegionsInv, RemoteInv, phase # "setup", NEW cmd
  PROVE  Known(cmd) <=> /\ cmd.local.base \in Bases(offered["client"])
                        /\ cmd.remote.base \in Bases(offered["server"])
<1>1. Len(regs["client"]) = Lists("client") /\ "client" \in Sides
  BY DEF RegionsInv, Sides
<1>2. Bases(regs["client"]) = Bases(offered["client"])
  BY <1>1, RegionsFacts
<1> QED
  BY <1>2 DEF Known, RemoteInv

LEMMA KindOfPosted ==
  ASSUME TypeOK, RegionsInv, RemoteInv, phase # "setup",
         NEW cmd \in Command, cmd.local.size > 0, Known(cmd)
  PROVE  KindOf(cmd) = IF Permitted(cmd) THEN "good" ELSE "outside"
<1>1. cmd.local.size # 0
  BY DEF Command, TensorBlock
<1>2. /\ cmd.local.base \in Bases(offered["client"])
      /\ cmd.remote.base \in Bases(offered["server"])
      /\ Permitted(cmd) <=> /\ Fits("client", cmd.local, cmd.local.size)
                            /\ Fits("server", cmd.remote, cmd.local.size)
  BY PermittedIffFits
<1> QED
  BY <1>1, <1>2 DEF KindOf

-----------------------------------------------------------------------------
(* The initial states. *)

LEMMA InitIInv == Init => IInv
<1> SUFFICES ASSUME Init PROVE IInv
  OBVIOUS
<1>1. TypeOK
  <2>1. mem \in [Sides -> [Address -> Sides \X Address]]
    BY DEF Init, Original
  <2>2. regs \in [Sides -> Seq(Buffers)] /\ DOMAIN remote = {} /\ done = << >>
    BY DEF Init
  <2> QED
    BY <2>1, <2>2 DEF Init, TypeOK
<1>2. RegionsInv
  <2>1. \A s \in Sides : Len(regs[s]) = 0 /\ Lists(s) \in Nat
    BY OfferedFacts DEF Init
  <2> QED
    BY <2>1 DEF Init, RegionsInv
<1>3. Len(done) = 0
  BY DEF Init
<1>4. RemoteInv /\ KindDecides /\ RoundTrip
  BY <1>3 DEF Init, RemoteInv, KindDecides, RoundTrip
<1>5. ForeignBytesUntouched /\ SentInv
  BY <1>3 DEF Init, ForeignBytesUntouched, SentInv
<1> QED
  BY <1>1, <1>2, <1>4, <1>5 DEF IInv

-----------------------------------------------------------------------------
(* Setup: no command has been executed, and nothing is moved. *)

LEMMA RegisterIInv ==
  ASSUME IInv, NEW s \in Sides, Register(s)
  PROVE  IInv'
<1> USE DEF IInv
<1>1. /\ phase = "setup" /\ remote = << >> /\ done = << >>
      /\ UNCHANGED <<build, offered, remote, phase, mem, done>>
  BY DEF Register, RemoteInv
<1> DEFINE n == Len(regs[s])
           new == GPUMemBuffer(offered[s][n + 1])
<1>2. /\ \A t \in Sides : regs[t] \in Seq(Buffers)
      /\ n \in Nat /\ n + 1 \in 1 .. Lists(s)
      /\ \A t \in Sides : Lists(t) \in Nat
  BY OfferedFacts DEF TypeOK, Register, Lists
<1>3. new \in Buffers
  BY <1>2, OfferedFacts DEF TypeOK
<1>4. /\ regs' = [regs EXCEPT ![s] = Append(regs[s], new)]
      /\ regs'[s] = Append(regs[s], new)
      /\ \A t \in Sides \ {s} : regs'[t] = regs[t]
  BY DEF Register, TypeOK
<1> HIDE DEF n, new
<1>5. TypeOK'
  <2>1. regs' \in [Sides -> Seq(Buffers)]
    BY <1>2, <1>3, <1>4 DEF TypeOK
  <2> QED
    BY <1>1, <2>1 DEF TypeOK
<1>6. RegionsInv'
  <2>1. ASSUME NEW t \in Sides
        PROVE  /\ Len(regs'[t]) <= Lists(t)
               /\ \A i \in 1 .. Len(regs'[t]) :
                    regs'[t][i] = GPUMemBuffer(offered[t][i])
    <3>1. CASE t # s
      BY <1>4, <3>1 DEF RegionsInv
    <3>2. CASE t = s
      <4>1. /\ Len(regs'[s]) = n + 1
            /\ \A i \in 1 .. n : regs'[s][i] = regs[s][i]
            /\ regs'[s][n + 1] = new
        BY <1>2, <1>3, <1>4 DEF n
      <4>2. \A i \in 1 .. n : regs[s][i] = GPUMemBuffer(offered[s][i])
        BY DEF RegionsInv, n
      <4>3. \A i \in 1 .. n + 1 : i \in 1 .. n \/ i = n + 1
        BY <1>2
      <4> QED
        BY <1>2, <3>2, <4>1, <4>2, <4>3 DEF new
    <3> QED
      BY <3>1, <3>2
  <2> QED
    BY <1>1, <2>1 DEF RegionsInv, Lists
<1>7. RemoteInv'
  BY <1>1 DEF RemoteInv
<1>8. KindDecides' /\ RoundTrip'
  BY <1>1 DEF KindDecides, RoundTrip
<1>9. ForeignBytesUntouched' /\ SentInv'
  BY <1>1 DEF ForeignBytesUntouched, SentInv, OnlySends
<1> QED
  BY <1>5, <1>6, <1>7, <1>8, <1>9

LEMMA ReceiveConnectionsIInv ==
  ASSUME IInv, ReceiveConnections
  PROVE  IInv'
<1> USE DEF IInv
<1>1. /\ phase = "setup" /\ done = << >> /\ phase' = "up"
      /\ UNCHANGED <<build, offered, regs, mem, done>>
      /\ \A s \in Sides : Len(regs[s]) = Lists(s)
      /\ "server" \in Sides
  BY DEF ReceiveConnections, RemoteInv, Lists, Sides
<1>2. /\ Bases(regs["server"]) = Bases(offered["server"])
      /\ \A base \in Bases(offered["server"]) :
           /\ LastOf(regs["server"], base) = LastOf(offered["server"], base)
           /\ LastOf(offered["server"], base) \in 1 .. Lists("server")
  BY <1>1, RegionsFacts
<1>3. remote' = [base \in Bases(offered["server"]) |->
                  [base |-> base, key |-> LastOf(offered["server"], base)]]
  BY <1>2 DEF ReceiveConnections
<1>4. TypeOK'
  BY <1>1, <1>2, <1>3 DEF TypeOK
<1>5. RegionsInv'
  BY <1>1 DEF RegionsInv, Lists
<1>6. RemoteInv'
  BY <1>1, <1>3 DEF RemoteInv
<1>7. KindDecides' /\ RoundTrip'
  BY <1>1 DEF KindDecides, RoundTrip
<1>8. ForeignBytesUntouched' /\ SentInv'
  BY <1>1 DEF ForeignBytesUntouched, SentInv, OnlySends
<1> QED
  BY <1>4, <1>5, <1>6, <1>7, <1>8

-----------------------------------------------------------------------------
(* One command. *)

LEMMA NoCommandWhileUp ==
  ASSUME UNCHANGED <<build, offered, regs, remote>>, phase # "setup", phase' # "setup",
         RegionsInv, RemoteInv
  PROVE  RegionsInv' /\ RemoteInv'
BY DEF RegionsInv, RemoteInv, Lists

(* The list of commands grows by one. *)
LEMMA FinishFacts ==
  ASSUME TypeOK, NEW cmd \in Command, NEW result \in Results, Finish(cmd, result)
  PROVE  /\ done' \in Seq([cmd : Command, result : Results])
         /\ Len(done) \in Nat /\ Len(done') = Len(done) + 1
         /\ \A i \in 1 .. Len(done) : done'[i] = done[i]
         /\ done'[Len(done) + 1] = [cmd |-> cmd, result |-> result]
BY DEF TypeOK, Finish

LEMMA ExpectedResults ==
  ASSUME UNCHANGED <<build, offered>>,
         \A i \in 1 .. Len(done') : done'[i].result \in Expected(done'[i].cmd)
  PROVE  KindDecides'
<1>1. \A c : Expected(c)' = Expected(c)
  BY ExpectedIsStable
<1>2. ResultsExpected'
  <2>1. ASSUME NEW i \in 1 .. Len(done') PROVE (done[i].result \in Expected(done[i].cmd))'
    <3>1. PICK c : c = done'[i].cmd
      OBVIOUS
    <3>2. done'[i].result \in Expected(c)'
      BY <1>1, <3>1
    <3> QED
      BY <3>1, <3>2 DEF Expected, KindOf, Fits
  <2> QED
    BY <2>1 DEF ResultsExpected
<1> QED
  BY <1>2, KindDecidesIff, PTL

LEMMA KindDecidesStep ==
  ASSUME TypeOK, KindDecides, UNCHANGED <<build, offered>>,
         NEW cmd \in Command, NEW result \in Results, Finish(cmd, result),
         result \in Expected(cmd)
  PROVE  KindDecides'
<1>1. /\ Len(done) \in Nat /\ Len(done') = Len(done) + 1
      /\ \A i \in 1 .. Len(done) : done'[i] = done[i]
      /\ done'[Len(done) + 1] = [cmd |-> cmd, result |-> result]
  BY FinishFacts
<1>2. \A i \in 1 .. Len(done) : done[i].result \in Expected(done[i].cmd)
  BY KindDecidesIff DEF ResultsExpected
<1>3. ASSUME NEW i \in 1 .. Len(done')
      PROVE  done'[i].result \in Expected(done'[i].cmd)
  <2>1. i \in 1 .. Len(done) \/ i = Len(done) + 1
    BY <1>1
  <2>2. CASE i \in 1 .. Len(done)
    <3>1. done'[i] = done[i]
      BY <1>1, <2>2
    <3> QED
      BY <1>2, <2>2, <3>1
  <2>3. CASE i = Len(done) + 1
    <3>1. done'[i].cmd = cmd /\ done'[i].result = result
      BY <1>1, <2>3
    <3> QED
      BY <3>1
  <2> QED
    BY <2>1, <2>2, <2>3
<1> QED
  BY <1>3, ExpectedResults

(* What a transfer of size bytes leaves behind at its destination.         *)
IsCopy(new, src, from, dst, to, size) ==
  /\ new \in [Address -> Sides \X Address]
  /\ \A a \in Address : a \notin to .. to + size - 1 => new[a] = dst[a]
  /\ \A a \in Address :
       (to <= a /\ a < to + size) => new[a] = src[from + (a - to)]

LEMMA CopyIsCopy ==
  ASSUME NEW src \in [Address -> Sides \X Address],
         NEW dst \in [Address -> Sides \X Address],
         NEW from \in Address, NEW to \in Address, NEW size \in Nat,
         from + size <= Top, to + size <= Top
  PROVE  IsCopy(Copy(src, from, dst, to, size), src, from, dst, to, size)
<1>1. from \in Nat /\ to \in Nat /\ Top \in Nat /\ Address = 0 .. Top - 1
  BY TopIsPositive DEF Address
<1>2. \A a \in Address : (to <= a /\ a < to + size) => from + (a - to) \in Address
  BY <1>1
<1>3. Copy(src, from, dst, to, size) \in [Address -> Sides \X Address]
  BY <1>2 DEF Copy
<1>4. \A a \in Address : a \notin to .. to + size - 1 => ~(to <= a /\ a < to + size)
  BY <1>1
<1> QED
  BY <1>3, <1>4 DEF Copy, IsCopy

(* The conjuncts about memory, for a command that moves nothing.           *)
LEMMA IdleStep ==
  ASSUME IInv, UNCHANGED <<build, offered, regs, remote, mem>>,
         phase # "setup", phase' \in {"up", "error", "dead"},
         NEW cmd \in Command, NEW result \in Results, Finish(cmd, result),
         result # "moved", result \in Expected(cmd)
  PROVE  IInv'
<1> USE DEF IInv
<1>0. /\ done' \in Seq([cmd : Command, result : Results])
      /\ Len(done) \in Nat /\ Len(done') = Len(done) + 1
      /\ \A i \in 1 .. Len(done) : done'[i] = done[i]
      /\ done'[Len(done) + 1] = [cmd |-> cmd, result |-> result]
  BY FinishFacts
<1>1. TypeOK'
  BY <1>0 DEF TypeOK
<1>2. RegionsInv' /\ RemoteInv'
  <2>1. UNCHANGED <<build, offered, regs, remote>> /\ phase' # "setup"
    OBVIOUS
  <2> QED
    BY <2>1, NoCommandWhileUp
<1>3. KindDecides'
  BY KindDecidesStep
<1>4. ForeignBytesUntouched'
  BY DEF ForeignBytesUntouched
<1>5. RoundTrip'
  <2>1. done'[Len(done')].result # "moved"
    BY <1>0
  <2> QED
    BY <2>1 DEF RoundTrip, Returns
<1>6. SentInv'
  <2>1. OnlySends' => OnlySends
    BY <1>0 DEF OnlySends
  <2>2. done'[Len(done')].result # "moved"
    BY <1>0
  <2> QED
    BY <2>1, <2>2 DEF SentInv
<1> QED
  BY <1>1, <1>2, <1>3, <1>4, <1>5, <1>6

(* A Write: the server's memory alone changes, inside its buffers, and the *)
(* bytes that were moved are the same on both sides.                       *)
LEMMA WriteStep ==
  ASSUME IInv, UNCHANGED <<build, offered, regs, remote>>, phase # "setup",
         NEW cmd \in Command, Write(cmd)
  PROVE  IInv'
<1> USE DEF IInv
<1> DEFINE from == LocalAddr(cmd)
           to == RemoteAddr(cmd)
           size == cmd.local.size
<1>0. /\ Finish(cmd, "moved") /\ "moved" \in Results /\ phase' = phase
      /\ Known(cmd) /\ Permitted(cmd) /\ size > 0 /\ size \in Nat /\ cmd.op = "send"
      /\ "client" \in Sides /\ "server" \in Sides
  BY DEF Write, Posts, Results, Sides, Command, TensorBlock
<1>1. /\ done' \in Seq([cmd : Command, result : Results])
      /\ Len(done) \in Nat /\ Len(done') = Len(done) + 1
      /\ \A i \in 1 .. Len(done) : done'[i] = done[i]
      /\ done'[Len(done) + 1] = [cmd |-> cmd, result |-> "moved"]
  BY <1>0, FinishFacts
<1>2. /\ from \in Address /\ to \in Address
      /\ from + size <= Top /\ to + size <= Top
      /\ \A a \in to .. to + size - 1 :
           \E i \in 1 .. Lists("server") : Covers(offered["server"][i], a, 1)
  BY <1>0, MovedInside
<1>3. /\ mem["client"] \in [Address -> Sides \X Address]
      /\ mem["server"] \in [Address -> Sides \X Address]
  BY <1>0 DEF TypeOK
<1>4. /\ mem' = [mem EXCEPT !["server"] =
                  Copy(mem["client"], from, mem["server"], to, size)]
      /\ mem'["client"] = mem["client"]
      /\ mem'["server"] = Copy(mem["client"], from, mem["server"], to, size)
  BY <1>0 DEF Write, TypeOK, Sides
<1>5. IsCopy(mem'["server"], mem["client"], from, mem["server"], to, size)
  <2> HIDE DEF from, to, size
  <2>1. from + size <= Top /\ to + size <= Top /\ size \in Nat
    BY <1>0, <1>2
  <2> QED
    BY <1>2, <1>3, <1>4, <2>1, CopyIsCopy
<1> HIDE DEF from, to, size
<1>6. TypeOK'
  <2>1. mem' \in [Sides -> [Address -> Sides \X Address]]
    BY <1>4, <1>5 DEF TypeOK, IsCopy
  <2> QED
    BY <1>0, <1>1, <2>1 DEF TypeOK
<1>7. RegionsInv' /\ RemoteInv'
  BY <1>0, NoCommandWhileUp
<1>8. KindDecides'
  <2>1. KindOf(cmd) = "good"
    BY <1>0, KindOfPosted DEF size
  <2> QED
    BY <1>0, <2>1, KindDecidesStep DEF Expected, ExpectedOf
<1>9. ForeignBytesUntouched'
  <2>1. ASSUME NEW s \in Sides, NEW a \in Address, mem'[s][a] # Original[s][a]
        PROVE  \E i \in 1 .. Len(offered[s]) : Covers(offered[s][i], a, 1)
    <3>1. CASE mem'[s][a] = mem[s][a]
      BY <2>1, <3>1 DEF ForeignBytesUntouched
    <3>2. CASE mem'[s][a] # mem[s][a]
      <4>1. s = "server"
        BY <1>4, <3>2 DEF Sides
      <4>2. a \in to .. to + size - 1
        BY <1>5, <3>2, <4>1 DEF IsCopy
      <4> QED
        BY <1>2, <4>1, <4>2 DEF Lists
    <3> QED
      BY <3>1, <3>2
  <2> QED
    BY <2>1 DEF ForeignBytesUntouched
<1>10. RoundTrip'
  <2>1. ASSUME Len(done') > 1 PROVE ~Returns(done'[Len(done') - 1], done'[Len(done')])
    <3>1. done'[Len(done') - 1].cmd \in Command
      <4>1. Len(done') - 1 \in 1 .. Len(done')
        BY <1>1, <2>1
      <4>2. \A i \in 1 .. Len(done') : done'[i] \in [cmd : Command, result : Results]
        <5>1. done' \in Seq([cmd : Command, result : Results])
          BY <1>1
        <5> QED
          BY <5>1, Zenon, ElementOfSeq
      <4>3. done'[Len(done') - 1] \in [cmd : Command, result : Results]
        BY <4>1, <4>2
      <4> QED
        BY <4>3
    <3>2. done'[Len(done')].cmd.op = "send"
      BY <1>0, <1>1
    <3> QED
      BY <3>1, <3>2 DEF Returns, Command
  <2> QED
    BY <2>1 DEF RoundTrip, Returns
<1>11. SentInv'
  <2>1. OnlySends' => mem'["client"] = Original["client"]
    BY <1>1, <1>4 DEF OnlySends, SentInv
  <2>2. ASSUME NEW a \in Address, from <= a, a < from + size
        PROVE  mem'["server"][to + (a - from)] = mem'["client"][a]
    <3>1. /\ a \in Nat /\ from \in Nat /\ to \in Nat /\ Top \in Nat
      BY <1>2, TopIsPositive DEF Address
    <3>2. to + (a - from) \in Address
      BY <1>0, <1>2, <2>2, <3>1 DEF Address
    <3>3. mem'["server"][to + (a - from)] = mem["client"][from + ((to + (a - from)) - to)]
      BY <1>0, <1>5, <2>2, <3>1, <3>2 DEF IsCopy
    <3>4. from + ((to + (a - from)) - to) = a
      BY <3>1
    <3> QED
      BY <1>4, <3>3, <3>4
  <2>3. LocalAddr(cmd) = from /\ RemoteAddr(cmd)' = to /\ cmd.local.size = size
    BY DEF RemoteAddr, from, to, size
  <2>4. SameBytes(cmd)'
    BY <2>2, <2>3 DEF SameBytes, LocalAddr
  <2>5. done'[Len(done')].cmd = cmd
    BY <1>1
  <2>6. ASSUME NEW c, c = done'[Len(done')].cmd
        PROVE  SameBytes(c)'
    BY <2>4, <2>5, <2>6
  <2>7. SameBytes(done[Len(done)].cmd)'
    BY <2>6 DEF SameBytes, LocalAddr, RemoteAddr
  <2> QED
    BY <2>1, <2>7 DEF SentInv
<1> QED
  BY <1>6, <1>7, <1>8, <1>9, <1>10, <1>11

(* A Read: the client's memory alone changes, inside its buffers; a Read   *)
(* of the blocks of the Send before it puts back what is there.            *)
LEMMA ReadStep ==
  ASSUME IInv, UNCHANGED <<build, offered, regs, remote>>, phase # "setup",
         NEW cmd \in Command, Read(cmd)
  PROVE  IInv'
<1> USE DEF IInv
<1> DEFINE from == RemoteAddr(cmd)
           to == LocalAddr(cmd)
           size == cmd.local.size
<1>0. /\ Finish(cmd, "moved") /\ "moved" \in Results /\ phase' = phase
      /\ Known(cmd) /\ Permitted(cmd) /\ size > 0 /\ size \in Nat /\ cmd.op = "recv"
      /\ "client" \in Sides /\ "server" \in Sides
  BY DEF Read, Posts, Results, Sides, Command, TensorBlock
<1>1. /\ done' \in Seq([cmd : Command, result : Results])
      /\ Len(done) \in Nat /\ Len(done') = Len(done) + 1
      /\ \A i \in 1 .. Len(done) : done'[i] = done[i]
      /\ done'[Len(done) + 1] = [cmd |-> cmd, result |-> "moved"]
  BY <1>0, FinishFacts
<1>2. /\ from \in Address /\ to \in Address
      /\ from + size <= Top /\ to + size <= Top
      /\ \A a \in to .. to + size - 1 :
           \E i \in 1 .. Lists("client") : Covers(offered["client"][i], a, 1)
  BY <1>0, MovedInside
<1>3. /\ mem["client"] \in [Address -> Sides \X Address]
      /\ mem["server"] \in [Address -> Sides \X Address]
  BY <1>0 DEF TypeOK
<1>4. /\ mem' = [mem EXCEPT !["client"] =
                  Copy(mem["server"], from, mem["client"], to, size)]
      /\ mem'["server"] = mem["server"]
      /\ mem'["client"] = Copy(mem["server"], from, mem["client"], to, size)
  BY <1>0 DEF Read, TypeOK, Sides
<1>5. IsCopy(mem'["client"], mem["server"], from, mem["client"], to, size)
  <2> HIDE DEF from, to, size
  <2>1. from + size <= Top /\ to + size <= Top /\ size \in Nat
    BY <1>0, <1>2
  <2> QED
    BY <1>2, <1>3, <1>4, <2>1, CopyIsCopy
<1> HIDE DEF from, to, size
<1>6. TypeOK'
  <2>1. mem' \in [Sides -> [Address -> Sides \X Address]]
    BY <1>4, <1>5 DEF TypeOK, IsCopy
  <2> QED
    BY <1>0, <1>1, <2>1 DEF TypeOK
<1>7. RegionsInv' /\ RemoteInv'
  BY <1>0, NoCommandWhileUp
<1>8. KindDecides'
  <2>1. KindOf(cmd) = "good"
    BY <1>0, KindOfPosted DEF size
  <2> QED
    BY <1>0, <2>1, KindDecidesStep DEF Expected, ExpectedOf
<1>9. ForeignBytesUntouched'
  <2>1. ASSUME NEW s \in Sides, NEW a \in Address, mem'[s][a] # Original[s][a]
        PROVE  \E i \in 1 .. Len(offered[s]) : Covers(offered[s][i], a, 1)
    <3>1. CASE mem'[s][a] = mem[s][a]
      BY <2>1, <3>1 DEF ForeignBytesUntouched
    <3>2. CASE mem'[s][a] # mem[s][a]
      <4>1. s = "client"
        BY <1>4, <3>2 DEF Sides
      <4>2. a \in to .. to + size - 1
        BY <1>5, <3>2, <4>1 DEF IsCopy
      <4> QED
        BY <1>2, <4>1, <4>2 DEF Lists
    <3> QED
      BY <3>1, <3>2
  <2> QED
    BY <2>1 DEF ForeignBytesUntouched
<1>10. RoundTrip'
  <2> DEFINE n == Len(done)
  <2>1. SUFFICES ASSUME n > 0, Returns(done[n], [cmd |-> cmd, result |-> "moved"]),
                        \A i \in 1 .. n : done[i].cmd.op = "send"
                 PROVE  mem'["client"] = Original["client"]
    <3>1. /\ Len(done') = n + 1 /\ n + 1 > 1 => n > 0
          /\ n > 0 => done'[(n + 1) - 1] = done[n]
      BY <1>1
    <3> QED
      BY <1>1, <3>1 DEF RoundTrip, Returns
  <2>2. done[n].result = "moved" /\ cmd = [done[n].cmd EXCEPT !.op = "recv"]
    BY <2>1 DEF Returns
  <2>3. mem["client"] = Original["client"] /\ SameBytes(done[n].cmd)
    BY <2>1, <2>2 DEF SentInv, OnlySends
  <2>4. LocalAddr(done[n].cmd) = to /\ RemoteAddr(done[n].cmd) = from
        /\ done[n].cmd.local.size = size
    BY <2>2 DEF LocalAddr, RemoteAddr, to, from, size
  <2>5. ASSUME NEW a \in Address PROVE mem'["client"][a] = mem["client"][a]
    <3>1. CASE a \in to .. to + size - 1
      <4>1. to <= a /\ a < to + size
        BY <1>0, <1>2, <3>1 DEF Address
      <4> QED
        BY <1>5, <2>3, <2>4, <4>1 DEF IsCopy, SameBytes
    <3>2. CASE a \notin to .. to + size - 1
      BY <1>5, <3>2 DEF IsCopy
    <3> QED
      BY <3>1, <3>2
  <2> QED
    BY <1>3, <1>5, <2>3, <2>5 DEF IsCopy
<1>11. SentInv'
  <2>1. ~OnlySends'
    BY <1>0, <1>1 DEF OnlySends
  <2> QED
    BY <2>1 DEF SentInv
<1> QED
  BY <1>6, <1>7, <1>8, <1>9, <1>10, <1>11

LEMMA ExecuteIInv ==
  ASSUME IInv, Execute
  PROVE  IInv'
<1> USE DEF IInv
<1>1. phase = "up" /\ UNCHANGED <<build, offered, regs, remote>>
  BY DEF Execute
<1>2. PICK op \in {"send", "recv"},
           l \in Named("client", Sizes), r \in Named("server", {0}) :
        LET cmd == [op |-> op, local |-> l, remote |-> r]
        IN  Skip(cmd) \/ Panic(cmd) \/ Reject(cmd) \/ Write(cmd) \/ Read(cmd)
  BY DEF Execute
<1> DEFINE cmd == [op |-> op, local |-> l, remote |-> r]
<1>3. cmd \in Command
  <2>1. Sizes \in SUBSET Nat /\ {0} \in SUBSET Nat /\ "client" \in Sides /\ "server" \in Sides
    BY ListsAssumption DEF Sides
  <2>2. l \in TensorBlock /\ r \in TensorBlock
    BY <2>1, NamedFacts
  <2> QED
    BY <2>2 DEF Command
<1>4. Skip(cmd) \/ Panic(cmd) \/ Reject(cmd) \/ Write(cmd) \/ Read(cmd)
  BY <1>2
<1> HIDE DEF cmd
<1>5. cmd.local.size \in Nat
  BY <1>3 DEF Command, TensorBlock
<1>6. CASE Skip(cmd)
  <2>1. KindOf(cmd) = "empty"
    BY <1>6 DEF Skip, KindOf
  <2>2. "skipped" \in Expected(cmd) /\ "skipped" \in Results
    BY <2>1 DEF Expected, ExpectedOf, Results
  <2>3. /\ phase # "setup" /\ phase' \in {"up", "error", "dead"}
        /\ UNCHANGED <<build, offered, regs, remote, mem>>
        /\ Finish(cmd, "skipped")
    BY <1>1, <1>6 DEF Skip
  <2> QED
    BY <1>1, <1>3, <2>2, <2>3, IdleStep
<1>7. CASE Panic(cmd)
  <2>1. "panicked" \in Expected(cmd)
    <3>1. CASE ~Known(cmd)
      <4>1. cmd.local.size # 0
        BY <1>5, <1>7 DEF Panic
      <4>2. \/ cmd.local.base \notin Bases(offered["client"])
            \/ cmd.remote.base \notin Bases(offered["server"])
        BY <1>1, <3>1, KnownIffInBases
      <4>3. KindOf(cmd) = "unknown"
        BY <4>1, <4>2 DEF KindOf
      <4> QED
        BY <4>3 DEF Expected, ExpectedOf
    <3>2. CASE Known(cmd)
      <4>1. build = "debug" /\ Overflows(cmd)
        BY <1>7, <3>2 DEF Panic
      <4>2. KindOf(cmd) = "outside"
        BY <1>1, <1>3, <1>7, <3>2, <4>1, PermittedIffFits, KindOfPosted DEF Panic
      <4> QED
        BY <4>1, <4>2 DEF Expected, ExpectedOf
    <3> QED
      BY <3>1, <3>2
  <2>2. "panicked" \in Results
    BY DEF Results
  <2> QED
    BY <1>1, <1>3, <1>7, <2>1, <2>2, IdleStep DEF Panic
<1>8. CASE Reject(cmd)
  <2>1. KindOf(cmd) = "outside"
    BY <1>1, <1>3, <1>8, KindOfPosted DEF Reject, Posts
  <2>2. "rejected" \in Expected(cmd) /\ "rejected" \in Results
    BY <2>1 DEF Expected, ExpectedOf, Results
  <2> QED
    BY <1>1, <1>3, <1>8, <2>2, IdleStep DEF Reject
<1>9. CASE Write(cmd)
  BY <1>1, <1>3, <1>9, WriteStep
<1>10. CASE Read(cmd)
  BY <1>1, <1>3, <1>10, ReadStep
<1> QED
  BY <1>4, <1>6, <1>7, <1>8, <1>9, <1>10

-----------------------------------------------------------------------------

LEMMA NextIInv ==
  ASSUME IInv, [Next]_vars
  PROVE  IInv'
<1>1. ASSUME NEW s \in Sides, Register(s) PROVE IInv'
  BY <1>1, RegisterIInv
<1>2. CASE ReceiveConnections
  BY <1>2, ReceiveConnectionsIInv
<1>3. CASE Execute
  BY <1>3, ExecuteIInv
<1>4. CASE UNCHANGED vars
  <2>1. UNCHANGED <<build, offered, regs, remote, phase, mem, done>>
    BY <1>4 DEF vars
  <2>2. TypeOK' /\ RegionsInv' /\ RemoteInv'
    BY <2>1 DEF IInv, TypeOK, RegionsInv, RemoteInv, Lists
  <2>3. KindDecides'
    <3>1. \A i \in 1 .. Len(done) : done[i].result \in Expected(done[i].cmd)
      BY KindDecidesIff DEF IInv, ResultsExpected
    <3> QED
      BY <2>1, <3>1, ExpectedResults
  <2>4. ForeignBytesUntouched' /\ RoundTrip'
    BY <2>1 DEF IInv, ForeignBytesUntouched, RoundTrip, Returns
  <2>5. SentInv'
    BY <2>1 DEF IInv, SentInv, OnlySends, SameBytes, LocalAddr, RemoteAddr
  <2> QED
    BY <2>2, <2>3, <2>4, <2>5 DEF IInv
<1> QED
  BY <1>1, <1>2, <1>3, <1>4 DEF Next

(* Every reachable state satisfies the inductive invariant. *)
THEOREM Invariance == Spec => []IInv
BY InitIInv, NextIInv, PTL DEF Spec

(* The variables of the data path keep their types; in particular every    *)
(* copied byte comes from an address of one of the two memories.           *)
THEOREM TypeCorrect == Spec => []TypeOK
BY Invariance, PTL DEF IInv

(* What becomes of a transfer depends on the kind of its blocks alone: an  *)
(* offset that makes base + offset wrap around is never taken for one      *)
(* inside the buffer, for any width of an address.                         *)
THEOREM KindsDecide == Spec => []KindDecides
BY Invariance, PTL DEF IInv

(* Whatever blocks are named, no byte outside the offered buffers changes. *)
THEOREM ForeignBytesSafe == Spec => []ForeignBytesUntouched
BY Invariance, PTL DEF IInv

(* A Recv of the blocks of the Send before it leaves the client's memory   *)
(* as it was: both arms of the worker address the same bytes.              *)
THEOREM RoundTrips == Spec => []RoundTrip
BY Invariance, PTL DEF IInv
=============================================================================
