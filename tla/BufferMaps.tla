----------------------------- MODULE BufferMaps -----------------------------
(***************************************************************************)
(* From the tensor blocks callers name to the bytes that move: which       *)
(* buffers a connection registers, the map by base pointer that the        *)
(* worker looks a command's blocks up in, the addresses it computes, and   *)
(* the adapter's check of them.  VllmSession only knows the kind of a      *)
(* block; this module says which blocks are of which kind.                 *)
(*                                                                         *)
(* A memory maps an address to where its byte came from.                   *)
(***************************************************************************)
EXTENDS Naturals, Sequences

CONSTANTS
  AddrBits,        (* width of an address: 64 in the code                   *)
  BufferLists,     (* bound: the buffers a side may be created with         *)
  Offsets, Sizes,  (* bound: the offsets and sizes commands name            *)
  MaxTransfers     (* bound: commands in a behaviour                        *)

Top == 2 ^ AddrBits
Address == 0 .. Top - 1

TensorBlock == [base : Address, offset : Address, size : Nat]

(* Buffers are memory the caller owns. *)
ASSUME ListsAssumption ==
  /\ AddrBits \in Nat
  /\ BufferLists \subseteq Seq(TensorBlock)
  /\ \A bs \in BufferLists : \A i \in 1 .. Len(bs) :
       bs[i].size > 0 /\ bs[i].base + bs[i].size <= Top
  /\ Offsets \subseteq Address /\ Sizes \subseteq Nat
  /\ MaxTransfers \in Nat

Sides == {"client", "server"}

VARIABLES
  build,     (* "debug", where an overflowing + panics, or "release", where *)
             (* it wraps around                                             *)
  offered,   (* local_buffer of each side                                   *)
  regs,      (* the memory regions of each side, by the number of their key *)
  remote,    (* remote_gpu_buffers: the client's map of the server's        *)
  phase,     (* of the connection                                           *)
  mem,       (* the GPU memory of each side                                 *)
  done       (* the commands executed, with their results                   *)

vars == <<build, offered, regs, remote, phase, mem, done>>

Original == [s \in Sides |-> [a \in Address |-> <<s, a>>]]

Buffers == [base : Address, size : Nat]

Command == [op : {"send", "recv"}, local : TensorBlock, remote : TensorBlock]

Results == {"skipped", "moved", "rejected", "panicked"}

TypeOK ==
  /\ build \in {"debug", "release"}
  /\ offered \in [Sides -> BufferLists]
  /\ regs \in [Sides -> Seq(Buffers)]
  /\ \A base \in DOMAIN remote :
       remote[base].base = base /\ remote[base].key \in 1 .. Len(regs["server"])
  /\ phase \in {"setup", "up", "error", "dead"}
  /\ mem \in [Sides -> [Address -> Sides \X Address]]
  /\ done \in Seq([cmd : Command, result : Results])

Init ==
  /\ build \in {"debug", "release"}
  /\ offered \in [Sides -> BufferLists]
  /\ regs = [s \in Sides |-> << >>]
  /\ remote = << >>
  /\ phase = "setup"
  /\ mem = Original
  /\ done = << >>

-----------------------------------------------------------------------------
(* Setup *)

Bases(list) == {list[i].base : i \in 1 .. Len(list)}

(* Inserting one by one, a map keeps the last entry of a base pointer. *)
LastOf(list, base) ==
  CHOOSE i \in 1 .. Len(list) :
    /\ list[i].base = base
    /\ \A j \in i + 1 .. Len(list) : list[j].base # base

(* Variant: the buffer of a block starts at its offset. *)
GPUMemBufferAtOffset(b) == [base |-> b.base, size |-> b.size + b.offset]

GPUMemBuffer(b) == [base |-> b.base, size |-> b.size]

Register(s) ==
  /\ phase = "setup" /\ Len(regs[s]) < Len(offered[s])
  /\ regs' = [regs EXCEPT ![s] =
                Append(@, GPUMemBuffer(offered[s][Len(@) + 1]))]
  /\ UNCHANGED <<build, offered, remote, phase, mem, done>>

(* Variant: the server advertises the key of its first region throughout. *)
ReceiveConnectionsOneKey ==
  /\ phase = "setup"
  /\ \A s \in Sides : Len(regs[s]) = Len(offered[s])
  /\ remote' = [base \in Bases(regs["server"]) |-> [base |-> base, key |-> 1]]
  /\ phase' = "up"
  /\ UNCHANGED <<build, offered, regs, mem, done>>

(* The server's list of Connections reaches the client. *)
ReceiveConnections ==
  /\ phase = "setup"
  /\ \A s \in Sides : Len(regs[s]) = Len(offered[s])
  /\ remote' = [base \in Bases(regs["server"]) |->
                  [base |-> base, key |-> LastOf(regs["server"], base)]]
  /\ phase' = "up"
  /\ UNCHANGED <<build, offered, regs, mem, done>>

-----------------------------------------------------------------------------
(* Commands of the worker *)

Known(cmd) ==
  cmd.remote.base \in DOMAIN remote /\ cmd.local.base \in Bases(regs["client"])

Overflows(cmd) ==
  \/ cmd.local.base + cmd.local.offset >= Top
  \/ remote[cmd.remote.base].base + cmd.remote.offset >= Top

LocalAddr(cmd) == (cmd.local.base + cmd.local.offset) % Top

(* Variant: the arm of Recv adds the offset of the local block. *)
RemoteAddrOfArm(cmd) ==
  (remote[cmd.remote.base].base
     + (IF cmd.op = "recv" THEN cmd.local ELSE cmd.remote).offset) % Top

RemoteAddr(cmd) == (remote[cmd.remote.base].base + cmd.remote.offset) % Top

(* The adapter moves bytes only inside the region of the key it is given. *)
Covers(buffer, addr, size) ==
  buffer.base <= addr /\ addr + size <= buffer.base + buffer.size

(* The size of the transfer is the local block's, whatever the remote's. *)
Permitted(cmd) ==
  /\ Covers(regs["client"][LastOf(regs["client"], cmd.local.base)],
            LocalAddr(cmd), cmd.local.size)
  /\ Covers(regs["server"][remote[cmd.remote.base].key],
            RemoteAddr(cmd), cmd.local.size)

Copy(src, from, dst, to, size) ==
  [a \in Address |->
     IF to <= a /\ a < to + size THEN src[from + (a - to)] ELSE dst[a]]

Finish(cmd, result) == done' = Append(done, [cmd |-> cmd, result |-> result])

Skip(cmd) ==
  /\ cmd.local.size = 0
  /\ Finish(cmd, "skipped")
  /\ UNCHANGED <<phase, mem>>

(* HashMap::get(..).unwrap(), or the + of a debug build *)
Panic(cmd) ==
  /\ cmd.local.size > 0
  /\ \/ ~Known(cmd)
     \/ Known(cmd) /\ build = "debug" /\ Overflows(cmd)
  /\ Finish(cmd, "panicked")
  /\ phase' = "dead"
  /\ UNCHANGED mem

Posts(cmd) ==
  /\ cmd.local.size > 0
  /\ Known(cmd) /\ ~(build = "debug" /\ Overflows(cmd))

Reject(cmd) ==
  /\ Posts(cmd) /\ ~Permitted(cmd)
  /\ Finish(cmd, "rejected")
  /\ phase' = "error"
  /\ UNCHANGED mem

Write(cmd) ==
  /\ Posts(cmd) /\ Permitted(cmd) /\ cmd.op = "send"
  /\ mem' = [mem EXCEPT !["server"] =
               Copy(mem["client"], LocalAddr(cmd), @, RemoteAddr(cmd),
                    cmd.local.size)]
  /\ Finish(cmd, "moved")
  /\ UNCHANGED phase

Read(cmd) ==
  /\ Posts(cmd) /\ Permitted(cmd) /\ cmd.op = "recv"
  /\ mem' = [mem EXCEPT !["client"] =
               Copy(mem["server"], RemoteAddr(cmd), @, LocalAddr(cmd),
                    cmd.local.size)]
  /\ Finish(cmd, "moved")
  /\ UNCHANGED phase

(* A caller names a base pointer of that side, or one of nobody's.  The    *)
(* worker never looks at the size of the remote block: 0 as connect        *)
(* returned it.                                                            *)
Named(s, sizes) ==
  [base : Bases(offered[s]) \cup {Top - 1}, offset : Offsets, size : sizes]

Execute ==
  /\ phase = "up" /\ Len(done) < MaxTransfers
  /\ \E op \in {"send", "recv"},
        l \in Named("client", Sizes), r \in Named("server", {0}) :
       LET cmd == [op |-> op, local |-> l, remote |-> r]
       IN  Skip(cmd) \/ Panic(cmd) \/ Reject(cmd) \/ Write(cmd) \/ Read(cmd)
  /\ UNCHANGED <<build, offered, regs, remote>>

Next == \/ \E s \in Sides : Register(s)
        \/ ReceiveConnections
        \/ Execute

Spec == Init /\ [][Next]_vars

-----------------------------------------------------------------------------
(* Safety *)

(* The kind of a command's blocks as VllmSession knows it, from the lists  *)
(* the two sides were created with and in exact arithmetic.                *)
Fits(s, b, size) == b.offset + size <= offered[s][LastOf(offered[s], b.base)].size

KindOf(cmd) ==
  IF cmd.local.size = 0 THEN "empty"
  ELSE IF \/ cmd.local.base \notin Bases(offered["client"])
          \/ cmd.remote.base \notin Bases(offered["server"]) THEN "unknown"
  ELSE IF /\ Fits("client", cmd.local, cmd.local.size)
          /\ Fits("server", cmd.remote, cmd.local.size) THEN "good"
  ELSE "outside"

(* What becomes of a transfer depends on its kind alone: exactly the good  *)
(* ones move data.  In particular an offset so large that base + offset    *)
(* wraps around never comes out inside the buffer again.                   *)
KindDecides ==
  \A i \in 1 .. Len(done) :
    done[i].result \in
      CASE KindOf(done[i].cmd) = "empty"   -> {"skipped"}
        [] KindOf(done[i].cmd) = "unknown" -> {"panicked"}
        [] KindOf(done[i].cmd) = "good"    -> {"moved"}
        [] OTHER -> IF build = "debug" THEN {"rejected", "panicked"}
                                      ELSE {"rejected"}

(* Whatever blocks callers name, no byte outside the buffers a side was    *)
(* created with is ever changed there.                                     *)
ForeignBytesUntouched ==
  \A s \in Sides : \A a \in Address :
    mem[s][a] # Original[s][a] =>
      \E i \in 1 .. Len(offered[s]) :
        Covers(offered[s][i], a, 1)

(* A Recv of the two blocks of the Send before it brings back what went    *)
(* out: the two arms of the worker address the same bytes on both sides.   *)
Returns(sent, got) ==
  /\ sent.result = "moved" /\ got.result = "moved"
  /\ got.cmd = [sent.cmd EXCEPT !.op = "recv"]

RoundTrip ==
  LET n == Len(done)
  IN  (/\ n > 1 /\ Returns(done[n - 1], done[n])
       /\ \A i \in 1 .. n - 1 : done[i].cmd.op = "send") =>
        mem["client"] = Original["client"]
=============================================================================
