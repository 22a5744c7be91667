# TLA+ models of rdma-transport

`rdma-transport` moves the KV cache of a vLLM request between two machines: a
client writes (or reads) GPU memory of a server with RDMA and then tells the
server which request is complete. This directory holds TLA+ models of that
code, TLC configurations that check them, and proofs that TLAPS checks.

Paths below are relative to the repository. `vllm/...` stands for
`rdma-transport-py/src/vllm/...` and `rdma/...` for `rdma-transport/src/rdma/...`.

## The system

| part | state | operations | talks to |
|---|---|---|---|
| completion table (`vllm/mod.rs`) | a FIFO and a set of request ids behind an `RwLock` | `add_req`, `is_full`, `remove_first`, `is_req_complete` | server: all session tasks and the Python thread; client: worker and Python thread |
| vLLM client (`vllm/client.rs`) | command channel, worker thread, table | `connect`, `send`, `recv`, `complete`, `is_complete`, `shutdown` | worker by channel; server by RDMA |
| vLLM server (`vllm/server.rs`) | listener thread, tokio runtime, session tasks, shutdown channel, table | `listen`, `is_complete`, `shutdown` | clients by RDMA |
| connection setup (`rdma/client.rs`, `rdma/server.rs`) | queue pair, registered memory, the peer's `Connection`s | `connect`, `accept`, `establish_conn` | connection manager, adapter |
| data path (`rdma/mod.rs`, `handle_notification`, `disconnect`) | one `cpu_buffer` each side, send and receive queues of depth 1 | `write`, `read`, `write_metadata`, `handle_notification`, `disconnect` | adapter |
| logging (`rdma-transport-py/src/lib.rs`) | the GIL of the process | every `info!` and `error!` of any thread | the interpreter |
| CUDA helpers (`cuda/mod.rs`) | the driver's count of references on the primary context | retain, release | driver |
| buffers, verbs wrappers, macros | none of their own | | driver |
| examples (`rdma-transport/examples`) | a ring of GPU buffers | a client that writes messages round it, a server that handles them | the library |

A Python caller queues commands. The worker executes them one at a time: post
one work request, spin until its completion, go on. A `Complete` is serialized
into the client's `cpu_buffer` and the whole buffer is written into the server's
`cpu_buffer` with the size as immediate data; that consumes the one receive the
server's session task has posted, and the task decodes the buffer, records the
request and posts the next receive. `shutdown` sends a "done" notification, after
which both sides disconnect.

What is hard here: two buffers shared by two machines with nothing but a posted
receive between them; errors that are logged and passed over; unwraps that end a
thread and leave the queue pair up; busy polling inside async tasks; a blocking
call inside `select!`; a table whose eviction depends on an equality; calls from Python
that keep the interpreter's lock while native threads need it for logging. `PROJECT.json`
lists each hazard at its line with the properties that cover it.

## Modules

| module | models | state and actions |
|---|---|---|
| `CompletionReqs` | `struct CompletionReqs` | pure operators on a record `[fifo, set, cap]` |
| `CompletionTable` | that struct under its lock, several writers | lock, add, evict, unlock are separate steps |
| `Commands` | `enum Command`, the size of a `Notification` | |
| `TransferService` | what a connection promises in push mode | `Accept`, `Write`, `Announce`, no threads and no adapter |
| `VllmSession` | one connection after its handshake: caller, client worker, two adapters, session task | below |
| `Handshake` | `init`, `connect`, `listen`, `accept` of one connection | one action from one blocking call to the next |
| `BufferMaps` | which buffers are registered, the worker's lookup of a command's blocks, addresses, the adapter's check | `Register`, `ReceiveConnections`, one command at a time |
| `VllmServer` | listener thread, `select!`, session tasks, runtime, shutdown, references on the CUDA context | a session is one long-running task here |
| `ServerObject` | one `VllmRdmaServer` over several calls of `listen` | each call has a channel, a table and perhaps a listener |
| `ServerSessions` | several connections, each a `TransferService`, on one `CompletionTable` | the session task reads, locks, adds, evicts, unlocks |
| `GilConnect` | processes that serve and connect, and the GIL of each | one step per stretch between two needs of the GIL |
| `ExampleTransfer` | `examples/rdma_client.rs` against `examples/rdma_server.rs` | one action per call of the client's loop and of the session |
| `...Proofs` | lemmas and theorems about the module named; `VllmServerProofs` also has those about `ServerObject` | |
| `MC...` | the instances for TLC | |

How they fit together: `VllmSession` implements `TransferService`; `ServerSessions` composes
several of these with `CompletionTable`, and implements both. `VllmSession` uses
`CompletionReqs` for the tables of both sides. `BufferMaps` justifies the kinds of blocks that
`VllmSession` distinguishes, `Handshake` the state it starts in. `VllmServer` is about when
a session runs at all, `ServerObject` about which table its completions end up in, and
`VllmServer` implements it as far as one call of `listen` goes.

### VllmSession

| variable | in the code |
|---|---|
| `accepted`, `taken`, `sender` | the `mpsc` channel: everything it took, how much the worker received, the sending half |
| `cpc`, `clientReqs`, `ccpu` | the worker's position, its `CompletionReqs`, its `cpu_buffer` |
| `send`, `cqp` | the client's send queue (one slot, `max_send_wr = 1`) with its completion, the queue pair's state |
| `spc`, `serverReqs`, `imm` | the session task's position, its `CompletionReqs`, the size it read |
| `scpu`, `landing` | its `cpu_buffer`: the notification in it, and the one whose packets are landing over that |
| `recv`, `sqp` | the server's receive queue (one slot) with its completion, the queue pair's state |
| `written`, `fetched`, `recorded` | history: data that arrived in server memory, in client memory, and the completions recorded |
| `faults` | failures so far: of the link, of either side's `rdma_disconnect` |

A buffer that holds a notification is the position of its command, so that two
notifications with the same request id stay apart. Serializing and decoding are
modelled by sizes: `imm` says how many bytes are decoded, a notification longer
than that is an error, bytes after a notification are ignored (bincode). `recv` and `imm` also
carry the position of the command that was announced; no action reads it, `StableNotification` compares
it with the buffer.

Both sides unwrap the result of their disconnect. If it fails, the worker is `panicked` or the session
`aborted`, with the queue pair up or down.

The adapters are external. They are modelled from what the code relies on: a
reliable connection executes in order; the first error moves the queue pair to
the error state, where everything posted fails; a write with immediate needs a
posted receive and is retried without limit when there is none (the code leaves
the connection parameters to their default). `EarlyPlacement` says whether the
first packets of a write may be placed before its last packet finds a receive,
as on a path whose MTU is below the 4096 bytes of every notification write. Then the packets land one by
one: `PlaceEarly` begins such a landing and may end it, and deserializing takes place while it goes
on, so every byte that is read may be of either notification. `DecodeTorn` records an id spliced from two
(`TornId`, whatever it is), `DecodeNothing` reads the `done` of one and the tag of the other, `DecodeFails`
includes a spliced length that is too long. A third notification cannot land: it needs the receive
that the session posts after decoding.

A post into a free slot is taken to succeed; one into a slot in use fails, as
with a queue of depth one. `SlotsFree` shows that this never happens.

The immediate data is computed as the code does (`Immediate`): slot 0 above a size cast to
16 bits, and the receiver takes the whole word for a size. A notification that is decoded
must have been announced with its own size, which `StableNotification` says.

When the session task is over, by the done notification or a panic, its `cpu_buffer`
is freed while the region stays registered. `LandsInLiveBuffer` is about what may still arrive; it is false
with early placement, where packets follow a session that is over until its queue pair is down.

The worker polls its completion queue without a limit. `PollIsAnswered` says that there is always
somebody who will produce what it polls for: the completion is there, the adapter owes it, or the
session is about to post the receive that the adapter retries for. It is what `ShutdownEnds` needs
of every state, and false with early placement, where a session may panic with both queue pairs up.

The client's table is updated in one step with the post that follows, although
the code does it under the lock that it keeps until the notification's completion
was polled: `ClientIsComplete` is false in between, as `try_read` is.

### Handshake

`pc`, `qp`, `send`, `recv`, `conn` are functions of the side. `cm` is the
connection manager's exchange: requested, rejected if nobody listens, accepted, established, or broken when
one side's call has failed. The
list of GPU buffers is abstracted to its length, which decides whether it fits the buffer.

These calls may fail (`MayFail`, the error that `rdma_call!` returns): whatever `init` does on either side, whatever
comes before the request leaves or is accepted, the receive posted by then or not; `rdma_connect`, by
a time limit or because the answer cannot be processed (`ConnectBreaks`); `rdma_accept`, because the client is gone
(`AcceptUnanswered`) or although it is there (`AcceptBreaks`); the client's send of its `Connection`, its
receive for the list, the server's inline send, for which its `init` reserves no room, its write of
the list, and its `rdma_disconnect`. `ibv_poll_cq` itself does not fail: its negative return is for a
corrupt queue. One timing is assumed: when `rdma_accept` fails although the client's `rdma_connect`
returned, what the client sent has arrived or failed, as the connection manager is patient for a minute
of retries and the queue pair for seconds.

A side that gives up leaves its receive posted. That
receive names a variable of a call that is over, and `LandsInLiveMemory` says that
nothing arrives there. It has one exception, which the model reaches: the server is told the address of the client's
`cpu_buffer` before the client posts the receive for the list; if that post fails, `connect` frees
the buffer, and the first packets of the list may still land in it (`PlaceEarly`).

`SessionStartsClean` is the joint with `VllmSession`: a side that comes through finds its queues of
one slot empty and no completion left over, and if both do, both queue pairs are up. That is
where `VllmSession` starts.

No poll in the handshake has a timeout, and a side that gives up does not tell the other: a client whose
server failed after `rdma_accept` spins in `connect` for ever, and no property objects to what nothing in the code prevents.
`OnlyDesertedHang` says that this is all that can go wrong with the waiting: when no step is left that
the code or an adapter would take (`ClientWaits`, `ServerWaits`, `AdapterWaits`: the guards of the fair
actions, negated and written out), each side is through, has given up, or faces one that has.

### BufferMaps

`VllmSession` takes from a command only the kind of its blocks: empty, unknown, good,
outside. `BufferMaps` computes that kind from base pointers, offsets and sizes: `offered`
is the `local_buffer` of each side, `regs` its registrations, `remote` the client's map
of the server's buffers (the last entry of a base pointer wins, as with `HashMap::insert`).
`build` says whether an overflowing `+` panics or wraps. The check of an address
against its region belongs to the adapter and is external. `mem` maps an
address to the place its byte came from, so that a misplaced copy shows.

### VllmServer

`Running` is the set of sessions that occupy a worker of the runtime. Clients
may leave in order, disappear, or never come. `select!` may poll either branch first.
An error of `rdma_get_request` makes the pattern `Ok(..)` fail, which disables
the branch until the next `select!`.

`refs` counts references on the primary context: the application's own (`HostRefs`, at least one,
since its tensors are what is served), one per `accept`, minus one at shutdown.

### ServerObject

`listen` replaces the shutdown channel and the table before it tries to listen, so a
second call on a running server drops the first call's sender and then panics on the
address in use. An endpoint is never destroyed: dropping an `RdmaCmId` frees memory only.
`current` and `sender` are what the object holds, `channel`, `listener` and `recorded` belong
to the calls. A listener that left its loop is `draining` (by the command) or `unwinding` (`select!`
panicked) until the runtime is dropped: its sessions still record meanwhile.

`ServerObject` abstracts `VllmServer`: the substitution of `Object` in `VllmServer` maps its thread to
the listener of the first of two calls, `select` and `blocked` to `running`, `dropping` to
`draining` or `unwinding`. A sender that goes away (`DropSender`) appears as a second call of `listen` that fails on
the address. `ObjectAgrees` says that every step of `VllmServer` is then one of `ServerObject` or none,
so what the object promises over several calls does not rest on a listener made up for it. The
completions are left out of that mapping, `VllmServer` has none.

### ServerSessions

The state of every connection is that of `TransferService`, plus `note`, the notification
that its session task has read and not finished recording. The table's variables are those of
`CompletionTable` with the connections as its writers. `OneTable` is the composition:
each step is a step or a stutter of every connection's service, and the whole implements
`CompletionTable`.

### GilConnect

`connect` does not release the GIL. The listener's thread logs "start qp handshake" before it
spawns the task that accepts, and with `pyo3_log` that needs the GIL of its process. Two processes
that connect to each other at the same moment therefore wait for each other, as do three in a
ring, or one that connects to its own server. `Knot` is such a set.

What ends it is a time limit of the connection manager, of which the code sets none: `rdma_connect` fails, the
unwrap panics and the GIL is free (`ConnectFails`). The request it leaves behind is still taken by
the listener, and `AcceptFails` disposes of it. `KnotsOutlastAllButTimeouts` says that nothing else loosens a
knot, whoever does what. A knot is also the only way to hang: `HangIsKnot` says what is left when no thread has a
step (`Waits` is the negation of the guards of `Threads`, written out), `OnlyKnotsHang` that each
single `connect` returns otherwise. Left out: handshakes that fail for other reasons; a shortage of
workers; logging below the configured level. The scripts in `rdma-transport-py/examples` log at
DEBUG.

### ExampleTransfer

The two programs once they are connected. Messages are numbered by loop, although the program sends
the same text each time, so that an overwritten one shows. A message is megabytes long,
so a write is first partly there (`Place`), then complete (`Write`). The session posts its next
receive after it handled a request; that is all that keeps the client from running
round the ring.

## Runs

| run | question | result |
|---|---|---|
| `completion_table` | is the table bounded, and what exactly does `is_complete` report? | holds |
| `session` | does a session keep its promises under misuse and failures, does data precede its completion, does every completion arrive, does the worker ever poll in vain, does a shutdown end what it should? | holds |
| `session_early` | with early placement, which reports can be false? | only ids torn from two notifications |
| `session_early_panic` | does `handle_notification(..).unwrap()` hold with early placement? | violated: a finding |
| `handshake` | do both sides agree, does every message find its receive and live memory, is nothing left over for the session, does the attempt end? | holds |
| `buffer_maps` | do the map and the addresses decide a command as `VllmSession` assumes, and hit the right bytes? | holds |
| `server` | is nobody cut off or left without a context, does the listener do what its object expects, who may be left waiting? | holds |
| `server_shutdown` | is a shutdown noticed? | violated: a finding |
| `server_object` | what is left of a server after `listen` was called again? | holds |
| `sessions` | does sharing a table cost a connection its promise, what does `is_complete` mean then? | holds |
| `gil` | who can hang because of the interpreter's lock? | holds |
| `example` | is each message handled while it is intact, once and in order? | holds |

### Bounds

* `completion_table`: capacity 3 and 6 adds of 4 ids by 2 writers. The queue fills
  after 2 adds, so eviction is reached in every pattern of repeats, including an
  older duplicate evicted while a newer one is in the queue. The code's capacity is 1024;
  the proofs are for every capacity.
* `session`: every sequence of up to 3 commands over all kinds of blocks, one
  short id and one that does not fit; one failure; table capacity 2, so that the second
  completion evicts the first. 105,372 states. The safety properties among them are proved for
  all bounds; three commands are enough for a transfer, its completion and what
  follows either.
* `session_early`: 4 commands, ids of two lengths, so that one notification can be
  cut short by the size of another, and torn; one failure.
* `handshake`: up to three failures, so that one can follow what two others left behind; lists of 1, 340 (the longest that fits 4096
  bytes) and 341 buffers.
* `buffer_maps`: addresses of 3 bits, offsets 0, 1 and 6, of which 6 wraps around. Four lists
  of buffers for each side: one buffer, two neighbours, two with the same base, one at
  the end of the address space. Two commands, so that a Recv follows the Send it undoes and
  a second Send follows any first one.
* `server`: 3 clients and 2 workers, so that the workers can run out; one failing call;
  one reference of the application's own.
* `server_object`: 3 calls of `listen`, so that a failed one may come before and after the
  one that serves; 2 ids. Failures are not counted: a call fails to listen once, a listener once.
* `sessions`: 2 connections of 3 commands on a table of capacity 2, so that one connection's
  completion evicts the other's; the clients and the ids are symmetric. 617,990 states.
* `gil`: 3 processes; a ring of all three, one pair in both directions, one process that
  connects to itself: every shape of knot, and a process that waits for a knot it is not in. Any number of timeouts.
* `example`: 7 messages round 2 buffers, the smallest ring the claim holds for, each used
  at least three times; one link failure.

### Fairness

The worker thread and the session task take their steps (weak fairness): each has a
thread of its own in the code, and nothing blocks it but the polls, which are
guards. That a session task gets a worker at all is not assumed there: it is
the subject of `VllmServer`. Adapters carry out what is posted; faults, early placement
and callers are not fair. In `VllmServer` a task gets a worker when workers keep
becoming free (strong fairness), and the shutdown branch is strongly fair, because
`select!` draws the order of its branches at random each time. `ShutdownNoticed` fails even so:
the thread is inside `rdma_get_request`. In `GilConnect` the thread of each route is strongly
fair: it may find the GIL taken again and again, and the interpreter makes a holder hand it
over on request; the listener takes requests in the order they came. That a caller calls
anything, or that the connection manager runs out of patience, is not assumed. `ExampleTransfer` has the fairness of `VllmSession`, `Handshake` weak fairness of both
sides and of the adapters, including retries that run out against a dead peer.

## Findings

1. `session_early_panic`. The only thing that keeps the client from overwriting the
   server's `cpu_buffer` while the server decodes it is the missing receive. With
   a path MTU below 4096 bytes the first packets of the next notification land
   anyway. If the new one is longer than the announced size, decoding fails and
   `unwrap` panics. If not, a completion may be read twice and another one lost, or an id that nobody sent is
   put together from both and recorded. `session_early` shows that this is the worst: without tearing, what is reported
   has its data. `DataBeforeCompletion`, `StableNotification`, `LandsInLiveBuffer` and the
   refinement are therefore claimed for paths that carry the write in one packet.
2. `server_shutdown`. `shutdown()` is not noticed while the listener waits for a
   connection, although the example treats it as the cleanup.

## Proofs

TLAPS checks the following for every value of the constants. `TypeOK` of every module that has one is
proved; only `session`, the largest state, and `gil`, where it says more than ranges, check it as well. Each
theorem about a property rests on an inductive invariant that TLC was asked first.

`CompletionTableProofs`, for every set of writers, every set of ids, every capacity
of at least 1 and any number of adds:

* `TypeCorrect`, `WindowStaysBounded`, `VisibleIsExact`: `TypeOK`, and the properties `WindowBounded` and
  `VisibleExactly` of the run. `RecentReqsStayVisible`: with distinct ids, the last
  capacity - 1 of them are visible.

The inductive invariant `IInv` adds four facts the properties lack. `LockInv`: only the
lock holder is inside the critical section. `LengthInv`: the queue is shorter than its
capacity except between an add and its eviction, and as long as the history until
it first filled. `SuffixInv`: the queue is the end of the history. `AgreeInv`: the set is
the queue, as long as no id was added twice. `WindowBounded` alone is not
inductive: two writers inside the critical section would add twice before evicting.
For `VisibleIsExact`, `SetInv` says at every moment which ids the set holds, given the
history and how many adds have been evicted: those whose last add is still queued, together with every earlier add that was still queued when it was made.

`VllmSessionProofs`, for every set of ids and every length of theirs, every capacity, any
number of commands and of failures, with and without early placement:

* `TypeCorrect`: `TypeOK`.
* `SlotsNeverOverflow`: `SlotsFree`, no post meets a full queue, which the code would
  log and then wait for a completion that never comes.
* `OnlyTornIdsLie`: `DataUnlessTorn`, when the server reports a request complete
  the data of every transfer queued before it has arrived, unless the transfer was refused or the id was
  spliced from two notifications.

`DataUnlessTorn` is far from inductive: it speaks of what was recorded, while
what makes it true happened several steps earlier on the other machine. The parts that lead back there:

* `WriteInv`: while the client's queue pair works, everything the worker took and
  posted is written, except what is in the slot. An error leaves the queue pair
  unusable, so a failed transfer is never followed by a notification.
* `RequestInv`: what is in the slot is what the worker polls for; an error completion
  means that the queue pair has left the working state.
* `SlotInv`: a slot is in use exactly while its owner polls, on both sides, whatever fails.
* `NoteInv`: every notification in the server's `cpu_buffer`, landing or complete,
  came behind its data. `LandingInv`: with one packet nothing is ever half landed.
* `CountInv`: what was taken was accepted before.

The second part of `VllmSessionProofs` is about the path that carries a notification in one packet,
`EarlyPlacement = FALSE`. Each theorem there assumes that; with early placement several of them, the first
two among those, are false (finding 1):

* `NotificationIsStable`: `StableNotification`. `CompletionImpliesData`: `DataBeforeCompletion`, as `DataUnlessTorn`
  and `WholeInv`, no id is ever spliced. `CleanEndIsComplete`: `CleanEndDeliversAll`.
  `ClientReports`: `ClientReportIsTrue`. `BufferOutlivesDelivery`: `LandsInLiveBuffer`.
  `NoPanics`: `NoPanicOnHealthyLink`. `NoPollInVain`: `PollIsAnswered`, which rests on `FailInv`: a
  session that will not post again, panicked or at its end, has a queue pair down, and then
  the adapter owes the completion as an error.
* `SessionImplementsService`: `ServiceSpec`, the refinement. Every step of the session is a
  step of `TransferService` or leaves its variables alone.

Their invariant `DInv` follows each notification on its way. `Requested`: what the worker polls
for belongs to the command it took, and a posted notification has not been seen by the
server. `CompleteInv`: a `Complete` that was taken is in the server's table, in its
buffer, or in the slot. `OrderInv`: what was recorded is never recorded again, and when
the session holds a notification everything before it is recorded. `FailInv`: the server's end
goes down only with or after the client's, or in order. `ReadInv`, `FetchInv`: as for writes.
`HealthyInv` adds, for a link that never failed, where each thread may be when a queue pair is down.

`ServerSessionsProofs`, for any set of clients, ids, lengths of ids, capacities and numbers of commands:

* `VisibleMeansData`: `VisibleHasData`. Its invariant says who is inside the table's lock (`LockInv`),
  that a notification a session holds was announced by its client with everything before it written
  (`NoteInv`), and that everything ever added to the table came from such a notification (`SourceInv`).
* `SharingIsSafe`: `OneTable`, the refinement of several `TransferService`s and one `CompletionTable`,
  step by step.
* `AnswersAreExact`: as the sessions use the table as `CompletionTable` says, what
  `CompletionTableProofs` shows of it holds here: the theorem instances that module with the
  sessions for writers, and none of its proof is repeated.

`BufferMapsProofs`, for every width of an address, any layouts, sizes and offsets that
`BufferMaps` admits, and any number of transfers: `TypeCorrect`, `KindsDecide` (`KindDecides`),
`ForeignBytesSafe` (`ForeignBytesUntouched`), `RoundTrips` (`RoundTrip`). The argument:

* `RegionsInv` and `RemoteInv`: what a side registered and what the client received are exactly
  what the server and the client were created with, in order. With `LastOfFacts` and `LastOfIsUnique` the two hash
  maps give the last block of a base.
* `Wrap`, `CoversIffFits`, `PermittedIffFits`: an offset that takes `base + offset` past the top of
  the address space comes out below the base, so the adapter's check in wrapped arithmetic accepts
  exactly what fits in exact arithmetic.
* `MovedInside`, `CopyIsCopy`: a copy changes only bytes of the region that was checked.
* `SentInv`: while only sends were made, the client's memory is as it was and the server's
  holds what the last one wrote. `RoundTrip` alone is not inductive without it.

`HandshakeProofs`, for any number of buffers, any size of `cpu_buffer` and any number of failures:
`TypeCorrect`, `Agreement`, `MessagesMatch` (`MessagesMeetTheirReceive`), `MemoryLive`, `SessionsStart`
(`SessionStartsClean`) and `NoMutualWait` (`OnlyDesertedHang`), that is every safety property of the run. The types come first (`TypeStep`); every other step may then use them. The invariant says
for each program point of each side what its two slots hold (`SlotInv`, `ClientInv`, `ServerInv`),
and where the server's `Connection` and then its list are on their way to the client (`ConnInv`,
`ListInv`). `HeardInv` says how far the peer must be; without it a server could wait for a `Connection` that
the client believes delivered. `PcType` says that `pc` is a function of the sides.

`VllmServerProofs`, for any number of clients, workers and failures: `TypeCorrect`, `NoneCutOff`
(`NoClientCutOff`) and `ContextStays` (`ContextOutlivesSessions`). `ClientInv` says how far a client can be
that was not accepted; `RefsInv` counts references before and after the one release.
That the application has a reference of its own is the assumption `ServerAssumption`; the
code retains nothing before the first `accept`.

The second part of `VllmServerProofs` is about `ServerObject`, for any number of calls of `listen`:
`AddressServedOnce` (`ServesOnce`) and `LostForGood` (`OrphanedForGood`). `ServedInv`: a call with a listener has bound the
address, which is never free again. `SenderInv`: the object holds the sender of its last call, or has
used it, so no sender of an earlier call is left to end its listener. `FreshInv`: the calls to come
have left no trace.

`ObjectAgreement` (`ObjectAgrees`) joins the two parts: for any number of clients, workers and
failures, every step of `VllmServer` is one of `ServerObject` or leaves its variables alone. It goes
action by action; the steps that matter are a failure of `rdma_get_request`, which leaves the loop
only when the command is there or can no longer come, and the drop of the runtime, which comes after the loop.

`GilConnectProofs`, for any processes and routes: `TypeCorrect`, `OnlyTimeoutsUndoKnots`
(`KnotsOutlastAllButTimeouts`) and `OnlyKnotsAreLeft` (`HangIsKnot`). `TypeOK` is inductive; it says that a process has at most one pending connect, which
is what the GIL is for. A step outside a knot cannot touch it, and there is none inside but a timeout. When every thread waits, the processes
inside `connect` are a knot together: the listener each of them waits for has taken a request and
waits for the GIL of its own process, which is therefore inside `connect` too.

`ExampleTransferProofs`, for any ring of at least two buffers, any number of messages and failures:
`TypeCorrect`, `HandlerSeesMessage` (`MessageIntact`), `AllInOrder` (`PrintedInOrder`). `PaceInv`: the server's
`cpu_buffer` is at most one message behind the client. With that the message being handled and
the one being written are neighbours in the ring, and neighbours are different buffers.

What is assumed of the constants, each a named `ASSUME` of its module that TLC evaluates on its runs:
bounds are natural numbers, capacities and sizes positive where the code allocates them, the value for "no
writer" or "no caller" is nobody's name, and beyond that

* `ListsAssumption` (`BufferMaps`): an allocation is not empty and ends within the address space, as
  the driver hands them out; the offsets callers name are not restricted beyond the width of an address;
* `SizesAssumption` (`VllmSession`): `cpu_buffer` holds at least the smallest notification and is no longer than 65535;
* `ExampleAssumption`: the ring has two buffers or more, as in the example; with one, the message
  being handled would be the one being written;
* `ServerAssumption`: see above.

Only model-checked: liveness and the fairness it rests on, which the prover does not reason about
(`EveryCompletionArrives`, `ShutdownEnds`, `HandshakeSettles`, `RequestAnswered`, `LeavingSessionEnds`,
`OnlyKnotsHang`, `TransferEnds`). `PollIsAnswered`, `OnlyDesertedHang` and `HangIsKnot` are the parts of
`ShutdownEnds`, `HandshakeSettles` and `OnlyKnotsHang` that a state can violate, and are proved; that what can happen then does happen is left to
TLC. Every safety property and every refinement of a passing run is proved.

## Not modelled, and why

* `rdma-transport-py/src/general`, `cuda_ops.rs`: commented out of the crate.
* Bindings, error types and smart pointers: no state. Dropping a pointer releases no adapter
  resource; the models reflect that (a panicked session leaves its queue pair up, an endpoint
  stays bound). It frees a C structure with Rust's allocator, which works while both are the same
  `malloc`.
* `examples/list_devices.rs` enumerates devices and prints them.
* CUDA streams, events and copies: nothing in the connector calls them. `cuda_mem_alloc` and
  `cuda_mem_free` are single driver calls of the examples.
* Slots other than 0 in `write_metadata`, `MemBuffer::range`, `ibv_dereg_mr`: no caller.
* A crash of a whole process: the kernel tears its queue pairs down, which the peer
  sees as a link failure (or, for the listener, as `Vanish`).
* The content of GPU memory in `VllmSession`: a transfer is identified by its command. Callers must
  leave a buffer alone until the transfer is over; the API gives them `is_complete` for that.
  Two clients of one server that name the same blocks overwrite each other; nothing in the code
  keeps them apart.
* The receives of the handshake name stack variables with the key of `cpu_buffer`'s
  region (`rdma/server.rs:128-134`, `rdma/client.rs:129-136`), which works on adapters that deliver such short messages
  inside the completion: whether one does is outside the model, which takes it to.
* How long the connection manager waits and retries: the code sets no limits, and what they
  are by default depends on the system. `ConnectBreaks`, `AcceptBreaks` and `GilConnect`'s `ConnectFails` may happen
  at any time.
* A second `connect` of one client object: `DropSender` in `VllmSession` is its effect on the old
  connection, the new one is a session of its own.
* The moment at which `is_complete` finds the lock taken and answers false: the code promises
  nothing there, and the models speak of the answers it gives otherwise.
