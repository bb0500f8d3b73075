# A verification of rpc-kern

rpc-kern is a Linux kernel module: the client of an RPC protocol over RDMA.
Requesters call `send_rpc_msg_to_server`; a completion callback receives the
server's responses and runs the user's handler. This directory holds TLA+ models of the code
the `Makefile` builds (`rpc_client.c`, `rpc_common.c`, `rdma.c`, `bitmap.c`,
`rpc_client_test.c`) and of the ping client in `bak/` it was made from, the TLC
configurations that check them, and TLAPS proofs.

## 1. The system

| component | state | operations | modelled by |
|---|---|---|---|
| bitmap (`bitmap.c`) | 4 chars, one per message buffer | find first clear, set, clear | `Bitmap` |
| id pool (`rpc_common.c`) | the bitmap and a spin lock | `alloc_msgbuf_id` (spins when full), `free_msgbuf_id` | `MsgBufPool`, `IdPool` |
| request path (`rpc_client.c`, `send_rdma_msg`) | per buffer: `seqn`, `send_buf`; the send queue | take an id, draw a sequence number, fill the buffer, `ib_post_send` | `RpcChannel`, `RpcService` |
| response path (`cq_thread` to the user's handler) | receive queue, completion queue and its notification, `cb->state` | arm, poll, copy, free the id, run the user's handler, repost the buffer | `RpcChannel`, `RpcService` |
| connection (`init_rpc_client` .. `destroy_rpc_client`, `cma_event_handler`) | `cb->state`, wait queue `cb->sem`, every resource acquired | set-up in 13 steps with their failure exits, connection manager events, tear-down | `RdmaConn` |
| test driver (`rpc_client_test.c`) | the module's reference count, `test_main`'s stack with the semaphore | one write: init, one request, destroy | `RpcClient`, over `RdmaConn` |
| message format (`rdma.h`, `rpc.h`, size helpers) | - | byte order, sizes | byte order as a tag in `RpcChannel` |
| krping (`bak/krping.c`, `bak/getopt.c`) | `cb->state`, key and registration, the list of control blocks | options, set-up, ping loop, two handlers, tear-down, `/proc` reader | `Krping` |
| server side in `rdma.c` | - | `clone_cb`, `do_accept`, `kfree_cb`: never called | not modelled |
| earlier versions in `bak/` | - | not built, do not compile | not modelled |

Interaction. Requesters and the callback share the bitmap under
`msgbuf_bitmap_lock`, and nothing else under a lock: buffers and sequence
numbers are protected only by the claim that whoever holds an id owns the
buffer. The callback takes the channel and the semaphore it acts on from
addresses in the message, that is, out of the receive buffer. The callback, the connection manager's handler and the initialising
thread share `cb->state` without a lock. The device reads send buffers and
writes receive buffers on its own time.

What is hard here: the pairing of ids with responses (the code frees the id that
is the *receive* buffer's index); the order of arming, polling, freeing and
reposting in the callback; interleavings of the callback with allocation, in
particular in interrupt context; failure at each of the set-up steps while the
connection manager's events arrive; a tear-down that races the callback and frees
the buffer its addresses come from; and waits whose wake-up may not come.
`PROJECT.json` lists the hazards by line.

## 2. The modules

**`Bitmap`** - the functions of `bitmap.c` as operators. The scan is a relation:
`bit_array_find_first_clear_bit(bitarr, i)` says that the scan returns 1 and
stores `i`; `NoClearBit` that it returns 0.

**`MsgBufPool`** - `alloc_msgbuf_id` by any set of threads and `free_msgbuf_id`
by the callback; taking the lock, scanning, setting or clearing the bit and
unlocking are separate steps. `preempted` is the thread on whose CPU the
callback runs when the provider calls it in interrupt context (`IrqPreempts`);
that thread takes no step meanwhile.

**`IdPool`** - what the pool promises: a request is granted, in one step, the
smallest free id; a release is one step. `MsgBufPool!Abstract` is the refinement
mapping: the bitmap is the set of used ids, a thread has its id from the moment
the bit is set. `RpcChannel` relies on this and treats both operations as atomic.

**`RpcChannel`** - a connected channel at work. A call is one
`send_rpc_msg_to_server`; it is open until the user's handler has been run for
it (`handled` records with what, run by run), and `Requesters` bounds the calls
open at a time. No requester sleeps: see section 5. `at[c]` is where call `c` is in the code (`alloc`, `seqn`, `header`,
`data`, `post`) and, once posted, where its message is (`sq`, `srv`, `cq`), or
what became of it (`freed`, `dropped`, `lost`). `sq`, `rq`, `cq`, `armed` and
`event` are the queue pair and the completion queue; `tx` counts the
transmitted part of `sq`; `srv` is what the server has not answered. The
fields `call` of server requests and completions are bookkeeping that the code
cannot see. Messages carry the sequence number and semaphore (in wire order)
and the data; the response carries the header of the request, as
`rpc_msg_header` asks of a server. `rpc_ch_addr` is left out: there is one
channel. The header is one step and the data another, so two requesters in one
buffer can send a mixture. `send_rdma_msg`'s exits for an id out of range and for
a given `seqn` cannot be reached from a client and are left out; the state that
`receive_msg` tests is read in the step of the user's handler and stored in a
step of its own.

*The device and the server are external.* Sends are transmitted in order, the
buffer is read at transmission; the server answers in any order; a response
lands in the oldest posted receive buffer; with none posted the connection
breaks (`rnr_retry_count` is 0 in `connect_client`). A CQ raises one event per
arming, for a completion added after it. When the peer is lost its requests are
lost, the next send fails and everything posted is flushed. The completion
handler is not run concurrently with itself, as for the in-tree providers.

*Faults* (constant `Faults`): the peer goes away, `receive_msg` fails (wrong
size, no memory), `ib_post_recv` fails, `ib_poll_cq` fails. `ib_post_send`
fails when the send queue is full. `UninitRet` is the set of values that the
uninitialised `ret` of `cq_thread` may have: `{0}` except where that is the
question. `alloc_seqn` is a load and a store; the compiler may do it otherwise,
but only when two threads are in one buffer does it matter.

**`RpcService`** - what a user that makes one call at a time is promised: a call
is open from its request on and is closed by one run of the handler, with its own
answer. `RpcChannel!Service` maps the calls made and not handled to the open ones
and `handled` to the answers, a sequence, so that a second run would be seen.

**`RdmaConn`** - one thread from `init_rpc_client` to `destroy_rpc_client`,
against the connection manager calling `cma_event_handler`. `res` says of every
resource whether it was never acquired, is live, or is freed; `bad` collects
those that this thread or `cma_event_handler` used or freed when not live. `cm` is the connection manager's own view,
which decides which events can come. A handler that returns nonzero makes the
connection manager destroy `cm_id`. A step that fails sets `failed`, which is
bookkeeping: the exits of `setup_qp` and `setup_buffers` that return `errno`
return 0, as `errno` is a variable of `rdma.c` that nothing assigns, and the
thread goes on. Freed memory can be used (`bad` says so); a pointer to what
never was acquired ends the thread (`oops`). A provider grants a receive queue
of a depth in `RqDepths`, at least the 2 asked for. The allocations that nobody
checks (`rpc_ch`, the bitmap, the message buffers) may fail; the message buffers
are one resource, so they fail together. A failing
`run_client` and `destroy_rdma_client` share `KfreeBuffers`, `DestroyQp` and
`DestroyCq`, as they do in the code. Left out: the server branch (a client
passes `server = 0`) and the invalid `ch_type` exits (the enumeration has one
value).

**`RpcClient`** - the composition, for one write to `/proc/krping`: it EXTENDS
`RdmaConn`, whose steps it takes under the control of `krping_write_proc` and
`test_main`, and adds one request and the completion callback. The callback is
reduced to the order in which it uses what the tear-down frees (`cbad` collects
what was not live), with its error exit (`CbError`); what it does to queues and
buffers is `RpcChannel`, and so is the uninitialised `ret`, which here would only
make it use less. What `receive_msg` copies is `header`: out of a live buffer the
message, out of a freed one the message or garbage. With the message the handlers
reach the channel and the semaphore (`MsgHandler`); with garbage they reach
`"stray"`, memory at an address that is none, or crash (`MsgHandlerAstray`). The
writer's own exits are there too: `try_module_get` and the copy of the command
fail, and the 16 bytes for the address, which nobody checks, are NULL
(`AddrCrashes`).
`ib_destroy_qp` discards the completions of the queue pair and `ib_destroy_cq`
waits for the callback: both are external. `test_main` does not wait for its
answer; `waited` records whether the answer happened to be there, so that
`TearDownWindow` can tell what waiting would have helped.

**`Krping`** - one write to the ping client: `krping_getopt` and the option loop
(a token is a name and the kind of its argument), set-up, the ping loop,
tear-down, `krping_cma_event_handler`, `krping_cq_event_handler`, and
`krping_read_proc`. The registration the device holds (`mr`), the one send
buffer and the data of `start_buf` and `rdma_buf` are kept, since the loop is
about them; a ping's text is its number. `client_recv` is a load and a store of
`cb->state`, after which the receive is posted again in a step of its own. The
server is the loop that `krping.h` describes: it is external, since this
repository has none (`krping_doit` calls a `krping_run_server` that does not
exist and knows no option for it). A chain of work requests is refused as a
whole. The file does not compile as it stands for that call and for the use of
`struct rdma_msg` before its definition; the model is of what it says. Send
completions and statistics only count and are left out.

`MC*` instantiate these for TLC. The proofs are in modules of their own:
`BitmapProofs`, `MsgBufPoolProofs`; `RpcChannelProofs` (types and the count of
ids), `RpcQueueProofs` (the queues and the notification) and `RpcAnswerProofs`
(messages and answers), each extending the one before; `RdmaConnProofs` and
`RpcClientProofs`, which extends it as `RpcClient` extends `RdmaConn`;
`KrpingProofs`. Definitions commented *Mutant* are faulty variants of the
definition after them, used to confirm that the properties can fail.

## 3. What TLC checks

| run | instance | result |
|---|---|---|
| `Pool` | 3 threads, 2 bits, interrupts | types; the scan is never stale (`ScanStillValid`); the pool implements `IdPool` (`AbstractSpec`); `FreeCompletes`, `AllocReturnsOrPoolFull` |
| `PoolIrq` | 2 threads, interrupts | **violated** `NoSelfDeadlock` |
| `ChannelFaults` | 3 calls at once, 2 buffers, 2 send places, all faults | types, `WindowBound`, `PoolFullMeansCallUnderWay`, `ReceiverReady`, `CompletionNotStranded`, `CqBounded` |
| `ChannelOneRequester` | 4 calls, one at a time, 2 buffers | `AnswerMatchesCall`, `EveryCallAnswered`, implements `RpcService` (`ServiceSpec`) |
| `ChannelSlotEarly` | 3 calls, two at a time, 4 buffers | **violated** `SlotHeldUntilAnswered` |
| `ChannelUninitRet` | 2 calls, `ret` may be nonzero | **violated** `CompletionNotStranded` |
| `ClientLife` | one write, 4 buffers, receive queues of 2, 4 or 8, all faults | types, `ContextAlive`, `FailedRunReleases`, `NullLeaksOnlyBitmap`, `ConnectedMeansReady`, `CleanLifecycle`, `TearDownWindow`, `CallbackCodePinned`, `CrashNeedsFailure`, `WriteEnds` |
| `ClientTearDown` | one write, no faults | **violated** `CallbackUsesLive` |
| `ConnFailureLost` | DMA mappings fail | **violated** `FailureReported` |
| `ConnErrorEvent` | error events | **violated** `InitReturns` |
| `ConnReturnsNull` | no faults, queues of 2 or 4 | **violated** `ReturnsNullOnFailure` |
| `KrpingLife` | any options, up to 3 pings, 3 keys, all faults | types, `AdvertisedKeyValid`, `PongMatchesPing`, `ReceivePosted`, `LeavesOnlyMappings`, `StaleUses`, `KrpingEnds` |

What they say together. The id a response gives back is not the id of its
request. A single requester is none the worse for it: at most all ids but one
stay taken by mistake, and every call is still answered with its own answer.
With two requesters an id is given back while its call is under way, two calls
share a buffer, and requests can be mixed. What survives any number of
requesters and any fault is the *count*: never more calls under way than ids
taken, so never more than buffers; a full pool means that some call is under
way. From the count follows that a receive buffer is posted for every request
under way, but for one, and only while the callback is between freeing the id
and reposting the buffer (`ReceiverReady`): in that window a fast server breaks
the connection. The completion queue, which the code creates with `cqe` 0, never
needs more than the send queue and the buffers together (`CqBounded`).

Of the connection: when no step fails the channel is ready, the thread that owns
it and `cma_event_handler` use nothing that is gone, except a `cm_id` that the
connection manager destroyed after a handler returned an error, and nothing is
left behind (`CleanLifecycle`; the completion callback is the next paragraph). A
step that fails releases what was acquired before it, but its failure
does not reach the owner: `init_rdma_ch` ignores the result of `run_client`, and
two of the steps report 0. The write ends (`WriteEnds`) except when an event
handler returns an error without storing a state: then the wait goes on.

Of the tear-down: the callback may read a receive buffer that is freed, follow
what it finds there for the addresses of channel and semaphore, and post on a
queue pair that is gone. Had the answer been waited for, as the comments have it,
only the last would be left (`TearDownWindow`): the callback runs the handler
before it posts the buffer again. What it reaches by good addresses - the control
block, the contexts, the channel, the stack of `test_main` - is there, and so is
the module's code (`CallbackCodePinned`), because `ib_destroy_cq` waits. The
writer crashes only after a failure, although `test_main` uses the channel before
it tests it; the callback also when the answer was not waited for
(`CrashNeedsFailure`). These properties bound what goes wrong after a failure
and do not exclude it: `PROJECT.json` lists those hazards without a property.

Of krping: without a stored ERROR, and without a late CONNECTED in the middle of a
ping, the protocol keeps its one key and its one
send buffer out of the server's way. The state is overwritten in several places:
by the head of the loop, by `client_recv`, by a late ESTABLISHED after a signal
ended the wait for it. Then, or when `rdma_resolve_route` fails in the handler,
the writer may wait for ever; `KrpingEnds` says that nothing else makes it. Two
things are visible in the code and checked by no run: a bad `size` or `count`
makes the write return a positive `EINVAL`, which its caller takes for a number
of bytes, and the options `server`, `validate` and `addr6` of the examples in
`krping.h` are refused by `krping_doit`.

The violations are findings in `PROJECT.json`, each with the comment of the
code that it contradicts.

**Bounds.** Two buffers and three calls are the least at which the pool is full,
an id is freed under another call, and a third call takes it. Four calls in
`ChannelOneRequester` take the receive queue round twice. A send queue of 2
places in `ChannelFaults` makes `ib_post_send` fail; 16, the code's
`RDMA_SQ_DEPTH`, is out of reach of three calls. Violation runs use the code's
four buffers. Calls are interchangeable, which is used as a symmetry where no
liveness is checked. Sequence numbers are bounded by the number of calls.
Deadlock checking is off where a finite number of calls, or the life of a
channel, or a write, comes to its end, and in the pool runs with interrupts,
where the code may really stop. Two bits in `Pool` are enough to find, to skip
and to find none. `KrpingLife` takes 3 for the 256 values of the key, so that it
wraps within two pings (two keys a ping), counts of 0 (endless, `MaxPings` = 3),
2 and a negative one, and 1 for `RPING_BUFSIZE`, so that 2 is too large a size.

**Fairness.** In `MsgBufPool` threads inside the functions run and a spin lock
that is released again and again is obtained (kernel spin locks are queued);
hence strong fairness of the locking steps. In `RpcChannel` weak fairness of
every requester past its call, of the callback as a whole, of transmission and
acknowledgement, and of the server answering something. An allocation needs only
weak fairness because the other calls are finitely many. In `RdmaConn` and
`RpcClient` weak fairness of the thread, of the callback and of the connection
manager's answers, which have timeouts (2 s) and retry counts; neither a signal
nor an answer of the server is promised. In `Krping` also of the device and of
the server, and no signal or further option is promised. Faults are never fair.

## 4. What is proved

Every invariant and both refinements that a passing run checks are theorems, for
every value of the constants: any set of threads, any finite set of calls, any
number of buffers at least 1, any depth of the queues, any set of faults, any
number of keys. Four theorems have a hypothesis of their own, named below. Each
rests on an inductive invariant, which was checked with TLC on an instance of
section 3 before it was proved.

*The pool* (`MsgBufPoolProofs`). `PoolInv` is inductive: `TypeOK`, `LockInv`
(who is inside a critical section is who the lock names), `RetInv` (the local
`ret` says whether a bit was found) and `ScanStillValid`. `LockInv` is what
keeps the scan valid: a step that changes the bitmap is made by the holder, so
nobody else is between scan and set. From it `PoolTypeCorrect`,
`ScanNeverStale`, and `PoolRefines`: setting the bit is `Grant`, clearing it is
`Release`, the call is `Request`, every other step stutters. That the granted id
is the smallest is `ScanStillValid` again.

*The channel: ids* (`RpcChannelProofs`). `ChannelInv` is inductive: `TypeOK`,
`OnePlaceInv`, `WindowBound`, `PoolFullMeansCallUnderWay`. `WindowBound` alone
is not: a response counted twice would give back two ids for one call.
`OnePlaceInv` says that a call's message is only in the place `at` names, once:
untransmitted in `sq`, at the server, in `cq`, or in the callback's hands. Then
`HeldUnchanged` shows that only `AllocMsgbufId` and `FreeMsgbufId` change who
holds an id, `AllocCounts` that the first adds one call and one id, `FreeCounts`
that the second removes one call and at most one id. `ChannelTypeCorrect`,
`WindowBounded` and `PoolNeverLeaksFull` follow.

*The channel: queues* (`RpcQueueProofs`), on top of `ChannelInv`.

- `BuffersInv` counts the receive buffers of a connection that is up: posted,
  plus completed with an answer that has not yet given an id back, plus the one
  in the callback's hands, they are `BIT_ARR_SIZE`. With `WindowBound` (the calls
  under way are no more than the buffers) this is `ReceiverIsReady`, and it shows
  where the exception comes from: the callback's own buffer.
- `CapacityInv` counts sends and receives separately, posted and completed;
  every step moves one from one place to the other (`CountConcat`, `CountTail`
  and the like), hence `CqIsBounded`.
- `NotifyInv`: as long as the state is below DISCONNECTED the CQ is armed or its
  event raised, and the callback stores ERROR nowhere between the message
  handler and WORKING. `NoCompletionStranded` follows under the hypothesis
  `UninitRet \subseteq {0}`: the `ret` that `cq_thread` tests without having
  assigned it must be 0. `ChannelUninitRet` shows that it is needed.

*The channel: answers* (`RpcAnswerProofs`), under `Requesters = 1`, one
call at a time. `ChannelSlotEarly`
shows what two requesters do to each other; with one, `OneOpen` is enough to make
a send buffer its caller's own although its id may be given back early.
`OwnInv` follows the message from there: the buffer is the call's own once filled
(`SendBufInv`), so is what travels (`FlightInv`) and what the handler is given
(`HandlerInv`), and a call whose handler was run had it run once, with its own
answer (`HandledInv`). From it `AnswersMatch`, and `ChannelRefinesService`: the
call is `Request`, the run of the handler `Answer`, every other step stutters. `SlotIsHeld` is the other side of
`ChannelSlotEarly`: for one requester `HeldTaken` (the id of every call that
holds one is taken) is kept, since an answer frees an id only when no other call
is there. The three hold with all faults and any `UninitRet`.

*The connection* (`RdmaConnProofs`, `RpcClientProofs`). `ConnInv` says for every
place of the thread what it holds there: `ContextInv` of the memory the handlers
follow, `SetUpInv` and `TearDownInv` of the queue pair and the buffers on the way
up and down, with a recorded failure and without, `OutcomeInv` of the result,
`CmInv` how far the connection manager can be meanwhile, `CleanInv` that a use of
something not there needs a failure, or is of a destroyed `cm_id`. The properties are
about single places and not inductive; `ConnInv` gives all of them (`ConnLife`).
`ClientInv` adds the writer (`WriterInv`), the queues (`QueueInv`: a callback
runs only on a CQ that exists, and there are no completions without a queue
pair), the one answer (`AnswerInv`) and what the callback may have missed
(`CbadInv`: a garbage header needs freed buffers, which need a failure or an
answer nobody waited for). `RpcClientProofs` states the nine safety properties of `ClientLife`
for the whole write; `CodeIsPinned` and `TearDownWindowBounded` are where
`ib_destroy_cq` waiting for the callback is used.

*krping* (`KrpingProofs`). `LifeInv` is to `Krping` what `ConnInv` is to
`RdmaConn`, and gives `StaleUsesBounded` and `WriteLeavesOnlyMappings`.
`PingLoopInv` is about turns. `UpOnceInv`: the queue pair comes up once, with its
receive posted and nothing going on. `TurnInv`: a request in the send queue, a
message under way, the server at work and a go-ahead not yet stored exclude each
other. `ReadTurn` and `WriteTurn` say for every place of the writer in the loop
whose turn it can be and how far the data of this ping has got, in particular
that the writer goes on only after the one go-ahead of its wait has been stored;
`PingInv` carries the data over to the next ping, `KeyInv` that what is
advertised is what is registered, `RecvInv` where the one receive is. The last
two hold until ERROR is stored (`FailedStays`: from then on ERROR or a lost
state is visible), which is what `KeyIsValid` and `ReceiveIsPosted` say;
`PongMatches` holds always.

*Only model-checked:* the liveness properties `FreeCompletes`,
`AllocReturnsOrPoolFull`, `EveryCallAnswered`, `WriteEnds` and `KrpingEnds`
(fairness and `ENABLED` are beyond the prover), and the violations, which are
counterexamples.

## 5. Not modelled

- *Sizes and bytes.* `msgheader_size` and `msgbuf_size` are sums of constants,
  `msgdata_size` and `valid_msg_size` have no caller, and a wrong size of a
  message is the fault `recv`. `htonll` and `ntohll` are both `cpu_to_be64`;
  the tag of the model stands for their being inverse.
- *The server side of `rdma.c`*: no reachable behaviour.
- *krping's unreached functions*: `krping_accept`, `server_recv` (a write cannot
  make a server), `flush_qp`, `krping_init_client`, `krping_fin_client`,
  `krping_test_rpc_client` (no caller), and its text, statistics and module
  reference count.
- *`rpc_client_bak.c`, `rpc_client_test_bak.c`*: drafts that do not compile.
- *`/proc` registration* (`krping_init`, `krping_exit`, `krping_read_open`) and
  the reader of `rpc_client_test.c`, whose body is commented out.
- *The wake-up of a requester.* `wake_up_interruptible` on the semaphore of a call
  has no memory, and the handler may run before `send_rpc_msg_to_server` returns.
  A requester that slept there afterwards without a condition would not be woken;
  but the wait in `test_main` is commented out and nobody sleeps on that queue, so
  the models end where the handler is run and claim nothing about a sleeper.
- *Two writes at a time*: they share nothing in `rpc_client_test.c`, and only
  the list and its mutex in krping.

## 6. Plan

The model is complete as far as the code is reachable, and the invariants and
refinements that TLC checks are proved. What is left to prove is the other side
of the violations about failures, as `SlotIsHeld` is for the ids: under which
faults `FailureReported` and `ReturnsNullOnFailure` hold, and of which failures
they are therefore not true.
