# Verification of the GPU event-level-parallel ns-3

The repository is ns-3.37 with one addition of its own, `contrib/cuda`: a
discrete-event simulator whose network events run on a GPU. The CPU keeps the
event heap and decides which events are *safe*; safe device events are written
into a buffer, a CUDA kernel runs the whole buffer in parallel, and the events
that its handlers generate come back through another buffer. The rest is the
upstream network simulator: protocols, devices, queues, packets, applications.

This directory holds TLA+ models of both. The loop and the devices of
`contrib/cuda` come first, because they are new and concurrent; of the upstream
modules those are modelled whose state machines are hard to test: TCP, address
resolution, fragments, routing, the point-to-point device, shared packet
buffers, the web application.

File names without a directory are in `src/contrib/cuda/model/` when they begin
with `cuda-`, and otherwise in the `model` directory of the upstream module
named next to them. `PROJECT.json` maps every definition to the lines it stands
for.

## Inventory

### contrib/cuda

| part | state | operations |
|---|---|---|
| event loop (`cuda-elp-simulator.cu`) | heap `m_events`, queue `m_eventsWithContext`, clock `m_currentTs`, `safe_ts` and one bound per host buffer, two host buffers with ready flags, warp counters, two device buffers with ready flags | `ELP_RunSK`, `is_safe`, `ELP_ProcessOneEvent`, `h_insert_sort`, `ChangeHostQueue`, `ChangeDevQueue`, `ELP_ScheduleDevEvent`, `ELP_Schedule`; and as every ns-3 simulator `Run`, `Schedule`, `ScheduleWithContext`, `ScheduleDestroy`, `Stop`, `Remove`, `Cancel`, `IsExpired`, `Destroy` |
| kernel (`SingleBufKernel`) | the buffer it runs | one thread per stride of slots; `cuda_ProcessOneEvent` calls a handler, a handler calls `d_insert` |
| net device (`cuda-net-device.cu`) | `m_txMachineState`, ring `d_packetQueue` with `d_queueFront`, `d_queueRear` | `SendFrom`, `TransmitStart`, `D_TransmitComplete`, `EnqueuePacket`, `DequeuePacket`, `d_Receive` |
| channel (`cuda-p2p-channel.cu`) | wires, delay | `TransmitStart`: inserts the receive event of the other end |
| UDP client, socket, server | pool of packets, `m_sent`, `m_stop`; delivery queue, `m_rxAvailable` | `ELP_Send`, `ForwardPacket`, `CudaRecv`, `HandleRead` |
| bridge (`cuda-bridge-net-device.cu`) | learning table, ports | `Learn`, `GetLearnedState`, `ForwardUnicast` |
| UDP and IPv4 layers | endpoints, interfaces | send and receive paths with early returns |
| routing and ARP tables | arrays with a count | add, look up, remove |
| packet (`cuda-packet.cu`) | header offset, `ready` | `AddHeader`, `RemoveHeader` |
| CPU bridged device, `CudaSimulatorImpl`, helpers, early experiments | | upstream copies, construction, code that is not compiled |

A client's `StartApplication` (a CPU event) puts the first send into the heap by
`ELP_Schedule`. The loop dispatches it; its kernel thread runs `ELP_Send`, which
claims a packet of its thread's pool, goes down socket, UDP, IPv4 to `SendFrom`
of a net device, and inserts the next send. The device inserts its own
transmit-complete event and, through the channel, the receive event of the other
end, whose handler goes up to the server, which frees the packet, or to a
bridge, which sends on another port. These handlers share objects in managed
memory, without locks other than single atomics.

What is hard: the CPU works while the kernel runs, on the *other* buffers; what
is safe to run depends on bounds that the CPU refreshes at that time; threads of
one kernel meet in the same device, bridge, pool or socket; buffers, rings and
tables have fixed sizes; the loop may be stopped at any event.

### Upstream modules

| part | state | operations | what is hard |
|---|---|---|---|
| TCP (internet: `tcp-socket-base.cc`, `tcp-tx-buffer.cc`, `tcp-rx-buffer.cc`) | state, buffers, timers, end point | connect, listen, send, close, shutdown; handlers of each state; SACK scoreboard, recovery | lost, late and repeated segments; simultaneous close; timers against answers |
| ARP (internet: `arp-cache.cc`, `arp-l3-protocol.cc`) | entries with pending packets, one timer | `Lookup`, `Receive`, timeout, flush, static entries | one timer for all entries; replies out of date |
| neighbour discovery (internet: `ndisc-cache.cc`, `icmpv6-l4-protocol.cc`) | entry, NUD state and timer, waiting packets | `Lookup`, the `Handle...` functions, the timer functions | any message in any state, against the timer |
| IPv4 (internet: `ipv4-l3-protocol.cc`) | fragments and their timeouts, table of duplicates | fragment, reassemble, time out, detect and purge duplicates | reordered and repeated fragments, timers kept in a list |
| UDP sockets (internet: `udp-socket-impl.cc`, `ipv4-end-point-demux.cc`) | end points, ports, receive queue | bind, bind to device, connect, shutdown, close, look-up | long legal sequences of calls |
| RIP (internet: `rip.cc`) | routes with timers | requests, responses, triggered and periodic updates, links going down and up | routing loops, stale routes |
| global routing (internet: `global-route-manager-impl.cc`) | tree, candidates, exits | `SPFCalculate` | equal-cost paths |
| point-to-point device and queue (point-to-point, network) | transmit machine, queue, byte limits | `Send`, `TransmitComplete`, stop and wake | a wake-up that is missed, counters that wrap |
| packet (network: `buffer.cc`, `packet-tag-list.cc`, `byte-tag-list.cc`) | bytes and tags shared by copies | add and remove at both ends, copy, fragment, join | writing where another packet looks |
| web traffic (applications: `three-gpp-http-*.cc`) | states of client and server | requests, objects, reading times, close | callbacks in a state that does not expect them |

### What makes each part correct

- *event loop*: every event runs exactly once; no event runs behind one it
  could have affected; CPU and kernel never use the same buffer; the loop ends.
- *insertion and collection*: what a kernel generates reaches the heap, once,
  before anything that must come after it.
- *host scheduler*: events run in order of time and uid, cancelled ones never.
- *net device*: one transmission at a time; a packet is transmitted or dropped,
  once; none waits for ever. *Client and socket*: a packet buffer has one owner
  and is freed in the end. *Bridge and tables*: look-up agrees with what was
  learnt, added and removed.
- *protocols*: what the sender forgets the receiver has; whoever waits has a
  timer; both sides agree on what is finished; what waits is settled once and in
  order; routes are shortest and no stale one stays.
- *packets*: copies are independent.

The hazards behind these, each at its line, are listed in `PROJECT.json`; where
the code promises nothing, or no run checks what it should do, a note says so.

## Modules

| module | models |
|---|---|
| `ConservativeDes` | abstract: what a conservative parallel simulator promises |
| `ElpSimulator`, `MCElpSimulator` | `ELP_RunSK` with the kernel |
| `DeviceMailbox` | abstract: two sets of events used in turn |
| `DeviceInsert` | `d_insert` and `ELP_ScheduleDevEvent` slot by slot |
| `HostScheduler` | `Run`, `Schedule` and the rest, one CPU event at a time |
| `Lookahead`, `MCLookahead` | the timestamps and lookaheads of a network |
| `NetDevice` | the transmitter of the GPU device and its ring |
| `PacketPool` | client, socket, server and the packets they share |
| `Bridge`, `DeviceTables` | the learning table; routes and ARP entries on the device |
| `P2pLink` | the upstream device with its queue and the channel |
| `PacketBuffer`, `PacketTags`, `ByteTags` | what a packet is made of |
| `Tcp`, `TcpTransfer`, `MCTcp`, `TxScoreboard` | a TCP connection; a transfer with fairness; loss recovery |
| `Arp`, `Ndisc` | address resolution of IPv4 and IPv6 |
| `IpFragments`, `IpDuplicates` | reassembly, duplicate detection |
| `UdpSockets` | sockets, ports and end points |
| `Rip`, `Spf`, `MCSpf` | routing |
| `Http` | the 3GPP web client and server |
| `MCDevice`, `MCInternet` | side by side, on small instances: what moves packets; the protocols |
| `Totals` | the sum of a sequence of sizes |
| `ElpSimulator_proofs`, `DeviceInsert_proofs`, `HostScheduler_proofs`, `NetDevice_proofs`, `GpuDevice_proofs`, `Network_proofs`, `Internet_proofs` | theorems |
| `Totals_proofs` | induction and sums, for the proofs |

### ElpSimulator

`pc` says where the CPU thread is in `ELP_RunSK`; each action is the code
between two places where the kernel can be seen or can see:

- `LoopHead` (line 1175: loop test, `old = *safe_ts`), `CollectStart`,
  `ELP_Schedule` (one event of the buffer that is collected), `CollectNext`
  (flag cleared, other buffer) for `ELP_ScheduleDevEvent`.
- `Refresh` and `Change` for the branch where `is_safe` fails (1181-1204);
  `ELP_ProcessOneEvent`, `ClaimFull`, `h_insert_sort` for a safe device event
  (take it off the heap; change buffers when its slot is out of range; wait for
  the buffer and fill the slot); `ProcessOneEvent`, `Schedule`, `Stop`,
  `HandlerReturn` for a safe CPU event, its handler and
  `ProcessEventsWithContext`.
- `ChangeHostQueue` waits for the kernel (`KernelIdle`, the event
  synchronisation at line 843) and does all its assignments in one step: no
  kernel runs then, so nobody sees an intermediate state. `ChangeDevQueue` and
  `ReleaseBound` are its parts.
- `d_insert(i)` and `Retire(i)` are the steps of the kernel thread on slot `i`;
  `Working(i)` says that threads stride over the buffer. A handler makes any
  number of insertions, at any time from its event's lookahead on.
- `ScheduleWithContext` is another host thread.

A host buffer is an array of slots with `None` for a slot whose valid flag is
false. A device buffer is a set here; `DeviceInsert` and its refinement of
`DeviceMailbox` say when that is right. `HonestLookahead` chooses between
children that respect `ts + lookahead` and children that are only not before
their parent: the code takes the lookahead from the network's delays
(`CalculateLookAhead`, `cuda-udp-client.cu:138`) and checks nothing.

`ImplementsDes` is the refinement of `ConservativeDes`: `pending` is the heap,
`inflight` the valid slots of the host buffers and the event on its way there,
`fresh` the device buffers. The abstract `Safe` compares an event with
everything that is in flight or uncollected; the code compares it with one
number. That the number is enough is what the refinement shows.

### DeviceInsert

Each thread has a region of `MAX_NEW_EVENTS` slots in both buffers. `Scan`,
`Store`, `TryLock`, `SetReady`, `Toggle`, `Unlock` are `d_insert` with the
statements of `ChangeDevQueue`; `CollectStart`, `Base`, `Place`, `CollectNext`
are `ELP_ScheduleDevEvent`, a slot at a time. `d_curDevBuf` is a plain member
that the compiler may keep in a register or read again, so an access may go to
the buffer of the last access or to the current one (`Seen`). The rest of the
loop is a choice between collecting again and `ChangeHostQueue`.

### HostScheduler

`at` says where `Run` is: before it, in the loop, in a handler, at its end, in
`Destroy` or disposed. `heap` holds entries (id, timestamp, uid) and `Before` is
the order of `EventKey`; `queued` is `m_eventsWithContext`, filled by other
threads at any time and taken by `TakeQueued`, a part of `RunStart` and
`HostReturn` (one step: an event that is queued while the unprotected flag is read
is one that is queued after it); `destroyList` is `m_destroyEvents`, of which `Destroy` takes one
event after the other, its handler being free to schedule, cancel and remove
until `DestroyReturn`. `nextUid` is `m_uid`, which goes back to `UidValid` when
it reaches `DEVICE_EV_ID_OFFSET` (`NextUid`, and `UidAfter(n)` for the `n`
events taken from the queue). `key` keeps what an `EventId` remembers, which
`IsExpired` compares with the clock and the uid that runs; `gone` and `ranOrder`
are histories.

### Lookahead

One action dispatches, one runs a kernel with all the events of its buffer, one
collects: handlers give their events the times the code gives them (interval of
the client, bytes times the time of a byte, delay of the link), and `bound`
remembers what the event promised by its lookahead. It checks the premise of
`ElpSimulator`'s `HonestLookahead`, and finds where it fails.

### The device: NetDevice, PacketPool, Bridge, DeviceTables

One action per access to shared memory, by the threads of a kernel in any order;
`Launch` (`PoolLaunch`, `BridgeLaunch`) starts a kernel.

- `NetDevice`: `SendFrom` (plain test of the state), `TransmitStart` (CAS),
  `ReadRear` and `ReadFront` (two reads, in either order), `EnqueueDrop`,
  `EnqueueClaim`, `EnqueueStore`, `D_TransmitComplete`, `DequeueClaim`,
  `DequeueTake`, `DequeueClear`. A completion that a kernel generates runs in a
  later kernel. A kernel may hold sends and a completion together, which happens
  when both fall below the same `safe_ts`.
- `PacketPool`: `SendTest`, `NextPlace`, `Claim`, `SendDown` for `ELP_Send`;
  `RoomTest` (the tests that drop a packet without releasing it: interface, socket,
  receive buffer), the accesses of `Cuda_PairList::Add` and `pop_front`, `Account`,
  `CudaRecv` and `HandleRead` for a packet that arrives.
- `Bridge`: `Learn` in the order of its writes (`LearnMac`, `LearnSize`,
  `LearnPort`), then `ForwardUnicast`.
- `DeviceTables`: the arrays with their shifts on removal, against histories of
  what was added; sequential, since tables are filled by the CPU.

### What packets are made of, and the upstream device

- `P2pLink`: `Send` of the device with the upper layer that holds back, the
  drop-tail queue, `NetDeviceQueue` with `DynamicQueueLimits` (counters
  that wrap at `Word`, which is 2^32), `TransmitComplete` with the gap between
  frames, the channel. Sizes are those in the queue, with the PPP header.
- `PacketBuffer`: `AddAtStart`, `AddAtEnd`, `RemoveAtStart`, `RemoveAtEnd`,
  copies and fragments; `m_data` are the shared bytes with their dirty area,
  `content` is what each buffer should read.
- `PacketTags`: the tree of tags with its counts, copy on write in `Remove` and
  `Replace`. `ByteTags`: ranges of bytes through every change of a packet.

### Protocols

- `Tcp`: a socket is a record; a function of `TcpSocketBase` is an operator from
  a socket to a socket, so that a handler reads as its calls do; what it sends
  is collected in the field `out` and goes to the network when the event ends.
  Two ends, a listening socket that forks, a network that loses and reorders.
  `TcpTransfer` adds a name to each event and fairness.
- `TxScoreboard`: the sent list of `TcpTxBuffer` with the flags of its items,
  and the congestion states; SACK or duplicate ACKs alone.
- `Arp`: `Lookup` in its four cases, `Receive`, `HandleWaitReplyTimeout`, `Flush`,
  static entries and removal, the jitter of requests. `Ndisc`: one entry with
  its timer and everything that changes it.
- `IpFragments`: fragmentation at the source and on the way, `Fragments`, the
  list of timeouts with its events. `IpDuplicates`: `UpdateDuplicate` and
  `RemoveDuplicates`.
- `UdpSockets`: binding in any order, the end points of `Ipv4EndPointDemux` and
  its choice for a packet, the receive buffer; mode TCP adds forked end points.
- `Rip`: three routers in a triangle, every message and timer a step of its own.
- `Spf`: `SPFCalculate` vertex by vertex over all topologies of a set.
- `Http`: client and server over a connection that keeps order and may break.

## Runs

| run | checks | shows |
|---|---|---|
| `elp` | `TypeOK`, `EachEventInOnePlace`, `NoStraggler`, `KernelOwnsItsBuffers`, `ImplementsDes`, `Termination` | the loop with honest lookaheads: no event lost, doubled or late, buffers kept apart, the refinement, and that it ends |
| `elp_any_lookahead` | `CountersAgree`, `ClockNeverGoesBack` | what remains with any lookaheads |
| `elp_exit` | `NothingLostAtExit` (violated) | finding 1 |
| `dev_insert` | `ImplementsMailbox` | regions that do not overflow are two sets |
| `dev_insert_full` | `TypeOK`, `LockExclusive`, `NeverTwice` | what remains true when they overflow |
| `dev_insert_consume` | `CpuConsumes` (violated) | finding 2 |
| `net_dev_lost` | `NothingLost` (violated) | finding 3 |
| `device` | see below | what moves packets, part by part |
| `internet` | see below | the protocols, part by part |
| `tcp_live` | `ClientDataArrives`, `BothEnd` | in the end the server has all that the client wrote, or an end has been told that the connection failed; with no loss and no timer that sends again, both ends close and give their endpoints back |
| `spf_one_exit` | `OneExitAssumed` (violated) | finding 4 |
| `lookahead` | `NotInThePast` (violated) | finding 5 |

In `device` and `internet` the modules stand side by side: the variable `part`
says which of them a behaviour is about, so the states add up instead of
multiplying. Each property is about one of them:

| property | of | says |
|---|---|---|
| `BusyMeansOneCompletion`, `AtMostOnce`, `ApartAllTransmitted` | `NetDevice` | the transmitter is BUSY exactly while a completion is due; no packet is sent twice; none is left behind when kernels that send and kernels that complete alternate |
| `PacketsAccounted` | `PacketPool` | a packet is in use exactly while something holds it (`EveryPacketAccounted`), the delivery queue stays in range (`QueueInRange`), the receive buffer is empty between kernels (`ReceiveBufferDrained`) |
| `LearnedAndForwarded` | `Bridge` | with a frame a kernel, the table follows the stations and frames go to their receiver; with races, nothing is promised |
| `SchedulerConsistent`, `CancelledNeverRuns` | `HostScheduler` | `IsExpired`, order and count agree with what ran; what was cancelled never runs |
| `EarlyOnlyAtHome` | `Lookahead` | events earlier than promised are those of the own node, or of frames smaller or faster than what the bound assumed |
| `LookupsRight` | `DeviceTables` | longest prefix, oldest MAC, after any additions and removals |
| `LinkFlows` | `P2pLink` | a stopped queue is started, a waiting sender woken, packets in order and one at a time |
| `BuffersSound`, `AllTagsSound` | `PacketBuffer`, `PacketTags`, `ByteTags` | copies are independent, counts exact, tags stay on their bytes |
| `ScoreboardSound` | `TxScoreboard` | counters match flags, nothing is both sacked and lost, no assertion fails, recovery is bounded |
| `DataSafe`, `FinishedMeansAll` | `Tcp` | what is acknowledged is delivered and what is not has a timer; the final states mean that both sides have everything |
| `EveryWaitEnds` | `Arp` | no entry that waits expires unseen, each is given up in time, packets stay with their entry and in order |
| `ResolutionEnds` | `Ndisc` | timer and state fit, a packet is sent once, none overtakes |
| `ReassemblySound` | `IpFragments` | a packet is handed up whole or given up in time |
| `DuplicatesFound` | `IpDuplicates` | a duplicate is found exactly while it is recent; the table is purged |
| `EndPointsRight` | `UdpSockets` | one end point for a bound socket, none ambiguous unless devices are used, bytes counted |
| `RoutesSettle` | `Rip` | every route has its timer; when all is quiet routes are consistent and, before a failure, shortest |
| `RoutesShortest` | `Spf` | the tree, its exits and its routes are those of all shortest paths |
| `PagesComplete` | `Http` | no callback of the client in a wrong state, no object written over another or for an erased entry (one exception, below), one thing at a time, nothing missing of an object |

`DeviceTypesOK` and `InternetTypesOK` collect the type invariants.

### Bounds

- `ElpSimulator`: two event types, warps of one slot, host buffers of two
  slots, two kernel threads, two CPU events at the start, five events in all,
  timestamps up to 3, lookaheads 1 and 2 and "none". A warp rolls over at every
  event, the third event of a round finds the buffer full, three rounds of
  buffers are used, and a child can meet the bound of either buffer exactly, one
  before and one after. `MaxEvents` and `MaxTs` are guards of the actions that
  create events. `EVENT_KINDS` = 4, `WARP_SIZE` = 32 and
  `DEVICE_QUEUE_LENGTH` = 4096 in the code change how often the same cases come
  up; the theorems hold for all values.
- `DeviceInsert`: two threads, regions of two slots (four in the code),
  `Budget` insertions of a thread in a kernel. Two fit and are used for the
  refinement over three kernels, so that both buffers are used again; three
  overflow. In the program a region does overflow: a send inserts three events,
  and when the grid has fewer threads than the buffer has slots, a thread runs
  several events of one buffer.
- `Device.cfg`: four packets, a ring of two, six kernels for the GPU device: the
  ring is filled, drained and wrapped (`UintModulus` stands for 2^32, which TLC's
  integers do not hold; all that matters is that it is larger than the ring);
  pools of two packets, a queue and a receive buffer of one, so that both
  overflow, four kernels; two stations on three ports, a table of two entries;
  three CPU events over three uids, so that `m_uid` goes back; queues, buffers
  and lists of a few bytes or nodes, with counters of four bits that wrap and
  five to seven operations: enough for a copy of a copy to be written at both
  ends, and for a tag to be shared, replaced and removed.
- `Internet.cfg`: one write of each end, one loss and one retry of each kind for
  TCP, so that a segment, its answer and its retransmission meet in every state;
  two neighbours with two packets and a queue of one for ARP, so that one timer
  serves two entries and the queue overflows; three packets and two of each
  solicitation for ND; two datagrams over two MTUs with two copies and one
  identification bit, so that identifications are used again; two sockets, two
  ephemeral ports and five calls for UDP; three RIP routers in a triangle with
  one flap and infinity 3, so that counting to infinity takes place; four SPF
  routers and a network with metrics of 1 and 3, so that paths tie; three pages
  of up to two embedded objects for HTTP, with rooms of a few bytes on the way.
- `TcpTransfer.cfg`: two segments, two losses, two retries: losses that the
  retries just survive.

### Fairness

`FairSpec` (for `Termination`) asks for weak fairness of the CPU thread and of
the kernel: the operating system schedules the one, the GPU runs every resident
thread of a kernel to its end. The number of events is finite (`MaxEvents`), and
a handler of a CPU event returns in the end, since every step of the handler
other than its return is bounded. No fairness is asked of `ScheduleWithContext`.

`TransferSpec` (for `ClientDataArrives` and `BothEnd`) asks that every event of
the simulation that is scheduled runs in the end: a segment arrives or is lost, a
timer that runs expires, an application that holds a socket closes it. The
simulator runs every scheduled event in the order of time, so this is what it
does; the order of times itself is left open. A connection whose retries are
used up gives up, which is why `ClientDataArrives` allows for the failure that an
end is told of, and `BothEnd` has the premise that nothing was lost and no timer
sent again.

## What is proved

With TLAPS, for every value of the constants that satisfies the assumptions of
the module. TLC evaluates the assumptions in the runs and checks the same
properties on small instances; each inductive invariant was checked with TLC
before it was proved.

`ElpSimulator_proofs`, under `ElpAssumption` (positive sizes, types numbered
from 0, the first warps of all types fit into a buffer, no sum of a timestamp
and a lookahead reaches `Forever`) and `InitialAssumption` (the events before
the run have distinct identities):

- `TypeCorrect`: `TypeOK` is inductive as it stands.
- `KernelOwnsItsBuffersHolds`. The invariant `Ownership` adds to the types that
  a running kernel's buffer is not the current host buffer and is flagged
  (`KernelBuffer`), and that the current device buffer is never flagged and
  never the one under collection (`DeviceBuffers`): the property itself says
  nothing of the time when no kernel runs, from which `ChangeHostQueue` starts.
- `NoStragglerHolds`, for honest lookaheads. `IInv` adds that the bound of a
  buffer is no later than the first child of any of its valid slots
  (`BufferBounds`), that `safe_ts` is no later than either bound until they are
  refreshed, and no later than a child of the event on its way to a buffer or
  than an event already generated (`SafeBounds`), and that the clock is behind
  `safe_ts` and behind everything generated (`ClockBounds`).
- `ClockNeverGoesBackHolds`, for any lookaheads, from `CpuEventsAhead`: the CPU
  events of the heap are at or after the clock, since those in the heap are
  never passed by one that is not smaller.

Further, on where events are:

- `EachEventInOnePlaceHolds`. Two facts make it inductive. `FreeSlots`: the slot
  that `h_insert_sort` is about to fill, and every slot that a later event of
  any type would get, is empty; this rests on the arithmetic of warps (two
  types never share a warp, and a warp that is claimed anew lies behind all
  claimed before). `EachOnce` with `UniqueIds`: every event born is in one kind
  of place, be it heap, queue of other threads, hand of the CPU, region, slot
  or executed, and in each of them a number names one event.
- `CountersAgreeHolds`, for any lookaheads: with the sets it counts finite
  (`CountInv`), what `OnePlace` adds is that no step adds what is there already
  or removes what is not.
- `ImplementsDesHolds`, for honest lookaheads: `ElpSimulator` implements
  `ConservativeDes`, step by step. `h_insert_sort` and `d_insert` move an event
  or stutter, `ELP_Schedule` is the abstract collection, the removal from the
  heap is the abstract dispatch. What the last needs is `Safe`: `IInv` gives
  that the one number the code compares with is no later than all that is in
  flight.

`NetDevice_proofs`, under `DeviceAssumption` (in particular that 2^32 is larger
than the ring plus one):

- `TypeCorrect`, with the bound of the ring, for sends and completions in any
  mix. The invariant `Copies` says how far a thread's copies of the two counters
  can be behind: a claim succeeds only if the rear has not moved, and a front
  read earlier is too small, never too large, unless the difference is negative,
  which the unsigned comparison turns into "full". A front copy is at most one
  behind, because at most one completion, the only dequeuer, runs in a kernel.
- `BusyMeansOneCompletionHolds`.
- `AtMostOnceHolds`, from `PlaceInv`: a packet that is not yet sent has one
  holder among the threads or one slot of the ring (`OneHolder`, `OneSlot`,
  `HolderOrSlot`, with `Held`, `Queued` and `NotYetSent` for what that means).
- `ApartAllTransmittedHolds`, for kernels that hold sends or a completion, not
  both. `Apart` says that one kind of thread is at work (`OneKind`), that a send
  on its way to the ring has seen a transmitter that stays BUSY (`SendSteps`),
  that a completion that fetches keeps it READY and the rear still
  (`CompletionSteps`), that a READY transmitter has an empty ring unless a
  completion is fetching (`Fetched`), that slots between front and rear are
  written or about to be (`Written`, `Stores`), all others empty (`Vacant`), and
  that a packet asked for is held, queued, transmitted or dropped (`Somewhere`).
  Without the premise finding 3 violates it.

`DeviceInsert_proofs`, under `InsertAssumption` (a thread, and regions of at
least two slots), for regions that may overflow:

- `TypeCorrect`: in particular the index of `d_insert`, tested against the
  limit only after it was incremented, stays in the region. A thread inside an
  insertion still owes it (`Owing`), so the count never goes below zero.
- `LockExclusiveHolds`, with `LockTaken`: the lock is 1 while a thread is in
  `ChangeDevQueue`.
- `NeverTwiceHolds`, from `OnceInv`: the events a thread has made so far are
  those in its regions and those collected, never both, and no two slots hold
  the same (`Made`, `Apart`), whatever the buffers do meanwhile.

With the further premise `Budget <= MAX_NEW_EVENTS`:

- `RegionsImplementMailbox`: `DeviceInsert` implements `DeviceMailbox`. The
  invariant `MailInv` says that no thread sees a buffer other than the current
  one nor finds its region full (`Undisturbed`), that a region is filled from
  its first slot without a gap and has room for what is left (`Filling`), that
  the numbers of events are different and bounded (`Numbered`), that only a
  buffer that is not current is ready or collected (`Flagged`), and that what is
  neither current nor ready is empty, as is what the CPU has passed (`Swept`).
  `Filling` is what makes it right to skip a region whose first slot is
  invalid; `Swept` is what makes the buffer that a launch turns to empty. Then
  `Store` is `Insert`, `Base` and `Place` with a valid slot are `Take`,
  `CollectNext` is `Close`, `ChangeHostQueue` is `Publish`, and the rest stutter.
  The premise is needed: without it finding 2 violates the refinement.

`HostScheduler_proofs`, under `SchedulerAssumption` (at least two uids), for any
delays and number of events:

- `TypeCorrect`.
- `CancelledNeverRunsHolds`, from `PlacesInv`: an event is in the heap, in the
  queue of other threads, in the list of destroy events or gone, once and in one
  of them (`HeapInv`, `QueueInv`, `DestroyInv`), none of those with an `EventId`
  is missing (`NoneMissing`), and what ran is gone (`RanAreGone`).
- `SchedulerConsistentHolds`. Its part about order is for runs in which `m_uid`
  has not come back to its first value (`UidsDistinct`, the code's 10^6 events);
  `OrderInv` says for these that uids are given out in turn (`UidsInTurn`), that
  the event that runs parts what ran or was removed from what waits (`Parted`),
  that what ran was in order (`InOrder`), and that the count is the size of the
  heap (`Counted`).

`GpuDevice_proofs`, under `BridgeAssumption`, `PoolAssumption`,
`LookaheadAssumption` and `TablesAssumption`:

- `BridgeTypeCorrect`, for any races. It needs `BridgeBounds`: entries and
  threads that have found the table not full are together fewer than the array
  and the threads; so a race writes behind the array by one entry a thread, less
  one.
- `LearnedAndForwardedHolds`, for kernels that hold one frame of the bridge.
  `Learned` says that the thread at work is alone with a frame whose sender was
  last heard on its port (`Alone`, `FrameHeard`), that its copy of the size is
  the entry behind the last one, or the last one after the size was written
  (`Appender`), that addresses of entries differ (`Rows`), that their ports were
  heard, except for the entry that still lacks its port (`PortsHeard`), that the
  table follows the stations but for the one being learnt (`Follows`), and that
  what was sent fits the table (`SentRight`).
- `PoolTypeCorrect`, with `PoolTyped`: a thread that sends has a client, one that
  works on a packet has a packet of a pool.
- `PacketsAccountedHolds`. For the range of the queue, which holds for any
  interleaving, `QueueCounts` counts the threads that have advanced the rear and
  may still advance the front (`Owed`): they part rear and front, so the front
  never passes the rear; and a rear that was read before the front is at most a
  capacity ahead of it, so the unsigned difference of the two copies is never
  larger than the capacity. Until a kernel holds two receive events, `Uncrowded`
  says that one thread receives (`OneReceiver`), that the queue holds its packet
  or nothing (`QueueOfOne`), that the receive buffer is charged for that packet
  alone (`Charged`), and that a packet in use is on the wire, lost in the stack or
  with one thread, and only there (`OneHome`). `UsersAre` and `SlotHasThread`
  turn this into the counts of `EveryPacketAccounted`.
- `EarlyOnlyAtHomeHolds`, for any network. `LaInv` says that each event carries the
  lookahead of what generates its children (`Promising`), and that a device
  without clients has frames only if a bridge sends by it. The proof found that the
  property was too strong: with links of different speeds a bridge can be early
  with a full frame (`FasterOut`), which the network of the run cannot show.

- `LookupsRightHolds`, under `TablesAssumption`, for any prefixes, devices and room.
  `RoutesKept` says that a prefix has one entry, which is what it was last given, and
  none after it was removed; `CacheKept`, with `PlacesOf`, that the places of the
  entries of an address grow with the age of its MACs, which removals that move up
  the entries behind do not change. `TurnKeepsBest` is the loop of `LookupRoute`: what
  it holds after some entries is within every prefix of theirs that has the address
  (`BestOf`), because two prefixes with an address in common are nested.

`Network_proofs`, under `P2pAssumption` (no packet is larger than the MTU and the PPP
header, the queue takes one, the limits are less than half of `Word`) and `BufferAssumption` (finitely
many buffers, named by positive numbers, and natural bounds):

- `LinkTypeCorrect`, `LinkFlowsHolds`. `LinkInv` adds to the property that queue and
  wire hold packets and the counters of `DynamicQueueLimits` are below `Word`
  (`LinkTypes`); that queued less completed is the number of bytes in the queue
  modulo `Word`, and the adjusted limit the limit plus what is completed
  (`LimitsCount`), from which the signed difference of the code is the true one,
  although all three counters wrap; that the device is busy exactly until `done`
  and that what it sent arrives at most a delay later (`Timing`), so that what is
  sent next arrives last; and that what has arrived, what crosses, what waits and
  what is still to come follow each other, each in order, and that what is missing
  was dropped (`InTurn`).
- `BuffersSoundHolds`, for any buffers, lengths and operations. The property is not
  inductive: it lets a dirty area end so early that the next `AddAtEnd` writes over
  the bytes of another buffer. `BuffersInv` adds, in `Sharing`, that every buffer
  lies within the bytes of its Data (`InPlace`), which counts it, and `Covered`: for
  each Data there is one number of zeroes, at least that of each buffer that shares
  it, such that the bytes of all of them end, with that many zeroes, inside the dirty
  area. That is what makes the test of `AddAtEnd` enough: `m_dirtyEnd` is an offset
  with zeroes and the bytes are at offsets without, and two buffers with one Data
  can have different numbers of zeroes once one is cut. One lemma says what each
  change of one buffer leaves to the others: giving up a Data (`ReleaseSafe`), taking
  a free one (`FreshSafe`), sharing one (`ShareSafe`), writing outside what others
  read (`InPlaceSafe`), shrinking (`WithinSafe`); `Does` adds what the buffer itself
  then reads. Copying, cutting, joining and the zeroes made real follow by two such
  changes after each other (`TwoSteps`, `DoesBoth`).

`Totals_proofs` has what these proofs need of sums. `SequenceInduction` says that a
set that holds the empty sequence, and with a sequence all that are longer by
one element, holds all sequences; it comes from the least element of a set of
numbers. Unlike the induction theorems of the library, which take a predicate,
it takes a set and can be cited.

`Internet_proofs`:

- `DuplicatesFoundHolds`, under `DupAssumption`, for any expiry and purge period.
  `DupInv` relates each entry to the time when its key was last seen, says that a
  key without an entry was seen at least `m_expire` ago, and bounds the next purge
  by now and by every entry.
- `ReassemblySoundHolds`, under `IpAssumption`, for any packets, width of the identification
  and timeout. `FragInv` looks at the fragments on their way and in the lists at once:
  each is a piece of a packet that was sent; a list is in the order of the offsets,
  has the flag of its last fragment and one identification, and is not entire; without
  reuse of an identification its fragments are of one packet (`OnePacket`), and any two
  fragments are the same or apart (`AllApart`) unless one of two copies was cut again.
  The last part needs to be carried with one more: before anything is
  duplicated, no fragment is both on its way and in a list. `TimeInv` says that the
  list of timeouts is in order, holds each partial packet once, nothing overdue and
  nothing later than a whole timeout from now, and that an event is pending no later
  than its first. What the loops of `IsEntire`, `GetPacket` and `GetPartialPacket` do is
  `GluedBegins`: after `k` fragments they hold the first bytes of the packet, as far as
  the fragments reach without a gap (`Begun`), by induction over the places of the
  list, with `EndReached` for the end of what was read. `FragmentAdded` is the search
  of `AddFragment`: the list stays sorted, wherever the fragment goes.
- `EveryWaitEndsHolds`, under `ArpAssumption`, for any timeouts, retries,
  neighbours and packets. The cache has one timer for all entries. `TimerInv`
  says of every entry that waits that the timer runs, that its age and what is
  left of the timer make at most one timeout, and that the time it has waited in
  all and what is left make at most one timeout for each retry made and one
  more: no entry is passed over when the timer is set again for another.
  `QueuesInv` says that a packet is pending exactly when it is in the queue of the
  entry of its next hop, once and in order, and that such an entry waits for a
  reply or is permanent.
- `NdTypeCorrect` and `ResolutionEndsHolds`, under `NdiscAssumption`. `NdInv` is the
  property itself with the types, that an entry that is not there is `NoNeighbour`,
  and that packets wait in the order in which they were looked up (`NdInTurn`),
  which makes the packet that leaves a full queue another than those that stay.
- `UdpTypeCorrect` and `EndPointsRightHolds`, under `UdpAssumption`, for any sockets,
  devices, ports and buffer. `UdpInv` has three parts that speak of a list of endpoints
  and the sockets at once, so that each operation is a lemma on the list it leaves:
  `Owners` (one endpoint without a peer for each bound socket, on its device),
  `PartedAll` (of two endpoints with the same address, port and peer, only one fits a
  device, unless one was moved to its device later) and `OnDevice` (an endpoint is on
  a device only if its socket is). `Counted` gives the bytes that wait. `OneReceiver`
  uses them: without devices and subnets the endpoints that fit a packet exactly
  differ in none of address, port and peer, and so are one, and the assertion of
  `Lookup` holds.
- `PagesCompleteHolds`, under `HttpAssumption`, for any objects, sizes of the header
  and room in the connection. `HttpInv` looks at the client, the server and both
  streams at once. Whatever breaks or closes, `StreamsEnd` (a stream ends once, and
  the server has then forgotten the connection), `ServerInTurn` (a request is read
  only when the buffer is empty), `LinkAllows` and `EventsFit` (an event finds the
  client in a state that expects it) hold; as long as the client runs and the
  connection stands, `TakeTurns` says which of the two acts, and `Follows` that a
  stream holds a header, then bytes of its object, and that what the header promises
  is at least what is on its way and in the buffer, exactly as much when nobody
  closed. One lemma for each action (`...Keeps`) rests on two, `ServerMoves` and
  `ClientMoves`, which name what a side may change. The program may end in one place,
  the look-up at the end of `SendCallback`; `StopClosed`, a second inductive invariant,
  says that only a client that has stopped makes the server's entry wait to be closed,
  or lets the look-up find none.

## What is only model-checked

- *Liveness*: `Termination`, `ClientDataArrives`, `BothEnd`. The prover has no
  fairness or `ENABLED`.
- *Not yet proved*: `AllTagsSound` (trees and lists), `ScoreboardSound`, `DataSafe`,
  `FinishedMeansAll`, `RoutesSettle`, `RoutesShortest`; their proofs need
  induction over the data, one lemma for each operator (`SequenceInduction`).
- *Recursive operators*: modules that declare one are outside the prover's reach.

## Findings

1. `elp_exit` (`cuda-elp-simulator.cu:1218`): the loop ends when the heap is
   empty, with events in a host buffer that was never launched or a device buffer
   that was never collected. The consistency test counts only the heap.
2. `dev_insert_consume` (`cuda-elp-simulator.cu:701`): a swap in the middle of a
   kernel lets the CPU pass a region before its thread has stored; the event is
   left behind.
3. `net_dev_lost` (`cuda-net-device.cu:541`): a slot is dequeued between its
   claim and its write, and the packet is lost without being released.
4. `spf_one_exit` (`global-route-manager-impl.cc:1125`): a network that two
   routers next to the root reach at equal cost has two exits when its routers
   become candidates, which lines 324-325 assert does not happen.
5. `lookahead` (`cuda-elp-simulator.cu:806`): the end of a transmission and the
   next send of a client are inserted earlier than their lookaheads promise, so
   device events run behind the clock.

## Other things the code does

Met while modelling; the models do the same, and no property says otherwise.

- Kernels that mix sends and completions: a stale rear minus a newer front is a
  huge unsigned number, and a packet is dropped by a ring with room
  (`cuda-net-device.cu:496`); a packet enqueued after the completion has seen an
  empty ring waits with the transmitter READY (line 396). The comment at line 494
  belongs to the test that is commented out below it: the ring is filled entirely.
- `d_changeQueueLock` does not ensure "that only one thread will change the
  buffer" (`cuda-elp-simulator.cu:48`): two threads that overflow at the same time
  swap the buffers and swap them back.
- Once `m_uid` has come back to its first value, an old `EventId` can look like
  one that still waits, and `Remove` of an event that ran lowers
  `m_unscheduledEvents`.
- `Lookahead`: the lookahead of a frame that reaches a bridge is that of the link it
  came by (`cuda-p2p-channel.cu`, `TransmitStart`); when the bridge sends it by a
  faster link, even a full frame arrives earlier than promised.
- `PacketPool`: when several threads of a kernel receive for one socket, two of
  them can take the same packet of the delivery queue (`OneUser` does not hold);
  an `ELP_Send` whose pool has no free packet, because the stack has forgotten to
  release some, searches for ever (`ClaimEnds` does not hold).
- The web server, built with logs and assertions: when a client has closed and
  `SendCallback` hands the last bytes of an object to the socket,
  `DepleteBufferSize` closes the socket and erases its entry
  (`three-gpp-http-server.cc:845`), and the look-up of the content type for the log
  (lines 461 and 478) fails the assertion "cannot be found" (line 765), as does, at
  level INFO, that of the size (line 603). `fatal` is then "closed", and
  `NoInvalidState` allows it for a client that has stopped; in other builds the
  model goes on.
- A full-size packet can be dropped by the queue of a point-to-point device that
  was not stopped, which `net-device-queue-interface.h:386` says should not happen:
  the test for room counts the MTU (line 351), the queue also the PPP header
  (`point-to-point-net-device.cc:533`). `PacketDiscarded` then stops it.
- TCP: `tcp-tx-buffer.cc:839` may lower `m_highestSack`; the count of bytes in
  flight (line 1084) can be too large; with Limited Transmit off an assertion of
  the scoreboard fails. The persist timer resets counters of the last segment
  (`tcp-socket-base.cc:3907`). After `ShutdownSend` with all data sent and some
  not acknowledged, no FIN is sent until the last segment is sent again or the
  application calls `Close` (line 808); no property says that the FIN goes out.
- UDP: a send after `Close` binds an end point that nothing gives back
  (`udp-socket-impl.cc`, `DoSend`); with no free port and a bound device a null
  end point is used.
- ND: a router advertisement for a known prefix keeps the old lifetimes
  (`ipv6-l3-protocol.cc:361-371`); `icmpv6-l4-protocol.cc:1380` overwrites the
  initial retransmission time.

## Not modelled

- `ELP_Run` with `PersistentEventKernel`, `Test_Kernel`, `ELP_Test` and the
  sources that `contrib/cuda/CMakeLists.txt` does not compile: nothing calls them.
- The callback design (`EventDispatcher`, `CUDA_cb_data`): its worker is never
  started; `DeviceTables` has its list only.
- The CPU bridged device and `CudaSimulatorImpl`: copies of upstream classes, of
  which `P2pLink` and `HostScheduler` model the originals.
- Congestion control algorithms (floating point; the TCP models let the window
  be anything that the property does not depend on), the IPv6 layer and its
  autoconfiguration, header formats, statistics, mobility and radio models, the
  other applications, the building of the link-state database.
- Getters, printing, attributes, construction.

## Next

In this order: of `Tcp` the part of `DataSafe` that relates what is acknowledged to what is
delivered; the tables of `UdpSockets`; `P2pLink` with a byte counter in place of
the lengths it adds up. Then the model: `Learn` disabled, forwarding of a list of
frames, the remaining states of the UDP layer.
