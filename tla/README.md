# A TLA+ model of lowlat-oms-core

TLA+ modules beside the C++ of this repository, the TLC configurations that
check them on small instances, and proofs that TLAPS checks. `PROJECT.json`
maps every definition to the lines it models, and lists the runs, the mutants
each property was tried against, the hazards and the findings.

    tlc -config MCSessionCaller.cfg MCSessionCaller   # one run
    tlapm SessionProofs.tla                           # one module's proofs

## The system and its parts

Orders arrive as frames on TCP connections. The **feed handler** reads and
reassembles them on one thread and pushes orders through the **SPSC ring** to a
second thread, which asks the **risk gate** and submits to the **matching
engine** over the **order book**. Towards venues, the **order router** chooses
the venue and the client order id; the **wire protocol** frames messages and
finds its way back after damage; the **session layer** decides what of the
numbered inbound messages may be acted on. There
are two feed handlers, over epoll and over io_uring; they differ in how the
reader talks to its sockets. Between processes, a **shared-memory ring** lies
in a segment of **POSIX shared memory**, and the **IPC demo** streams and plays
ping-pong over two of them.

| Part | State | Operations | What is hard |
|---|---|---|---|
| Session | state, next_in/out, queue of held messages, released messages, silence, outstanding question | begin_logon, on_message, on_clock, claim_outbound_seq, take_released | gaps, duplicates, resets over held messages, reconnects with old state, silence racing an answer |
| SPSC ring | head, tail, slots | push, pop | stale loads, slot access against publication, wrapping indices, full against empty |
| Order book | levels per side, id index | add, cancel, best, reduce_front | the index against the lists under fills, cancels and reused ids |
| Matching engine | the book, the taker | submit | priority across partial fills, termination, crossing |
| Risk gate | limits | check | overflow, the ends of the collar, disabled limits |
| Order router | venues, routes, counter | add_venue, set_state, map_symbol, route, configure_router | ids across restarts, exhaustion, tables filled piece by piece |
| Feed handler (epoll) | connections, buffers, flags, ring | accept, read, decode, push, drain; pop, check, submit | the signal between any two steps, full ring, backlog, the consumer's end condition |
| Wire protocol | receive buffer, read position, expected sequence, pending gap | feed, next, reset | splits anywhere, damage anywhere, compaction, gaps found on frames not delivered |
| POSIX shared memory | mapping, descriptor, ownership, the system's names | create, open_existing, close, move, unlink | failures and crashes between system calls, fork, leftover names |
| Shared-memory ring | header, indices | create, attach, push, pop | a peer that dies between two stores, foreign indices |
| IPC demo | two rings, a child | two-phase protocol with deadlines | a dead peer, the deadline against the last message |
| Feed handler (io_uring) | requests prepared, in flight and completed, buffers | as above | completions that arrive during the drain, requests lost or doubled when re-armed |
| Latency histogram | counts per bucket, total, least, greatest | record, reset, percentile | the edges of buckets, the largest value |

## Modules

| Module | Models | State and actions against the code |
|---|---|---|
| `Session` | `session.cpp` | The members of `Session`, except the statistics. `last_inbound_ms_` is the time since then (`silent`), since only the difference is read, and grows to one interval at most. One action per public operation; `on_message` is one disjunct per way through the function. |
| `SessionCaller` | the contract of `session.hpp` | The application: it acts on a delivered message, then on the released ones, before it hands in the next. Adds the clock's `Time`, `Question` and `Verdict` and the history `acted`. |
| `SessionLink` | the session in use | A peer (external) that logs on, sends and replays, over a connection that loses frames and breaks. |
| `RingIndex` | both rings | What the two rings have in common: the two indices modulo `Width`, the slots, the slot of an index, the queue between two indices, and what the last `pop` returned. |
| `SpscRing`, `Fifo` | `spsc_ring_buffer.hpp` | Each call is split at every access to shared memory. A thread's load of the other's index returns any value between the newest it has seen and the present one: the acquire load promises no more. `Fifo` is the bounded queue it implements. |
| `OrderBook` | `order_book.cpp` | Levels are sequences of nodes. A node has an identity, so that the index can dangle. |
| `MatchingEngine`, `PriceTimePriority` | `matching_engine.cpp` | `submit` as one step per fill (`Trade`) and a `Return`. `PriceTimePriority` says what a fill must be in terms of arrival only. |
| `RiskGate` | `risk_gate.cpp` | `check` in front of a caller with one working order. Signed overflow yields any number of the width. |
| `OrderRouter` | `order_router.cpp` | Registry, table, ids; `Restart` starts a process with another epoch. `configure_router` folds over the declarations, states and routes in the order of the code. |
| `FeedPipeline` | both feed handlers | What the two programs share line for line: decode and push, the consumer, the flags, the ways out, with peers and signal. The consumer takes one step per order. Bytes are counted in units, so a read ends inside a frame. The ring is the queue `SpscRing` is shown to implement. |
| `FeedHandler` | `feed_handler_linux.cpp` | The reader as a program counter through the epoll loop, the backlog and the drain. |
| `UringHandler` | `feed_handler_iouring_linux.cpp` | The reader of the other handler, and the kernel's side of its ring: how many requests per socket are prepared and in flight, and the completion queue. A batch of completions is worked off one by one and submitted once. |
| `Wire`, `FrameDecoder` | `wire.cpp` | The buffer, `rpos_`, the expected sequence and the pending gap, over streams of real header fields, one unit per field. `next` is one step per turn of its loop. |
| `PosixShm` | `posix_shm.cpp`, the process side of `shm_ipc_posix.cpp` | One step per system call, each of which can fail; processes crash, fork and exit. |
| `ShmRing` | `shm_ring.hpp` | The header (which fields are stored), the indices and the slots, a writer and a reader. The plain stores of `create` happen in any order before the fence. Processes die between any two steps and others take their place. `good_head` and `good_tail` are the indices without foreign stores. |
| `ShmIpc` | `shm_ipc_posix.cpp` | The two processes from the fork to their exit codes over two bounded queues, the ones `ShmRing` is shown to implement. Every blocking push and pop can reach its deadline, and only after it failed; either process can be killed. |
| `LatencyHistogram` | `latency_histogram.cpp` | The members, and the samples in order of size. |
| `Bits` | shifts by a variable width | Powers of two, for the ids of the router and the buckets of the histogram. |
| `MC*` | | The values of constants that a cfg cannot write down. `MCFeedHandler`, `MCShm` and `MCArithmetic` put several specifications behind one variable that is chosen at the start: each runs by itself. |
| `SessionProofs`, `SessionLinkProofs`, `MatchingEngineProofs`, `RingProofs`, `FeedProofs`, `DecoderProofs`, `RouterProofs`, `ArithmeticProofs` | | Proofs. `RingProofs` holds those of both rings, of `PosixShm` and of `ShmIpc`, `FeedProofs` those of both handlers, `ArithmeticProofs` those of the checksum, the histogram and `RiskGate`; it uses the facts about recursion and powers of two with which `RouterProofs` begins. |

Left out on purpose: statistics and rejection counters, `to_string`
functions, error texts, and queries that change nothing and that no modelled
operation reads (`qty_at`, `level_count`, `size`). The definitions marked
*Variant* are plausible mistakes in the definition behind them; no
specification uses them, they show that a property can fail.

## What the runs check

Runs that pass:

| Run | Checks | Shows |
|---|---|---|
| `session` | `ReleasedInOrder`, `RecoveringHolds`, `ActedInOrder`, `NoSilentSkip`, `NothingHeldIsLost`, `DeadOnlyAfterInterval`, `SilentPeerIsDropped` | On any inbound messages at all, sequences are never stepped over silently, held messages are released in order and none disappears; the application acts on strictly increasing sequences through duplicates, resets in both directions and reconnects; a peer is declared dead only a full interval after the question, and a silent one is. |
| `link` | `PassedIsActed`, `RecoveringWasRequested`, `RecoveryCompletes` | Against a peer that keeps the protocol, one lost frame, or two broken connections, cost no application message, and recovery ends. |
| `ring` | `NoDataRace`, `ImplementsFifo`, `ConsumerDrains` | The two threads never meet in a slot, the ring is the bounded queue, and what was pushed is popped by a consumer that keeps polling. |
| `matching` | `Uncrossed`, `IndexSound`, `StaysCancellable`, `StrictPriority`, `SubmitReturns` | Price-time priority, a book never left crossed or with an empty level, no dangling index entry, with ids reused at will. A resting order can be cancelled as long as no other has its id; with two, the index forgets one of them. |
| `router` | `IdsNeverRepeat`, `RoutesLead`, `ConfiguredInFull` | With distinct epochs and one counter width no id is issued twice, exhaustion included; `route` never meets a missing venue; an accepted configuration was applied whole. |
| `feed` | `NoOrderLost`, `ArrivedIsRead`, `OneRequestEach`, `StopsAfterSignal` | In both handlers, wherever the signal falls, what was decoded is pushed and consumed, once and in order, and both threads end. The epoll handler also decodes all that had arrived at the signal. The io_uring handler has one request per socket outstanding, never two, and between batches never none. |
| `decoder` | `SplitsDoNotMatter`, `IntactAreDecoded`, `NoSilentLoss`, `NextReturns` | However the bytes are cut into reads and damaged, the result is that of the whole stream at once; damage costs the frame it hits, a lost message is reported with the next one delivered, and every byte is accounted for. |
| `arithmetic` | `PositionWithinLimit`, `ChecksumIsResidue`, `PercentilesAreClose` | With a size limit on, accepted orders keep the position within its limit, also at the ends of the number range. The checksum's deferred reductions change nothing. A percentile is the sample of its rank or less, by the precision at most. |
| `shm` | `MappingFits`, `NameMeansCreator`; `BoundIsWhole`, `CorruptionIsForeign`, `SurvivesDeaths`; `VerdictIsTrue`, `DepthIsOne`, `BothEnd` | Segments: no mapping reaches past its segment, the name leads to its live creator and outlives no orderly end. Ring: whoever attaches finds the whole header; deaths anywhere lose, repeat and invent no message; corruption is reported after a foreign store only. Demo: exit code 0 is earned and no alarm is false, one message is under way in the ping-pong, and both processes end. |

Runs in which TLC finds a violation, each a disagreement between the code and
a comment or test of the repository (quoted in `PROJECT.json`):

| Run | What happens |
|---|---|
| `session_before_logon` | A message ahead of the expected sequence takes a session that has not received a logon to `Recovering`, and from there application messages are delivered. |
| `link_second_gap` | A second gap, found while recovering, is never requested. |
| `uring_drain` | A read had taken half a frame when the rest of it arrived, and then the signal. The drain reaps the read, prepares no other, waits twice for a completion that nothing can bring about, and stops with the frame in the socket. The kernel of this run completes at once whatever it can (`Prompt`) and fails nothing (`Faults`). |

### Where the passing runs stop

Several properties hold under a condition, and the condition is where the code
does less than one might expect. Each can be seen by changing what is named.

- `link`, `Faults = {<<1, 1>>}`: `PassedIsActed` fails. A gap fill is applied
  even ahead of the expected sequence (`session.cpp:211`), so one that follows
  a lost replay skips the lost message.
- `session`: a duplicate restarts the silence but does not withdraw the
  question (`session.cpp:195`), so a peer that sends only duplicates is
  declared dead one interval after the last of them.
- `session`: a queued copy of a message already released never leaves
  `queued_` and keeps the session in `Recovering`; a queued administrative
  message is consumed without its effect (`session.cpp:156`); `queued_` has no
  limit.
- `feed`, `LoadsInOrder = FALSE`: `NoOrderLost` fails. The relaxed load
  of `g_reader_done` (`feed_handler_linux.cpp:124`) does not order the load of
  the ring's head behind it; where loads are reordered, the consumer can end
  with orders in the ring.
- `router`, `CounterBits = {1, 2}` and `Epochs = {1, 2}`: `IdsNeverRepeat`
  fails. Distinct epochs do not help when the counter width changes.
- `arithmetic`: `PositionWithinLimit` is about limits that fit the width
  (`LimitsFit`: the size limit is on, and the sum of both limits is a number).
  Without a size limit the sum of position and quantity overflows
  (`risk_gate.cpp:16`) and the position can pass its limit. The gate also knows no
  working orders: with several, each is checked against the same position;
  the feed handlers pass 0 for it.
- `decoder`, `NoSilentLoss` without `HeadersHold`: the checksum covers the body
  only, so a damaged type makes a message vanish without a gap
  (`wire.cpp:278`), and a damaged sequence number invents one.
- `shm`, `Considerate = FALSE`: nothing is claimed of the name. An instance that starts
  while another lives takes its name over (`shm_ipc_posix.cpp:175`), and the
  first one's `close` then removes the second one's name (`posix_shm.cpp:88`).
- `shm`: a foreign index must be out of range by more than one on either side
  (`Nonsense`). The range check of `pop` cannot tell a wrong index that is in
  range from a right one, nor one that an operation under way in the other
  process brings back into range. `push` does not count corruption at all: it
  takes indices out of range for a full ring.
- `shm`: the ring's loads return the newest value; stale ones are `SpscRing`'s
  matter, whose steps are the same. The demo's rings are the abstract queue.
- `feed`: the io_uring handler has no counterpart of `ArrivedIsRead`; see
  `uring_drain`. More connections than `kQueueDepth` are not modelled:
  `io_uring_get_sqe` would return null (`feed_handler_iouring_linux.cpp:162`).

### Bounds

- Sessions: sequences up to 3 give a gap with two messages held behind it, in
  either order and more than once, and resets to all of them. The interval is
  two ticks. The link allows six messages from the peer, so that logon, gap,
  replay and fresh traffic overlap.
- Ring: capacity 4 over indices modulo 8, so that indices wrap at once and full
  and empty occur at every offset.
- Matching: two prices, two ids, quantities to 2 and three resting orders: a
  level of two orders beside another one, partial fills, sweeps over levels.
- Router: 4-bit ids, all counters, an epoch that fits and one that does not,
  one name more than the registry holds.
- Feed: two connections, a frame of two units, reads of one and a half frames,
  a ring of one slot, so that it is full at once. One peer sends two frames;
  the other sends one frame to the epoll handler and half a frame to the
  io_uring handler (`CalmUnits`). Requests and waits may fail at any time.
- Decoder: two frames at every split with damage in any position, and four in
  the shape in which a gap is found on a frame that is not delivered. `CompactAt` is small, so compaction happens in the
  middle of frames. Units replace multi-byte fields; the checksum is checked
  by itself.
- Arithmetic: 4-bit numbers in the gate, all of them; the checksum of all
  bodies up to five bytes at radix 8 and block 2, the largest block that is
  safe there, as 21 is for bytes; three samples of all 5-bit values in a
  histogram of precision 3, which has three buckets and their edges.
- Shared memory: two processes with two handles each, two segments, sizes 0
  to 2. With `Considerate`, no instance starts while another lives. The ring
  has two slots and indices modulo 8, starts on old memory, and one refusal is
  counted. The demo streams five messages through rings of two, with two
  rounds of warm-up and three of ping-pong.

### Fairness

- Ring and engine: a thread inside a call continues; the consumer keeps
  polling. Nothing is assumed of when the producer pushes.
- Feed handlers: the reader and the consumer continue. The kernel owes no
  completion: a wait ends at its timeout. Peers need not
  send; what a peer may send is bounded, since the final drain reads until a
  connection is empty and would follow an endless stream.
- IPC demo: both processes run on; a wait that nothing ends reaches its
  deadline. Nobody has to kill anybody.
- Session clock: time passes, the application calls `on_clock` and
  `take_released`, as its contract in `session.hpp` says.
- Link: the application dials after a break; peer and connection deliver what
  is not lost.

Some runs do not check deadlock: the feed handlers and the demo end, a link
comes to rest when the peer has sent everything, and segments, samples and
bodies reach their bounds.

## What is proved

For every value of the constants that satisfies the named assumptions of the
modules; each theorem names the property of a run.

Session (`SessionProofs`). The assumptions say that the configuration is made
of naturals and that `Inputs` are messages.

- `SessionSafety`, `SessionRecoversHolding`, `SessionSkipsNothing`,
  `SessionLosesNothing`: the invariants and action properties of the run
  `session` that are about the session alone. The inductive invariant is
  `SessionInv == TypeOK /\ ReleasedInOrder /\ RecoveringHolds`; the type is
  needed for the arithmetic on sequences, and `ReleasedInOrder` relates the
  released messages to `next_in`, without which appending to them says
  nothing. The released batch is characterised by `Batch`, a lemma about what
  one call of `release_queue` moves.
- `CallerActsInOrder`: `ActedInOrder` for the application. `CallerInv` adds
  that all that was acted on lies below what is released, and that below
  `next_in`.
- `CallerWaitsForAnswer`: `DeadOnlyAfterInterval`. While a question is open,
  the silence is no longer than the time since the question.

Session, caller and peer over a link (`SessionLinkProofs`). Two hypotheses are
stated with the theorems. `OneKindOfFault` admits any number of broken
connections, or one lost frame on a connection that does not break; the run
`link_second_gap` shows that it cannot be dropped. `NextInboundSeq \in {0, 1}`: the session starts
where the peer starts to number. Traffic and connections are bounded by
constants of any size.

- `LinkPassesNothing`, `LinkRequestsGap`: `PassedIsActed` and
  `RecoveringWasRequested`. `LinkInv` says what can be on the wire (`WireOK`:
  messages sent for the first time come in order and without a gap up to the
  end of the peer's log, and a replay is awaited or follows the replay in front
  of it); that what is held was sent, is awaited, and is older than anything
  still to arrive for the first time (`HeldOK`); that requests start at a
  sequence that was awaited (`ReplaysOK`); that without a fault there is no gap
  at all (`Undisturbed`), which is where the hypothesis on the faults enters;
  and that while the session recovers, whatever it has not passed was
  requested, is held, or is still to arrive (`Asked`). An arrival is one of
  four things: skipped, put aside, accepted, or the end of a gap, in which case
  `release_queue` runs; `HeadEffect` shows that there is no fifth.

SPSC ring (`RingProofs`). The assumptions are those of the template:
capacity at least 2, dividing the range of the indices, which is at least
twice as large.

- `RingSafety`: `NoDataRace`. `RingInv` measures every index by its distance
  from the tail the producer last saw (`Ahead`), which turns the wrapped
  comparison into an ordinary order: seen tail, tail, seen head, head, at most
  a capacity apart. `ProducerHasRoom` and `ConsumerHasData` keep what each
  thread checked before its slot access true until it publishes.
- `RingIsFifo`: the ring implements `Fifo`; the mapping takes the slots from
  tail to head. `SlotsHoldData` is what it needs beyond safety.

Matching engine and book (`MatchingEngineProofs`). Prices are a finite set of
integers; quantities are integers of any sign, since the code does not refuse
them; ids are arbitrary and reused at will.

- `BookStaysUncrossed`, `IndexNeverDangles`, `RestingStaysCancellable`:
  `Uncrossed`, `IndexSound` and `StaysCancellable`. `EngineInv` says that each
  level holds orders of its side and price, of positive quantity, by age
  (`BookOK`); that a node is one order (`NodesDiffer`); where the index leads;
  and that every bid is below every ask (`BidsBelowAsks`), also in the middle
  of `submit`, because the taker is in the book only when nothing crosses it.
- `EngineIsPriceTime`: `StrictPriority`, step by step. The mapping forgets the
  levels and keeps the set of orders; the front of the best level is the
  oldest order of the best price because of `BookOK` and `NodesDiffer`.

Feed handlers (`FeedProofs`), each with a specification of its
own (`EpollSpec`, `UringSpec`), for any connections, frame and read sizes, ring
capacity, rejected orders, and peers without the bound `CalmUnits`.
`ListenerAssumption` says that the listening socket is none of the
connections.

- `EpollLosesNoOrder`, `UringLosesNoOrder`: `NoOrderLost`. Both rest on
  `PipelineInv`, which adds to the property its types, that an order is
  pending only in front of the push, and `FlagLast`: the consumer ends after
  the flag, and the flag is set behind the reader's last push. The pipeline's
  own steps are shown to preserve it once, the steps of each reader for itself.
- `EpollReadsAllArrived`: `ArrivedIsRead`. `Accounted` balances every
  connection: what was sent is decoded, in its buffer or in the kernel, so a
  read that finds nothing has left less than a frame. `DrainOK` says that once
  the drain has begun, a connection with a frame due is still on the list or
  being served.
- `UringKeepsOneRequest`: `OneRequestEach`. `RequestsOK` says that a socket has
  at most one request in all three places together, and `ConnsOK` where there
  must be one: at every open connection and the listener while the main loop
  runs, except for the connection whose read is being decoded.

Shared memory (`RingProofs`).

- `HeaderIsWhole`, `CorruptionIsNotOurs`, `ShmRingIsFifo`: `BoundIsWhole`,
  `CorruptionIsForeign` and `SurvivesDeaths`, for every capacity and index
  range the assumptions of `RingIndex` allow, and whatever indices the memory
  held before. `ShmInv` says that the header is whole before the magic
  (`HeaderFirst`); that the indices are either the good ones or far out of
  range (`GoodOrBad`), which is what lets `pop` tell them apart; what a call
  under way has checked (`InCall`); and that every slot between the good
  indices holds a message. The lemmas about wrapped indices and about the queue
  between two of them serve both rings.
- `MappingsFit`, `NameLeadsToCreator`: `MappingFits` and `NameMeansCreator`, for
  any processes, objects, sizes and number of segments. `SegmentsInv` follows an
  object through its system calls: what it has opened and how much of it the
  next call may rely on (`ObjectOK`), that no two objects are making the same
  segment (`OneMaker`), without which one could truncate what the other has
  mapped, and that the creator alive is one and has the name (`OneCreator`).
- `DemoVerdictIsTrue`, `DemoDepthIsOne`: `VerdictIsTrue` and `DepthIsOne`, for
  any number of messages and at least one round of each kind, with rings of at
  least two slots. `IpcInv` says for every place of the parent what is in both
  rings and where the child can be, alive or dead: the stream is what is left of
  it (`Draining`), then the report (`Reporting`), then one message on its way
  there, in the child's hands, or on its way back (`UnderWay`).

Decoder (`DecoderProofs`). The assumptions say that a stream is made of numbers,
that its frames are encoded messages of acceptable length, one after the other
and numbered without a gap, and that what is not damaged arrives as it was
encoded (`AsSent`). Number and length of frames, the units of a read, the
threshold of `compact` and the extent of the damage are arbitrary.

- `SplitsNeverMatter`: `SplitsDoNotMatter`. `BufferHolds` says that the buffer
  from `rpos` on is the end of what was fed. `ScanHolds` says that in front of
  `rpos` the bytes are the frames decoded and, between them, offsets that are
  `Dead`: no bytes that may still arrive make a frame of them. That is what a
  hunt for the magic has to establish for each byte it steps over, and what a
  call that waits must not have given up.
- `IntactAreAlwaysDecoded`: `IntactAreDecoded`, from the same invariant: an
  offset where an undamaged frame starts is not dead, so it was decoded, unless
  the scan went past it inside another frame. This last case is excluded by the
  hypothesis `DamageIsSeen`: wherever the decoder finds a frame, one was sent.
  The code cannot promise it (a checksum of 16 bits misses some damage, and a
  body may hold something that looks like a frame), so it is a hypothesis of the
  theorem and not an axiom; TLC confirms it for the streams of the run.
- `NoLossIsSilent`: `NoSilentLoss`, under the same hypothesis. `GapsHold` says
  that `next_seq` follows the last frame accounted for, and that the pending gap
  lies between the known messages and all the frames sent since the last one
  delivered. Every frame of the scan is one that was sent, so a gap between two
  numbers is the distance of two frames of the stream.

Router (`RouterProofs`), for any names, symbols, files, epochs and widths.

- `RoutesAlwaysLead`: `RoutesLead`. `TablesHold` gives registry and table their
  types beside the property.
- `ConfigurationIsWhole`: `ConfiguredInFull`. Each loop of `configure_router` is
  a recursive function over the positions of its list; `DeclaredFacts` and its
  like say what holds after any number of turns, and that a success means that
  no turn failed.
- `IdsAreUnique`: `IdsNeverRepeat`, if the widths among `CounterBits` that the
  constructor accepts are one (`OneLayout`); see *Where the passing runs stop*
  for why it cannot be dropped. `IdsHold` says that an issued id is an epoch used
  so far, shifted, and a count below the counter; `IdDetermines`, that an id
  determines both, which is where an epoch that does not fit would break it.

Checksum, histogram and risk gate (`ArithmeticProofs`).

- `ChecksumsAreResidues`: `ChecksumIsResidue`, for bodies of any length.
  `BlockAssumption` says of radix and block what makes 21 right for bytes: the
  second sum stays below the square of the radix until the end of a block. A turn of
  the loop keeps both sums within that bound and congruent to the plain and the
  weighted sum (`SummedFacts`).
- `PercentilesAlwaysClose`: `PercentilesAreClose`, for every width of the values
  and every precision. `HistogramHolds` says that a bucket counts the samples whose index it
  is. Indices grow with the values, so the search of `percentile` ends at the
  bucket of the sample with that rank (`PercentileFinds`), and the value of a
  bucket is below its samples by less than its width.
- `GateHoldsLimit`: `PositionWithinLimit`, for every width.
  `ExactMagnitude` is the argument: within the limits no sum of `check`
  overflows, so it judges the position there will be.

What a recursive definition computes is proved without the library's induction
theorems, whose predicate is an operator the provers do not instantiate: the
predicate is given as the set of the numbers that satisfy it (`Induction`), and a recursive
function is the run of a step that is itself a function (`Recursion`,
`BoundedRecursion`, `DefinedRun`).

The inductive invariants were checked with TLC on the instances of the runs
before they were proved. The type invariants of `Session`, `SpscRing`, `ShmRing` and
`PosixShm` are proved with them.

Only model-checked:

- Liveness (`SilentPeerIsDropped`, `RecoveryCompletes`, `ConsumerDrains`,
  `SubmitReturns`, `StopsAfterSignal`, `NextReturns`, `BothEnd`): fairness and
  ENABLED are beyond the prover.
- `DamageIsSeen`, which depends on the streams: an assumption of
  `MCFrameDecoder` that TLC evaluates.
- The findings, which are counterexamples.

## Not modelled

- `config.hpp`: text to keys and values, without state. What the router reads
  from it is an input of `OrderRouter`, a key that does not parse included.
- `cpu.hpp`, `cpu.cpp`: one system call per function, no state of its own.
- The benchmarks: programs that measure the parts above.
- The byte layout of message bodies and the big-endian helpers of `wire.hpp`,
  and the counters of single causes of damage.
- Floating point: the mean of the histogram and the rank of a percentage.
- The figures the programs print.
