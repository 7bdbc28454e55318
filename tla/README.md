# Verification of the fragmentation and acknowledgement code

The repository evaluates how messages that do not fit one mix-network packet
can be fragmented. It holds a packet format whose fragments protect each other
(Scylla), an implementation of the Sphinx format it is compared with, a
discrete-event simulator of two acknowledgement strategies, and patches and
scripts for a testbed. These modules are TLA+ models of that code, TLC
configurations that check them on small instances, and TLAPS proofs.

## Inventory

| component | state | operations | interaction |
|---|---|---|---|
| event queues (`latency-sim/src/main.rs:88-149`) | a list of (time, item), sorted | insert, next, pop, retain | owned by nodes and users |
| simulation (`main.rs:175-446`) | clock, node queues, user queues, arrived fragments, first arrival times, stored originals, delivery records, counters | `step`: a node delivers, cancels or forwards; a user receives, sends, starts a message, times out | nodes insert into users' and nodes' queues; users into nodes' and their own |
| driver (`main.rs:456-627`) | the jobs of the parameter grid, a mutex (with its poisoning), a CSV writer with a buffer | spawn a job per point of the grid, run its simulation until `step` fails, write and flush its row of statistics | threads of a pool take the jobs and share the writer; each job has a simulation of its own |
| Scylla (`scylla/src/lib.rs`) | none (pure functions over packets) | create_onions, wrap, process, defrag, create_surb, unwrap_reply | a sender's wrap against each relay's process and the recipient's defrag |
| Sphinx (`sphinx-benchmarks/src`) | none (pure functions over packets) | key derivation, filler, routing information, MAC, payload layers, SURBs | a sender's construction against each relay's processing |
| testbed patch (`testbed.patch`) | outside code | drop in `forward_packet`, logging | none with the rest |
| benchmarks, examples, scripts, notebook | none | call the above, print | none |

Hard behaviours, in the order of their weight:

1. Retransmission. An attempt that was given up keeps packets and
   acknowledgements under way; they meet the state of the attempt that replaced
   it (stored originals, armed timeouts, arrived fragments). Losses, late
   acknowledgements, and ties between a timeout and an acknowledgement make the
   orders in which this happens.
2. Time. Insertion into the queues is the only thing that keeps the simulated
   clock monotonic, and `run` cannot tell an error from the end.
3. Layering. What a relay computes from a packet must be what the sender built
   for the next relay, for every path length; the paddings make it so.
4. Reassembly. The fragments of a Scylla packet are only readable together,
   in whatever order they come, and one may come twice.
5. Damage (of Sphinx packets). A relay deciphers a payload that changed on its way as if nothing
   had happened; what notices it, and where, differs for header, payload and
   length.
6. Shared output. Jobs panic, writes are refused in part, and the row of one
   job is in the buffer when another takes the lock.

What makes each component correct:

* queues: sorted, first in first out among equal times, nothing but the
  acknowledged timeout removed;
* simulation: nothing in the past, a timeout finds its original, one live
  attempt per unit of retransmission, an acknowledgement that cancels tells the
  truth, nothing undelivered is forgotten, the statistics are complete and
  count once;
* packet formats: constant size, each relay's MAC verifies, routing
  information and payload come out as they went in, reply blocks likewise;
  a damaged Sphinx packet is refused, at the place and with the error the code
  means it to be, without a panic;
* driver: rows are never mixed, a job that panics costs no row but its own,
  after a refused write nothing follows, and the program ends.

## Modules

| module | what it is |
|---|---|
| `EventQueue` | the time-ordered list: `Insert`, `InsertAll`, `Pop`, `Cancel`, and what "sorted" and "ahead of the clock" mean |
| `LatencySim` | `Simulation`: one action per arm of `step`'s two matches |
| `AckedTransfer` | the abstract specification: a message is pending until delivered and is delivered and settled in the end |
| `LatencyTransfer` | the refinement mapping from `LatencySim` to `AckedTransfer`, and the properties of the statistics |
| `MCLatencySim` | routes for TLC |
| `LatencySimProofs` | what the operations of `EventQueue` return and preserve, for every queue; types and order of the queues of `LatencySim`, inductively, and the theorems that follow |
| `TransferProofs` | the inductive invariant of the two retransmission strategies, and its theorems; every step of `LatencySim` is a step of `AckedTransfer` or none; the traffic counted; no message missing at the end, and one record of each if acknowledgements are prompt |
| `ExperimentRunner` | `main`: jobs, threads, mutex, CSV writer, and what goes wrong with them |
| `ExperimentRunnerProofs` | its inductive invariant and theorems |
| `MCExperimentRunner` | a grid of four jobs for TLC |
| `Blocks` | what the packet formats compute with: blocks, XOR, key streams, MACs, the wide-block cipher, group elements |
| `ScyllaOnion` | `wrap` and `process` of one Scylla onion |
| `Aont` | the all-or-nothing transform of a fragment set and its inverse |
| `ScyllaMessage` | `create_onions`, `defrag`, `create_surb`, `unwrap_reply`, with their refusals |
| `ScyllaNetwork` | senders, relays, recipients and the holders of reply blocks, in any order, with losses |
| `ScyllaChannel` | the properties of Scylla, and the mapping to `MessageChannel` |
| `SphinxRouting` | filler, padding, routing information and MACs, as built and as unwrapped |
| `SphinxHeader` | key derivation and blinding, parsing, `process` and `process_with_derived_keys` |
| `SphinxPayload` | padding, end marker and layers of the payload |
| `SphinxPacket` | packets and reply blocks composed of the two, and their conversion to bytes and back |
| `SphinxNetwork` | senders (also with a reused secret), relays that compute keys or recall them, reply blocks, losses, damage |
| `SphinxChannel` | the properties of Sphinx, and the mapping to `MessageChannel` |
| `BlockTheorems` | sequences of blocks given by their elements, XOR that undoes itself, induction over naturals |
| `ScyllaProofs` | one onion along its whole path, its payload, and the transform of a whole set, for every length of path, number of fragments and content |
| `ScyllaNetworkProofs` | the inductive invariants of `ScyllaNetwork`, the properties of `ScyllaChannel` that follow, and the refinement of `MessageChannel` |
| `SphinxProofs` | a packet along its whole route, for every length of route and every plaintext |
| `SphinxNetworkProofs` | the inductive invariants of `SphinxNetwork`, the properties of `SphinxChannel` that follow, and the refinement of `MessageChannel` |
| `MessageChannel` | the abstract specification of both: what is received is what was sent, once, or something was lost |
| `MCScylla`, `MCSphinx` | nodes, routes and requests for TLC |

Operators commented as *mutation* are not the code's: each is a definition with
one plausible mistake, kept in front of the right one to show that a property
notices the difference.

### How LatencySim follows the code

One step is one call of `Simulation::step`. `NodeTurn` and `UserTurn` are
`Simulation::next` with the test for the past: a node moves only when it is due
strictly before every user (`main.rs:232`), and among nodes or users due
together any may move, because `min_by_key` then depends on the order of a hash
map. The actions are the arms: `NodeMessage`, `NodeAck`, `NodeForward`,
`ReceiveMessage`, `EgressPacket`, `StartSend`, `ResendFragment`,
`ResendMessage`. `Stop` is the failed `step` after which `run` leaves its loop.

* A packet's nesting is a record: `hops` lists destination and delay of each
  layer from the outside in, `content` is the innermost message or
  acknowledgement. Forwarding takes the tail of `hops`.
* `fragments` and `t_first` are maps from fragment sets; `fragments` is a set
  of pairs. `original_messages` keeps what `User::original_messages` keeps,
  also after the timeout was cancelled.
* `delivery_times` and `first_to_last` are pushed together and are one
  sequence of records, which also names the fragment set; the code does not
  read it before the end.
* `build_packet` draws hops and delays at random: each draw is a choice from
  `Routes`. The draw against `drop_chance` is a choice that only the sender
  has, since the recipient's chance is 0.
* `ack_multiplier` is a fraction, and the truncation of the product is an
  integer division.
* `origin` and `drops` are auxiliary: the message a fragment set descends from,
  and the losses so far.

Two bounds keep the state space finite. `MaxDrops` bounds the losses. `SlowIds`
bounds the ids whose hops are drawn from all of `Routes`; later ids are drawn
from `PromptRoutes`. Without them a timeout may fire before the acknowledgement
for ever, and an endless simulation has infinitely many states. The proofs hold
for every value of both.

### How the packet formats follow the code

A packet is a sequence of blocks, a block being a field of fixed size. `Blocks`
represents it symbolically: the value of a block is the set of the atoms whose
exclusive or it is (what the sender wrote, a piece of a key stream, a MAC), XOR
is symmetric difference, and the zero field is the empty set. Everything the
formats depend on (that padding, filler and key streams of all hops cancel at
the right positions, in the right order) is then computed, not assumed; that
two different computations give different values is the one idealisation, and
stands for the primitives being sound. The ciphers, MACs and hashes themselves
come from libraries.

* Sizes. A Scylla hop takes three blocks (flag, address, MAC) and the last hop
  two, a Sphinx hop four (flag, address, delay, MAC) and the last three: as in
  the code, the last layer is shorter than the others, so no offset is a
  multiple of one step by luck. Payload bytes of Sphinx are blocks of their own,
  because the end marker is searched among them.
* Group elements are the sets of scalars they were multiplied with, since the
  order does not matter; a secret is named after what derives it.
* The Lioness layers on a payload are a sequence. Encrypting and decrypting
  under one key undo each other in either order (reply blocks need both).
* Random draws are named by a seed, the call that makes them.
* `PacketToBytes`, `SurbToBytes` and their inverses place the fields; what
  travels and what a holder of a reply block keeps are these bytes.
* The networks are what the tests do with the packets, in every order: a sender
  calls the library, a packet lies at a node, the node processes it and hands
  the result on by the address in it. That the address names a node is part of
  the property (`PeelsAsWrapped`, `PeelsAsBuilt`). Losing a packet is the
  network's, not the code's.
* Panics. A route that is empty or too long makes `build_packet` panic in an
  assertion or a length computation; a reply block returns an error for an empty
  one. Requests of this kind have the outcome `panic`, and nothing is sent.
  `RefusedForAReason` says that no node panics, whatever it is given.
* Damage. `ChangeHeader` changes a block of the header, `ChangePayload` the
  payload, `CutShort` takes its end away. A changed payload is one with a layer
  on it that nobody takes off, since the wide-block cipher turns any change into
  one of everything. A change of the secret is one of the group element. That is
  an idealisation: of the 32 bytes of the secret the curve ignores the top bit,
  and a packet of which only that bit changed is delivered as if it had not.
* In `ScyllaNetwork`, a recipient keeps the fragments of a set sorted by index
  and calls `defrag` whenever one arrives, as the callers of `defrag` must. The
  network may deliver the onions of `Repeated` sets twice; nothing in the code
  notices a repetition, so the recipient keeps both.
* In `SphinxNetwork`, a node may remember the routing keys of a packet it
  processed, and with a relayed packet the secret it passed on
  (`ProcessedPacket::shared_secret`), and use them on a later packet with the
  same secret in its header (`process_with_derived_keys`). Where it keeps them
  is outside the repository; `caches` keeps everything.

### How ExperimentRunner follows the code

`Spawn` is one pass of the loops that spawn a job (`main.rs:462-510` and the
second grid after it), by the thread that runs the body of the scope; `Take` is a thread
of the pool that begins the oldest job spawned. `Simulate` is `run` as a whole,
which fails only with a panic (`SimulationPanics`, of the jobs in `Broken`): a
simulation shares nothing with another. `Lock` waits for the mutex, and
`LockPanics` is the `unwrap` of a poisoned one. `WriteField` puts a field into
the writer's buffer, `Flush` hands the buffer to the output, and in
`FlushPanics` the output refuses after having taken any part of it; the writer
keeps its buffer then. `End` is the end of the scope, which passes a panic on,
and the drop of the writer, which flushes once more and ignores an error.

The parameters of a job and the numbers in a row are left out: a row is a
sequence of `Fields` cells that name their job.

## Runs

The runs of the simulator send two messages of two fragments over two nodes and two hops, so
that every retransmission meets another fragment of its set and another
message. `LossyRoutes` holds a route of total delay 1 and one of total delay 4;
the timeout is 3/2 of the way there plus 2, which is 3 or 8. The way there and
back takes 2 or 5 from a fast way there, and 5 or 8 from a slow one, so an
acknowledgement comes before its timeout, at the same time (slow both ways: the
timeout goes first then), or after it (fast there, slow back).

| run | shows |
|---|---|
| `per_fragment_lossy` | `TypeOK`, `NoEventInThePast`, `TimeoutUnwraps`, `OneLiveAttempt`, `AckMeansArrived`, `FragmentNotForgotten`, `PacketsCounted`, `MeasuredDelays` |
| `whole_message_lossy` | `TimeoutUnwraps`, `OneLiveAttempt`, `AckMeansArrived`, `PacketsCounted`, `MeasuredDelays` for the other strategy |
| `per_fragment_transfer`, `whole_message_transfer` | the same instances under fairness: `ImplementsTransfer`, `EndsComplete` |
| `per_fragment_prompt`, `whole_message_prompt` | `DeliveredOnce`, with three losses and routes (one without any delay, so that most events tie) whose way there and back always ends before the timeout, by one tick at the least |
| `late_duplicate` | `DeliveredOnce` violated by the lossy instance: see Findings |
| `experiment_runner` | three threads, four jobs, one that panics, two refused writes: `RowsNeverMixed`, `CompleteUnlessRefused`, `FailureIsFinal`, and under fairness `Ends` |
| `scylla` | two sets and a reply block: `TypeOK`, `PeelsAsWrapped`, `OnlyForItsNode`, `NothingRecognisable`, and under fairness `ImplementsChannel` |
| `scylla_orders` | `AllOrNothing`, `MaskUsedOnce` and `ImplementsChannel` for three and four fragments in every order of arrival, any of which may come twice |
| `sphinx` | two packets and a reply block, with reused secrets and recalled keys: `TypeOK`, `PeelsAsBuilt`, `OnlyForItsNode`, `RecallAgrees`, `RefusedForAReason`, `NothingRecognisable`, and under fairness `ImplementsChannel` |
| `sphinx_damage` | two packets of one secret, each damaged once, anywhere on its way: `RefusedForAReason`, `ImplementsChannel` |

`TypeOK` allows signed numbers in the delivery records on purpose: that neither
difference of unsigned times underflows is `MeasuredDelays`.
`FragmentNotForgotten` is a property of the per-fragment strategy; per message,
what is kept is the message (`ImplementsTransfer`). The types and the order of
the queues do not depend on the strategy and are checked in one run; the proofs
are for both.

Bounds. Four ids (`SlowIds = 4`) cover the first attempt of all four fragments,
so any of them may be slow either way; two losses suffice to lose a packet and
its retransmission or two packets of one set. The prompt instances allow three
losses; their `AckAddition` is 2 per fragment and 3 per message (where the timeout
of the fastest packet must outlast the way of any other of its set), the least for
which no acknowledgement ties with its timeout. The mutant of `DeliveredOnce` is
one tick less, so that a tie, which the timeout wins, is all that goes wrong.

Bounds of the packet formats. Three nodes; paths of one, two and three hops
under a maximum of three, so that there is a header without filler, one without
padding, and one with both; a path that visits a node twice; sets of no, one,
two, three and four fragments, the long ones sent alone, with all the orders
and repetitions of their fragments. Beside the requests that are accepted there
is one for every refusal (number of paths, size of a later fragment, paths that end
at different nodes; plaintext one byte too long, reply block without a route or
with too few delays) and for every panic (an empty route, one longer than the
maximum). The Sphinx plaintexts are empty, or consist of end
markers, or of zeros; the reused secret is used for routes of three, two
and one hops that share their first node, so that a node remembers keys with and
without a secret to pass on. Packets do not interact except through the
recipient's fragments and the remembered keys, so two of them, and a reply, meet
in every way they can. Damage reaches the first and the last block of the
header and two between (the secret, the MAC, the first and the last block of the
routing information); a cut leaves a payload too short to be parsed, one that
is parsed and too short for the cipher, or one long enough to travel on. Both
damaged packets share a secret, so that what a node remembers of one meets the
other.

Bounds of the runner. Rows of two fields are the shortest that can be mixed;
with four jobs for three threads, a thread takes a second job, also after a
panic. The two refused writes are that of a job and that of the end; after the
first, no job writes.

Fairness. `FairSpec` of `LatencySim` adds WF on `Step`: `run` calls `step` until it fails
(`main.rs:601`), so a step that can be taken is taken. No fairness is assumed
of any single action. Termination also needs the two bounds, which stand for
"losses and late acknowledgements do not go on for ever".

The networks assume that a node which has a packet processes it, as the loops
of the tests do. It is written as `[]<>` of "nothing to process" or `[]<>` of "a
packet was processed", which is weak fairness of the processing actions spelt
out: the enabling condition and the effect are evaluated once, where ENABLED
would compute every packet again. Senders are under no fairness. `MessageChannel`
states its liveness as a leads-to (`Settles`) accordingly.

For `ExperimentRunner`, `FairSpec` has WF of `Spawn`, of each thread's `Work`
and of `End`: threads run, every simulation ends (`EndsComplete`), and no write
blocks for ever. `Work(w)` of a thread that waits for the mutex is enabled only
while it is free, so nothing promises the thread the mutex at any one time; it
gets it because the other jobs come to an end.

The networks and the runner stop when all has been sent and processed (`CHECK_DEADLOCK FALSE`).

## Findings

`late_duplicate`: `ReceiveMessage` records a delivery whenever a fragment
arrives while its set is complete (`main.rs:287`), so a duplicate that arrives
later is a second record of the same message, with a longer time. ARTIFACT-
APPENDIX.md:163-164 describes the records as the time needed to successfully
transmit a message. It takes an acknowledgement at its timeout or later. With
the shipped configuration (three hops of mean delay 50, `ack_addition` 1500) an
acknowledgement is that late only in the far tail of the distribution, so the
published figures are not in question; a smaller `ack_addition` would bias
them.

## Proofs

Every proof is for all values of the constants, under the assumptions that the
modules state with ASSUME: the strategy is one of two, counts are naturals and
divisors are not 0, sender and recipient differ, and routes are sequences of
hops that are not empty; the sizes of a Sphinx packet have room for its routes;
the grid of the driver is finite. One theorem, `DeliveredOnceIfPrompt`, has a
hypothesis of its own.

**Queues.** `LatencySimProofs` begins with where the partition point lies, that
`InsertAll` keeps a queue sorted, inserts exactly the new items and nothing
before their time, that `Pop` returns a least entry, that `Cancel` keeps the
order and removes exactly the cancelled item, and which order of two items each
operation keeps. `Cancel` is written with the rank of a position among those
kept, not recursively, so that this can be proved. `TotalDelay` is a recursive
function on the positions of a route; that it exists, is a natural, and is the
first hop's delay and the total of the rest (`TotalDelaySum`, `LastHop`) is
proved by induction downward from the end of the route.

**Time.** It then proves `TypeOK` and `NoEventInThePast`. Neither is
inductive alone: an insertion keeps a queue sorted only if it was, and a popped
front is the least time only of a sorted queue, while sortedness is about times
that must be numbers. `SimInv` is their conjunction.

**Retransmission.** `TransferProofs` proves `TimeoutUnwraps`,
`OneLiveAttempt`, `FragmentNotForgotten`, `AckMeansArrived` and
`MeasuredDelays`. None is inductive. `RetransmissionInv` adds to `SimInv`

* `MessagesInv`: every message anywhere (in a packet at a node, in a queue,
  stored) goes from the sender to the recipient, belongs to a known set, is
  stamped with the time its message was first sent, carries the acknowledgement
  of its own key, and an id names one fragment of one set;
* `RolesInv`: the sender receives nothing, the recipient sends and stores
  nothing, acknowledgements go to the sender and carry keys already given out;
* `OriginInv`: the sets are those counted, each stems from one not after it,
  and the first arrival of a set lies between its sending and the clock;
* `PendingInv`: an armed timeout has its original under its own key; of two
  events that stand for the same unit none follows the other in the sender's
  queue, save that the packets of one set stand together and its timeout comes
  after them; packets on their way out are due by now. This last clause is
  where the order of equal times matters: an insertion at the clock goes behind
  the other packets of its set and before every timeout armed later;
* `AckInv`: an acknowledgement under way speaks of what the recipient has, as
  long as anything pending could still be cancelled by it;
* `NotForgottenInv`: a fragment that has not arrived is pending.

One lemma per action shows that it is kept, and the five theorems follow.

**Refinement.** It also proves `TransferRefined`, that `LatencySim`
implements `AckedTransfer` without its fairness, and `NothingLost` for it. A
step that ends a transmission must be shown to come after the delivery was
recorded, and a step that records a delivery to find the message pending.
`TransferInv` adds to `RetransmissionInv` what the sender has not begun (the
events not yet sent stand first in its queue, are due, and are as many as sets
are missing to `NumSends`, which keeps the roots below it), that a set which is
there as a whole was recorded, and, per message, that a stored original has its
timeout armed or its set recorded. From these, a message that was sent is
pending or recorded (`NoneLost`); hence if a step removes the last event that
stands for a message, its delivery is recorded, and the step is a `Settle`.

**Counting.** `PacketsCounted` equates a counter with the sizes of sets of
places: positions of the two users' queues, and pairs of a node and a position in
its queue. What `Pop`, `InsertAll` and `Cancel` do to the number of places that
hold a given kind of item is proved once by bijections between the places before
and after (`CountPop`, `CountInsertAll`, `CountCancel`), and for all nodes
together by exchanging the places of one (`TransitReplaced`). `CountingInv` is
`RetransmissionInv`, which says what kind of item each queue can hold, with the
equation itself; each action then moves a packet from one of its places to the
next, takes it in or out, or queues new ids (`BalanceMoved`, `BalanceLeft`,
`BalanceReceived`, `BalanceQueued`).

**One record per message.** `DeliveredOnce` is false of the code in general: the
run `late_duplicate` shows a timeout that overtakes its acknowledgement.
`DeliveredOnceIfPrompt` proves it from `Prompt`: for every packet the way there
and the way of its acknowledgement take less time together than its timeout; per
message, than the timeout of any packet of the set, since the one that leaves
first arms it for all. The inequality is strict because at equal times a user
has its turn before a node. TLC's instances `per_fragment_prompt` and
`whole_message_prompt` satisfy `Prompt`, the lossy ones do not. Losses stay
arbitrary. `PromptInv` adds to `TransferInv`

* `InTimeInv`, `QueuedInv`: whatever is under way, there or back, has a timeout
  armed under its key that is due after the time its acknowledgement can be
  back; per message also what is still queued, once the first packet of its set
  has left;
* `CopiesInv`, `AcksInv`: of the places in the sender's queue, at the nodes, in
  the recipient's queue and among what it has, a fragment is in at most one, and
  an acknowledgement is at a node at most once (a count of places, as above);
* `AckedInv`: a timeout whose fragment arrived, or whose set was recorded, has
  its acknowledgement under way;
* `ActiveInv`: of the sets that are recorded or still transmitted, no two stem
  from one message;
* `CompleteInv`: a recorded set stays complete and is recorded once.

A timeout that fires then finds nothing under way that it is for, because that
would have an armed timeout due later, and a unit has only one (`PendingInv`); so
no acknowledgement is under way either, and by `AckedInv` what it is for did not
arrive (`TimeoutFires`). Hence the fragment sent again is nowhere else
(`FragmentGone`), or the set given up was not recorded and no other of its
message is active (`ResendMessageOnTime`).

**Complete when it ends.** `CompleteWhenFinished`: the loop of `run` ends
when every queue is empty, and then every message has a delivery record, with
any losses and delays. This is what of `EndsComplete` is not liveness (and what
the runs of `EndsComplete` check on their instances: a simulation that has
finished stays so). From
`TransferInv`, what was sent and is no longer pending was recorded; what remains
to be shown is that everything was sent. `AllSentInv` counts: the sets given out
and the messages still queued make up at least `NumSends`, and the first
`NumSends` sets are those of the messages, since a retransmission takes a set
only when no message stands in the queue before it (`SentBefore`). With `Prompt`
there are then exactly `NumSends` records (`OneRecordEachIfPrompt`).

**Driver.** `ExperimentRunnerProofs` proves `TypeOK`, `RowsNeverMixed`,
`FailureIsFinal` and `CompleteUnlessRefused`. The first three are from
`RunnerInv`: the one thread in its critical section holds the lock, the buffer
holds whole rows and then the part of its row that this thread has written, and
the output is cut inside a row only after a refused write. The last needs two
more: no two threads have the same job, and only a sound job is ever written
(`JobsInv`); and as long as no write was refused, only broken jobs panic, and
what was written, flushed or not, is the header, one row for each job that is
done, and the cells of the row being written (`WrittenInv`).

**Sphinx.** `BlockTheorems` gives XOR on sequences of blocks and the induction
over sets of naturals that the others use; `SphinxProofs` is about one packet:
`RouteUnwraps` (by downward induction along the route: the routing information
built for a node ends with the filler of the nodes before it, so that
deciphering and padding yields that built for the next), `KeysAgree` (blinding
gives each relay the sender's secret), `RouteProcesses`, `LayersComeOff`,
`MessageRecovered`, and from them `PacketDelivered`: for every length of route
and every plaintext that fits, the relays forward to each other in order and the
last one recovers the plaintext. The headers are recursive functions over
naturals, shown to exist, and not RECURSIVE operators.
`SphinxNetworkProofs` proves `TypeOK`, `PeelsAsBuilt`, `OnlyForItsNode` and
`RecallAgrees` for any set of requests, losses, damages and orders. Its
`NetworkInv` says that the header of every packet under way is the one meant for
the node it is at, or that one with a block changed, and that every
cached key is the one the node would compute.

What happens to a payload, and what has become of what was sent, is `JourneyInv`.
It has four parts: a packet under way is the only one of its item, comes from a
request that was accepted or a reply block that was used, and carries the
payload with as many layers left as nodes ahead of it or, once it was changed or
cut, one whose last layer no node takes off (`PacketsAlong`); what a node remembers was left there by
something that was sent, which is past that node, and without a blinded secret
only at the end of a route (`CachesTraced`); what was received, lost or refused
was sent (`EndsSent`); and every refusal has its reason (`RefusalsReasoned`).
`RefusedForAReason` is about the last alone, and is not inductive: that a packet
whose payload was changed will only be refused after the last node follows from
what it carries, and that a remembered last hop is another packet's follows from
where each cached key came from. The proof first shows that every step has one
of few effects (`StepHasEffect`: an item is accepted or not, passes on, arrives,
is refused, is lost, is damaged), which do not mention keys or bytes, and then
that each effect keeps the four parts. `JourneySafe` and
`RefusedForAReasonAlways` are the theorems; `ChannelRefined` is the refinement of
`MessageChannel` without its liveness, where an effect is a step or a stutter.

The attempt to prove `RefusedForAReason` corrected it. The model's runs had only
cut payloads so short that the next node refuses them; one that is still longer
than `PAYLOAD_OVERHEAD_SIZE` and a cipher block is deciphered by every relay and
refused only when the plaintext is recovered. The property now says so of the
length that the refused packet had, and the runs have such a cut.

`NothingRecognisable` compares what a relay gets with what it passes on. That a
packet moves by one node only in a relay, which takes one layer off its header
and its payload, is one of the effects (`Relaying`); the rest is about one
packet. A payload with a layer on it reads as noise that depends on all of its
layers, and a relay changes their number (`PayloadReadsAnew`). For the header
(`NothingStays`), each block of the routing information is told by the pieces of
key streams it contains. What a relay got is masked by its own stream, block by
block in its place, except for the filler at the end, which has none of that
stream; what it passes on has pieces of that stream in the filler only, and there
those of other places (`OwnStream`, from `OutsideFiller` and `InFiller` by
induction along the route). Hence no block of one is, in any place, in the other
(`BlocksApart`). The secrets differ by the
blinding factor that each node adds, so the derived keys, streams and MACs do,
even if a node comes twice on the route (`KeysApart`).

**Scylla, one onion and one set.** `ScyllaProofs` is about the pure functions.
`OnionPeels`: for every path up to the maximum, `process` at each node of the
path peels off what `wrap` put on, in the order of the path, and every other
node finds a wrong MAC. The argument is that of Sphinx, downward along the path,
but a hop takes three blocks and the last layer two, so the filler of the nodes
before is followed block by block through two different offsets.
`LayersComeOff` is the wide-block cipher on fragments (layers put on by the
sender) and on replies (layers that were never put on). `NothingStays` and
`PayloadsUnlike` compare what enters and leaves a relay. For the transform,
`TransformInverted` and `WholeSetRead` say that a whole set is read as it was
written, `OnlyWholeSets` that `defrag` accepts nothing else made of its
fragments, provided that their contents differ: the zeros in front appear only
if the random value that is recovered is the one the sender drew. Since that
value travels masked with one hash of all transformed fragments one after the
other (`RMask`), what the recipient hashes must be the same blocks in the same
order, which is the whole set, each fragment once and in its place. `MaskPiecesApart` says that no piece
of the mask is used twice.

**Scylla, the network.** `ScyllaNetworkProofs` proves `TypeOK`,
`PeelsAsWrapped`, `OnlyForItsNode`, `MaskUsedOnce`, `AllOrNothing` and
`NothingRecognisable` for any nodes, requests, reply blocks, losses, repetitions
and orders. None of them is inductive, since a state of their kind says nothing of what
an onion will be at its next node. `ScyllaInv` does: every onion under way is
the one `wrap` meant for the node it is at (`PacketsInv`), of a call that was
accepted or a reply block that was used; a node keeps fragments of a set only if
the set ends there, genuine ones and sorted (`KeptInv`); and what was read is
what was sent, of complete sets (`ReadInv`). That sorting keeps equal
indexes in the order they came in is part of the definition (`Sorted` places
each fragment by its rank), and that a fragment is put in its place among sorted
ones is a lemma. `NothingRecognisable` has one hypothesis: replies are not empty
(`TextSize # 0`), because the cipher leaves an empty payload as it is.

`ChannelRefined` is the refinement of `MessageChannel` without its liveness. It
needs in addition that what is received was under way, that is, that no onion of
it was lost before. `WayInv` says what is needed: there is one onion per fragment
or reply (`OneOfEach`); a fragment that arrived and is still under way is where
it may come again (`KeptOnlyAtEnd`), so that losing it is losing nothing; a reply
that was read or lost is no longer under way (`RepliesGone`); and of a set that
lost something, some fragment neither arrived nor is under way (`SetsBroken`),
so that it will never be complete. A step that reads a message must then find
its set neither lost nor spoiled, the latter by counting: the set is complete
with as many fragments as it has indexes.

Assumed of Scylla: a payload has a size, a path has from one to `MaxPathLength`
nodes (`wrap` panics for a longer one when it computes the padding), reply
paths are paths, a set id is not a reply id, and `None` is no value of the
program. Assumed of Sphinx: routes are sequences of nodes and plaintexts of
bytes, a cut is shorter than the payload, no packet is also a reply block, the
secret used again is not the fresh secret of any (fresh secrets are named by the
packet that draws them), and `None` is no value of the program.

Only model-checked: liveness (`EndsComplete`, `Settles`, `Ends` and the fairness
parts of the refinements), because its proofs need `ENABLED`, which the prover
does not support. Every invariant of the runs is proved, `DeliveredOnce` from
its hypothesis.

## Plan

1. (done) queues, simulation, abstract transfer, and the theorems on time.
2. (done) packet formats: Scylla with its transform, reassembly and reply
   blocks; Sphinx with payload, reply blocks, conversion to bytes, and recalled
   keys; both refine one channel.
3. (done) the invariants of retransmission.
4. (done) the driver, with panics and refused writes.
5. (done) repeated fragments, changed and cut packets, and the panics that
   stand for checks.
6. (done) Sphinx for every route: delivery of one packet, what relays change
   of it, the invariants of the network, and the refinement of the channel.
7. (done) The same for Scylla, its transform, the invariants of its network, and
   the refinement of the channel.
8. (done) `DeliveredOnce`, from the hypothesis that acknowledgements come back
   before their timeouts; that no message is missing when the simulation ends.

## Not modelled

Of the packet formats: the cryptographic primitives themselves, the byte layout
inside a field, and version bytes (written and returned, compared with nothing).
Packets that no sender built are modelled as a Sphinx packet at a node it was not
made for, with a block changed, or cut; not as arbitrary bytes. A sender that
writes a routing flag of its own and computes the MAC over it is left out, and
with it the `unwrap` of `process_with_derived_keys` that such a flag would reach.
Scylla onions are lost, repeated and reordered but not damaged. A payload key is
one block, so the check of `SURB::from_bytes` for a part of a key
(`surb/mod.rs:136`) has nothing to refuse and is left out.

Of the simulator: the random distributions, the arithmetic of the statistics in
`f32` (which only reads what a run left behind), the rounding of the timeout's
`f32` product (the model takes the integer part of the exact one), the parsing
of arguments, and sums that exceed 64 bits. The simulations of the runner panic
without a cause: of those in `main.rs`, the `unwrap` of a stored original and the
quantile of an empty list, `TimeoutsUnwrap` and `CompleteWhenFinished` show that they do not
occur.

Benchmarks, examples, scripts and the notebook only call the rest and measure
or print. The CPU-time measurement reads a clock of the operating system. The
testbed patch changes a code base that is not here.
