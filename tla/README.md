# A TLA+ model of the exchange

This directory holds TLA+ specifications of the stock exchange in `src/`, the
TLC configurations that check them on small instances, and TLAPS proofs of the
results that hold for every instance.

## The system

The exchange is three threads of one process, joined by single-producer
single-consumer rings, and a TCP stack on DPDK below them.

    client --TCP--> inbound thread --inbound_ring--> matching thread
                         |                             |        |
                       notes_                    outbound_ring  market data ring
                         |                             |        |
    client <--TCP-- outbound thread <------------------+        (no reader yet)

* **Inbound thread** (`server.cpp`, `order_entry.cpp`, `validation.hpp`,
  `soupbintcp_proto.hpp`): accepts connections, reassembles SoupBinTCP packets,
  logs clients in, validates OUCH messages, assigns order ids, and pushes a note
  (for the outbound thread) and then a request (for the engine).
* **Matching thread** (`engine.cpp`, `orderbook.cpp`, `order_pool.hpp`,
  `price_level_queue.hpp`): takes requests one at a time, with one read ahead
  for prefetching, and applies them to the book. Every step emits engine events
  and publishes ITCH messages.
* **Outbound thread** (`server.cpp`, `ouch_responder.cpp`, `session_log.hpp`):
  turns notes and events into OUCH messages, logs them per session for replay,
  and sends what the TCP windows allow. It never waits.
* **Ring** (`ring_buffer.hpp`): the channel between all of them.
* **Load generator** (`src/client`): clients that log in, keep a number of
  orders in flight and reconnect.

## Modules

| Part | Module | What its state and actions are |
|---|---|---|
| ring | `RingBuffer` | the two indices, each side's cached copy of the other, the slots; `push()` and `pop()` split at every access to shared memory |
| | `BoundedFifo` | the abstract queue a ring implements |
| requests, events | `EngineTypes` | what the engine takes and what it sends, as sets |
| book | `Orderbook` | `orders_`, the price levels, cached best prices, level counters, free slots; one action per path of `enter`, `cancel`, `replace`, one per iteration of `match()`, one per event that leaves |
| feed | `MarketData` | the book with an external ITCH subscriber |
| validation | `Validation` | `validation.hpp` as operators |
| order entry | `OrderEntry` | `translate()`: a message and the state give a new state, a note, a request |
| responder | `OuchResponder` | `on_note()`, `on_event()`: an input and `orders_` give new `orders_` and a response |
| | `GatewayEnds` | the two of them, and a client that adds up its messages |
| threads | `Gateway` | the three threads around `OrderEntry`, `Orderbook` and `OuchResponder`, with the rings as bounded queues |
| session log | `SessionLog` | `session_log.hpp` as operators on a record: the ring of bytes, the index, the held range |
| | `SessionReplay` | one log, packets of mixed lengths and one reader at a time, as the server uses it |
| level queue, pool | `LevelLists` | the arena, the stack of free slots, the lists through the orders; `rest()`, and `unlink()` with `release()` |
| | `PriceLevels` | what they implement: a sequence per level and a number of free slots |
| packets | `Reassembly` | `on_data_()` and `parse_soup_packet()` on every stream of bytes and every way to cut it |
| start and stop | `Lifecycle` | the main thread, the three threads, the two stop flags, rings as numbers of items |
| load generator | `LoadGenerator` | one client's `ClientState`; one action per handler of the event loop, and a few for what the exchange does for one session; network external |
| sessions | `Sessions` | connections and sessions as both server threads keep them; one action per event, packet, time-out, note, flush and heartbeat, and for the stop of the server; TCP stack and reader external |
| codecs | `WireCodec` | the readers and writers of fields, as operators |
| | `MessageLayouts` | every message of OUCH, ITCH and SoupBinTCP as the sequence of its fields |
| | `Codecs` | one message on its way through encoder, packet or frame, and decoder; the loop over the optional fields one step a turn |

`MC*` modules hold what only TLC needs (symmetry, message sets, constraints).
`RingBufferProofs`, `LevelListsProofs`, `SessionLogProofs`, `OrderbookProofs`,
`GatewayRequests` and `GatewayProofs` hold the theorems; `GatewayLemmas` and
`GatewayAnswers` the lemmas about the gateway. `EngineContract` has the terms in which
the proofs about the exchange use those about its engine.

**RingBuffer.** A data race on a slot would be undefined behaviour, so the write
and the read of a slot are steps of their own, and `NoSlotRace` says that they
are never enabled on one slot at once. The release stores and acquire loads of
the code make the index updates ordinary atomic steps. Variables of `BoundedFifo`
are functions of the slots and indices: the queue is the occupied slots in order.

**Orderbook.** Only the matching thread runs the book. A handler is one action up
to the first point at which it can be held up, which is `emit()` waiting for room
in the outbound ring. What a step sends waits in `out` in program order, and the
thread continues when `out` is empty. Bids and asks are two values of an index.
A price level is the sequence of its order ids and the pool its number of free
slots; `LevelListsProofs` proves that the lists and the pool implement this. In
`Orderbook` alone a request may reuse the id of a dead order, which the gateway
never does: the book is correct for more inputs than it gets. Latency stamps and `answers_request` are
left out: they decide only what is measured. `prefetch()` changes no state.

**Gateway.** `receive` is `handle_ouch_()` up to its first push; `push_note_` and
`push_request` wait for room. `take`, `execute`, `matching`, `push_event` and
`advance` are the loop of `handleMatching()` with its one request read ahead;
`drain_notes`, `begin_batch`, `take_event`, `respond` and `end_batch` that of
`outbound_()`. Ring operations are atomic because `RingBuffer` implements
`BoundedFifo`. Sessions are left out: every client is logged in, and a response
is delivered when it is sent. `view` is external: it is what a client that adds
up its messages knows. The fields of a message that only have to be at their
default are abstracted to whether they are.

**Sessions.** The two threads of `server.cpp` share `notes_` and `retained_from_`
and otherwise keep their own view of a connection (`connections`, `conns`) and of
a session (`connected`, `sessions`). An inbound action is the handling of one TCP
event, packet or expired time-out, with the note it pushes. There is one exception:
a login that passes its tests pushes its note in a step of its own (`login_pushes`),
because the log may wrap between the test and the note. For the same reason the
outbound thread pops an event and finds no more notes in one step (`drained`) and
answers in the next (`on_event`): a login may be tested and noted between the two, and
the answer then drops what it asks for, so that `accept_login_()` turns it away. The
outbound operations are functions of the thread's state that the actions compose in
the order of the code. The store to `retained_from_` is part of the step that changes
the log: the inbound thread that reads it earlier reads what it would have read
before the step. The engine is reduced to the sessions that may be answered
(`trading`); `Gateway` has the rest. The TCP stack is external: it reports the end
of a connection once, `send()` takes a prefix of what it is offered, and a slot is
given to a new connection, with the next generation, when the old one is over, the
inbound thread was told and the outbound thread has called `close()`. The reader
at the other end (`Read`) is external too: it checks that what arrives is a
sequence of whole packets, numbered without a gap from the number in Login
Accepted. What the reader of a connection that cannot be sent to any more has read is
forgotten (`Heard`), unless it is already wrong: nothing follows it. Clocks are abstracted: a time-out or a heartbeat may be due at any time.
Latency samples are left out. `stop` and `leave` are the end: from `stop` on a note
that finds its ring full is thrown away, and the outbound thread leaves its loop
whatever is still in the rings, with a `close()` for each connection it has open. A
lost note may be one that a promise to clients rests on (with the `DISCONNECTED` of
an old connection lost, a new login meets it in its session), so the invariants
about sessions and streams hold until `stop`; that nothing is closed twice, and that
everyone the outbound thread has answered is closed when it has left, hold to the end.

**SessionLog.** Offsets are absolute, as in the code; a byte is named by its packet
and its place in it, so that an overwritten byte is told from the original. The
loop that drops packets is the choice of the first packet that can stay.

**LevelLists.** `rest()` and `unlink()` change the memory of the book and nothing
else changes it, so they are its only actions, with `release()` part of the second
because every caller calls both. The order a level holds is read by following the
links (`Chain`). `PriceLevelQueue::pop()` is left out: the book never calls it.

**Reassembly.** The bytes of a stream take three values, so that every stream of
nine bytes can be tried in every segmentation; the limit on a packet is 4 instead
of 512. What a packet does is reduced to whether input is taken after it, which a
type decides here; `Sessions` has the rest. Length fields are two digits of the
same base, most significant first. `filled` is how far the copies of a call went into
the buffer, also if the call empties it again.

**Lifecycle.** Nothing depends on what is in a ring, so a ring is the number of its
items, and a request causes any number of events up to `MaxEvents`. A flag is read
where the code reads it: by the inbound thread before a burst, and when a ring is
full; by the outbound thread once per batch; by the matching thread once per
request. The main thread starts the server and then the engine, waits for `stop_`,
stops and joins the server, and joins the matching thread in the destructor of the
engine. The FINs that the outbound thread sends at its end are `leave` of `Sessions`.

**LoadGenerator.** The event loop runs one handler at a time, so each handler is an
action, with the `flushWrite()` or `buildBatch()` it ends in. A message is the unit
of the buffers: the part of one that has been sent or received waits for the rest,
so cutting it changes nothing but when it arrives. `send()` takes any part of a
batch and then blocks, or fails if the connection is gone. The model is of the
configuration in the repository, without a rate limit. A batch is any sequence of
kinds that the factory may roll. The exchange is `server.cpp` for one session, in
fewer steps than `Gateway` and `Sessions` have: the inbound thread takes messages, the
outbound thread logs one answer to each Enter, also after the connection is gone,
refusals of the gateway ahead of what the engine has yet to answer, and sends the log
from the number in the login on. Its log drops nothing, and it sees the end of a
connection before the next one; it may refuse any login.

**Codecs.** A message is its name, the values of its fixed fields, and the optional
fields that are present with theirs. The layouts are data: a field has a kind (number,
raw bytes, decimal text) and a width. Encoding and decoding are done byte by byte, so
that sizes, byte order, padding and the two lengths of an appendage are what the code
makes them. Numbers take values of up to two bytes, a decimal field has three digits
and a limit of 256 instead of twenty and 2^64. The bytes of another program are
messages cut short or too long, appendages of any bytes, and any text in a number. Of
the headers of a frame (a library's) the fields that decide where the payload begins
and ends are kept. A packet pool may be empty, or its buffers too small for a message:
then there is no frame.

## Runs

| Run | Instance | What it shows |
|---|---|---|
| `ring` | 4 slots, 2 items | types; no slot is written and read at once; the inductive invariant of the proof; refinement of `BoundedFifo`; items are taken |
| `book` | 1 client, 3 ids, 3 prices, sizes up to 2, cancels to 0 to 3, 2 slots, market data ring of 1 | types, agreement of all indexes, never crossed, `rest()` always has what it needs, liability, time priority, progress of every iteration of `match()`; the feed shows the book |
| `gateway` | 2 clients, 3 ids, 3 messages, rings of 1, batches of 2 | events find their records; answers add up to the book; ids are fresh; every resting order can be named |
| `gateway_threads` | 1 client, 2 ids, 3 messages, rings of 1, batches of 1 | the engine in the exchange is `Orderbook`; no cycle of full rings; every Enter Order is answered |
| `session_log` | 8 bytes, 4 index entries, packets of 1 to 3 bytes, 7 packets | what is held can be replayed, unsent bytes are not overwritten, nothing is dropped early |
| `sessions` | 2 slots, 1 session, 3 connections, log of 4 bytes, packets of 3, control packets of 2 | one connection per session, one close per connection, an unbroken stream, nothing unsent is forgotten, no packet is for a session without a log; no connection is forgotten while the server runs, and when it stops those that the outbound thread has opened are closed |
| `levels` | 3 orders, 2 levels, 3 slots | the lists are well formed in both directions and no slot is in use and free; refinement of `PriceLevels` |
| `reassembly` | bytes of 3 values, streams of 9, packets of up to 4 | where TCP cuts makes no difference, except to a packet over the limit; connections end for a cause; no copy overruns the buffer |
| `lifecycle` | rings of 2, 3 events a request, bursts and batches of 2 | the server stops; the process ends unless `emit()` is stuck |
| `lifecycle_hang` | the same | *violation*, see Findings |
| `client` | 2 Enters in flight, batches of 3, a ring of 2 targets, 3 UserRefNums | answers are read once and in order over all connections; no slot leaks; UserRefNums increase; the login comes first; one batch at a time, and none is left half sent |
| `codec` | every message type with none, one, all but one or all of its optional fields; foreign appendages of up to 6 bytes; pool buffers of 96 and 2048 bytes | what is decoded is what was encoded, over TCP and in a padded frame; other bytes are taken only if they are well formed, and mean what they say but for numbers that do not fit; no input keeps a decoder busy for ever |

*Bounds.* Three prices give the ladder gaps, so that the search for the next best
price has something to skip; with two slots two orders queue at a price and the pool
runs out (a queue with a middle is in `levels` and in the proofs). Sizes up to 2 give partial fills. One match number
is enough because nothing compares them. Rings of one place are full as often as
they can be. Three messages are what a replace that trades, or a cancel that
races a fill, takes. `MaxDrops` saturates the drop counter; `MaxMessages` bounds
the messages received; `CONSTRAINT NothingLostBefore` of `book` cuts behaviours after
the first lost message, from where the feed promises nothing. A Cancel Order names the
shares to keep, any number of them: `CancelQuantities` has those below, at and above
what an order can have open in `book`, and a full and a partial cancel in the runs of
the gateway. One client is enough for `book`, which compares clients only to turn away
a request for the order of another: `gateway` has two.

In `sessions` two packets of three bytes make a log of four wrap, so that a replay
can be refused by either thread (by the outbound thread when the packet that wraps the
log is answered after the login was tested) and a slow reader dropped. Two slots and three
connections let one slot be reused while the other competes for the session. A
window of 1 cuts control packets and sequenced packets at every byte. Deadlock is
not checked there: when all clients have left, nothing has to happen. `CONSTRAINT
StopBound` looks at the stop with up to two connections and one packet, in which the
ring of notes can be full; an invariant is checked in the states it cuts off too, so
in every state in which the outbound thread has just left. In
`session_log` the byte limit binds for the long packets, the index for the short.

Three slots for three orders in `levels` make a list with a middle and let every
slot be reused out of order. Nine bytes in `reassembly` hold two packets and the
start of a third, or one that is too long, whole or cut. In `lifecycle` a request may have more
events than the ring has places, which is what a sweep through the book does to a
ring that is nearly full; deadlock is not checked, since the process may end. In
`client` the connections are not bounded: two Enters in flight and three UserRefNums
are spread over as many as fail; `MaxUserRefNum` and `MaxTargets` bound what is sent,
as a roll of the factory or a full buffer would. In `codec` deadlock is not checked: a
message that has been decoded or refused is the end.

Two questions of progress are put as safety properties, which can be checked on the
larger instances: `MatchGetsOn` gives the loop of `match()` a bound that each
iteration gets nearer to, and `NobodyIsForgotten` says who will close a connection.
With the fairness below, the first means that every request ends and the second that
every connection that is over is closed.

*Fairness.* `RingBuffer`'s threads call `push` and `pop` again and again;
weak fairness of their steps says that neither thread stops inside a call.
`Gateway!GWFairSpec` assumes weak fairness of the steps of each thread: every
thread polls in a loop, none is ever blocked in the kernel, and each runs on a core
of its own. No fairness is assumed of the clients, and none between alternatives of
a thread. These assumptions are for the exchange while it runs. `Lifecycle!Spec` assumes weak fairness of the main thread and of each of the
three others, for the same reason, and none of arriving messages or of signals;
that a thread leaves is not assumed but follows from its code. `Codecs!Spec` assumes
that an encoder or decoder that can go on does: they are loops without waiting.

Each property has a mutant: a definition changed as a plausible bug would change
it (marked `Mutant` in the modules) under which TLC finds the property violated.

## Findings

`lifecycle_hang`: after a signal the outbound thread may leave while the matching
thread has more events to push than the ring has room for. `emit()` looks at no
flag, nobody drains the ring any more, and the process does not end.
`EndsUnlessRingIsFull` shows that this is the only way for it to hang.

## Observations

What the models showed of comments that say more than the code does. No run is kept
for these.

* `session_log.hpp`, `contiguous_from()`: a reader in the middle of a packet may be
  before `offset_of(first_sequence())`, against the comment. Nothing is lost:
  `UnsentIsIntact` is what the `assert` of the function asks for.
* `server.hpp`, `kMaxInboundSoupPacket`: a longer packet ends the connection only if
  it has to be buffered; one that is whole in its segment is handled. So where TCP
  cuts makes a difference to such a packet, the exception in `StreamKept`.
* `server.cpp`, `outbound_()`, "A FIN to everyone still connected", and `close_()`,
  "exactly once per accepted connection": the outbound thread knows a connection from
  the first note about it that it reads, a login or the end. One that was accepted and
  has not logged in, or whose note is still in the ring or found it full, gets no
  `close()` when the server stops. `ClosedOnce` is the at-most-once half of the second
  comment, `NobodyIsForgotten` says who is closed.
* `soupbintcp_proto.hpp`, `read_numeric()`: twenty digits may say more than 64 bits
  hold, and the number then wraps without an error. In a login this asks for another
  sequence number than the text says. `DecodesWellFormed` is about the numbers that fit.
* `load_generator.cpp`, `reconnect()`: the first batch after a login fills the
  pipeline before the replay is read, and a replayed answer to an old Enter then
  frees a new slot, so that more than `PIPELINE_DEPTH` Enters may be unanswered.
  `NoSlotLeaks` shows that the error is only in that direction.
* `flushWrite()`: a socket armed for output stays so after the rest has been sent;
  `epoll_wait()` no longer waits.
* `connectClient()`: a `socket()` or `connect()` that fails at once does not start
  the backoff that is to prevent "a tight connect() spin loop".
* `connectClient()`, "orders from the old one can't be targeted any more":
  `active_count` and the indices are reset but not the entries of the ring of live
  orders, and the read index in `buildBatch()` is not bounded by the write index. After
  the first answer of a new connection Cancels and Replaces may name orders of earlier
  ones, or UserRefNum 0 from an entry never written. Nor is it "a new session on the
  exchange's side": the exchange keeps sessions by username, so that an old order that
  still rests is canceled or replaced. An unknown or dead one is ignored.

## Theorems

`RingBufferProofs` (for every ring size that is a power of two and every set of
items): `RingInvariant`, `SlotRaceFreedom`, `RingImplementsFifo`. The invariant
`RingInv` is inductive: it adds to the types that each cached index is a bound on
the true one from the safe side, which is what makes a decision on a stale copy
sound.

`OrderbookProofs` (for every number of clients, ids, prices, sizes and slots):
`TypeCorrect`, `IndexesAgree`, `NeverCrossed`, `RestAlwaysSafe`,
`LiabilityBounded`, `MatchEnds`, `PriorityKept`. None of the first five is inductive
alone. Their conjunction `IInv` is: the book stays uncrossed because `crosses` looks at
the cached best price, which needs the indexes to agree; they agree because what rests
has a price on the ladder, an unused id and a free slot, which needs `RestIsSafe`; and
sizes stay in their type because the liability of a chain is bounded. The module first
proves what the operations on a book do (`unlink` and `release`, `rest`, a change of
shares) to each part of it, then has one lemma per action. `MatchEnds` and
`PriorityKept` are action properties that follow from `IInv`: what is at the front of
the best level has shares, and an order is taken out of its level or put behind the
last one, also by a replace that does both. The last two sections say what a step of
the engine does that the exchange relies on: it adds no order but the one that its
request names, and the events it emits report every change of an order's open shares
(`Reports`).

`LevelListsProofs` (for every number of slots, levels and orders):
`SpecListsWellFormed`, `ListsImplementLevels`. That links agree in both directions, ends
are ends and sizes right does not exclude a cycle of orders that no head leads to. So the
inductive invariant adds `Chained`: the slots of a level, each once, are the `c[1] ..
c[n]` on the way from its head along `next_`. `push()` makes this sequence longer by the
new slot, `remove()` closes the gap. A level has no more slots than the pool, so the walk
of the refinement mapping (`Chain`) ends with this sequence, and the queue that it shows
changes as in `PriceLevels`: at its end by `rest()`, and by `unlink()` where the order
was.

`SessionLogProofs` (for every capacity, every set of packet lengths and one reader at a
time): `LogHoldsWhatFits`, `UnsentStaysIntact`. The inductive invariant says what every
place of the ring holds: the byte of the greatest offset that was written to it
(`Written`), with the packets in rising order (`Rising`), the index right for those that
are held (`Held`), a reason for each one dropped (`Dropped`), and a reader at most
`capacity_` bytes behind (`Reader`), which is what `would_overwrite()` keeps up.

`GatewayRequests`, `GatewayProofs` (for every set of clients and messages, every
number of ids and every capacity of the rings): `EngineIsOrderbook`,
`BookInsideExchange`, `IdsAreFresh`, `OrdersAreNamed`, `EventsHaveRecords`,
`ClientsAreTold`. The first is the refinement: a
step of the exchange is a step of `Orderbook` or leaves it alone. It rests on `Pipe`,
that whatever is translated, in the ring, read ahead or being executed is a `Request`,
and so on what `validation.hpp` lets through (`GatewayLemmas`). With it the theorems
about the book hold inside the exchange. `FreshIds` and `OrdersStayNamed` are not
inductive: an id is fresh when a request is executed because the requests wait in the
order of their ids. `Fresher` says so: the ids on the way from the gateway to the book
increase towards the gateway, each is above all of the book and below
`next_order_id_`, and each, with those in the book, is found under a UserRefNum of its
client.

`EventHasRecord` and `ClientsKnowTheBook` relate what three threads hold with what is in
two rings between them. Their inductive invariant is `Answers` (`GatewayAnswers`): there
is a sequence of states from what the responder holds and the clients were told *now*,
through the answers to all notes in their ring and then to all events in flight, each of
which can be answered in its turn, to a state that has the open shares of the book; and
every request that is on its way to the engine, once its note is pushed, has its order
announced there. A step of the engine adds to the end of the sequence (by `Reports`), an
answer takes away its beginning. The interesting step is a note, which is pushed after
the events in flight and answered before them. It is sound because a note and an event
that was sent before it are about different orders, so their answers commute, and that
is so because the note of a request is pushed before the request (`Fits`: nobody has
heard of an order whose note is still to be pushed). `EventHasRecord` is the first
answer of the sequence, `ClientsKnowTheBook` its end.

The theorems assume the named assumptions on constants of their modules, which TLC
evaluates on its instances: the ladder has a price, counts are natural numbers, the
ids are a finite set (of numbers, in the gateway), `NoOrder`, `NoRequest`, `nullptr` and
`None` are no order, request or slot, a packet has at least one byte, a message has the types that the decoder gives it, and a
cancel may keep no shares. Nothing is assumed of the values a message has.

Only model-checked: liveness (`ItemsAreTaken`, `EnterAnswered`,
`EndsUnlessRingIsFull`, `DecodingEnds`), which is beyond the prover; `FeedShowsBook`,
which folds over the messages of the feed, `Reassembly`, whose loop is a recursive
operator, and the codecs, which fold over bytes: these take induction over data; and
`Sessions`, `Lifecycle` and `LoadGenerator`.

## What is not modelled

* *Rate-limited clients*: the inter-arrival slots of the load generator; the
  configuration in the repository has no rate.
* *What the clients trade*: the prices and sizes the load generator rolls; the model
  of the exchange takes any.
* *Packets of one letter* (heartbeats, Logout, End of Session) and Login Rejected have
  no fields whose layout could go wrong; `Sessions` has when they are sent.
* *Frames*: the headers are a library's, which is not in the repository; addresses,
  ports and checksums are left out. So is the library's TCP, except for how
  `server.cpp` uses it.
* *Measurement*: latency stamps and statistics, performance counters, and the clock,
  except that a time-out may be due at any time. No decision depends on them.
* *Market feed*: a stub; nothing reads the market data ring yet.
* *Configuration*: compile-time constants, here CONSTANTS.
