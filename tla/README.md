# A TLA+ model of purity

purity is an asynchronous TCP server (Boost.Asio, PostgreSQL) with a small client. A client
connects, logs on with an SRP6 exchange in *AUTH* packets, and goes on in *WORK* packets. This
directory holds a model of it, the TLC configurations that check it and the
TLAPS proofs about it. Paths below are relative to the repository; `main_server.cpp` and the like
are under `src/`.

## 1. The system

| part | source | state | operations |
|---|---|---|---|
| Server | `server/Server.cpp`, `main_server.cpp` | acceptor, `sessions_` under `sessions_mutex_` | accept loop, `remove_session`, `stop` from the signal handler |
| ClientSession | `server/ClientSession/` | socket, read buffer, write queue, `writing_`, `closed_`, session mode | `start`, read loop, `send_packet` (posted), write loop, `close` |
| MessageBuffer, readers | `common/packet/MessageBuffer.hpp`, `Reader*Session.cpp` | storage, two positions | normalise, grow, take one packet |
| Handlers | `HandlersAuth.cpp`, `HandlersWork.cpp`, `AccountInfo` | mode, SRP state, account | ping, challenge, proof, message |
| AccountCache | `server/AccountCache/AccountCache.hpp` | map with last access, timer | `get`, `put`, `invalidate`, sweep |
| Database | `common/database/Database.hpp` | queue of connections, mutex, condition variable | `execute_sync`, reconnect, `shutdown` |
| Client | `Client/Client.cpp`, `main_client.cpp` | socket, mode, outgoing queue, timers | connect, reconnect, heartbeat, logon, receive loop, disconnect |
| codec, SRP6, UTF-8, hex, logger | `common/` | none that is shared | conversions |

`main_server.cpp` starts several threads that all call `io_context::run()`. Nothing uses a strand,
so any ready handler may run on any thread and two handlers of one session may run at once. A
handler of a session calls the cache and, on a miss, the database, blocking its thread; answers go
back through `send_packet`, which posts to the same `io_context`. `close` calls back into the
server's registry; `stop` closes all sessions from one of the I/O threads while the others go on.

What is hard here: two threads inside one session; a completion that is already queued when the
session closes; the signal handler against the accept handler; the mutex taken again by a callee;
a stream cut at arbitrary places, with a change of packet format in it; two ends that change
format at different times; a client that reconnects with what is left of its last connection;
connections that break, waits that time out and spurious wakeups; a timer that has to re-arm itself;
numbers that begin with zero bytes and fields that shift if one of them is a byte short. `PROJECT.json` lists these hazards with the line where each bites
and the property that would show it.

## 2. The modules

| module | models | composed with |
|---|---|---|
| `ClientSession` | one session under any number of I/O threads | refines `ReplyChannel` |
| `ReplyChannel` | abstract: replies are delivered in order, once, until the channel closes | |
| `Server` | accept loop, registry, the sessions' `close` as the server sees it, `stop` | |
| `FrameReader` | buffer, `do_read` and both packet readers over a stream of bytes | |
| `DatabasePool` | the pool under the threads that query, and `shutdown` | |
| `AccountCache` | the cache with its clock and its sweep | refines `LossyMap` |
| `LossyMap` | abstract: a map that may forget, and never answers with what it forgot | |
| `Client` | the client's transport: socket, receive loop, send queue under two threads, heartbeat, reconnection | |
| `Logon` | client and session with their handlers over one connection after the other | rests on `ReplyChannel` and `FrameReader` for order and packet boundaries, on `Client` for one receive loop per connection |
| `ByteBuffer` | the field encodings, the two packet formats and how each end cuts a packet from the stream, as functions | |
| `UTF8Utils` | the check of a name and its upper-case form, as functions, with a reference | |
| `Packet` | the typed calls of `Packet.hpp` by kind of field, and what holds of any payload; no steps, its state is a byte string | uses `ByteBuffer` and `UTF8Utils` |
| `Handshake` | the bytes of a logon: SRP6, handlers, cache and client | uses `ByteBuffer` and `UTF8Utils` for every packet |
| `MCWire` | instances of `Handshake`, `Packet` (with byte strings to try the functions on) and `FrameReader`; in each behaviour one of them is at work | |
| `ClientSessionProofs`, `ServerProofs`, `DatabasePoolProofs`, `AccountCacheProofs`, `ClientProofs`, `LogonProofs`, `WireProofs`, `HandshakeProofs` | theorems | |

**Threads** (`ClientSession`, `Server`, `DatabasePool`). A thread is a value of `pc[t]`; `"idle"` is a
thread in `run()` with no handler. A handler is split where it touches a shared member: testing
`writing_` and setting it are two steps, `closed_.exchange` is one. A `lock_guard` block is two
steps, taking the mutex and the body with the release. With one thread a handler runs to its end
before the next starts, because only an idle thread takes a handler.

**Asynchronous operations** are *none*, *pending*, *ok* or *err*; the last two are completed operations
whose handler waits for a thread. `socket_.cancel` and `close` turn a pending operation into *err* and
leave a completed one as it is: that is the case `WriteQueueSafe` is about.

**Undefined behaviour** (a pop from an empty deque, two writes at once, a data race on a container)
and an exception that leaves `run()` set `fault`; the behaviour ends there, since nothing can be said
of what follows.

**Data.** A reply is its number in the order of posting. A byte is its number in the stream. A
connection is open or dead. An account is a value. A packet of `Client` is its number in the order of
queueing, one of `Logon` its opcode and the format it was written in. Only `Handshake` has bytes.

**ClientSession** starts after `start()` has armed the first read. **Server** has the failures of
`start()`. **Logon** ends when its last connection ends, or when an end reads a packet in the wrong
format: nothing in the two formats lets it recover. `start` records what the client brings into a
connection (its mode, the opcodes in its queue, whether `timer1` has yet to fire), for the properties
to speak of. The challenge coroutine has no suspension point and is taken to run inside `dispatch()`.

**Client.** For each kind of operation (`connect`, `read`, and the waits of the two timers) `ops` counts
those that are pending and those whose handler waits; there may be several of a kind, since
nothing keeps two reconnections apart. Writes are a sequence, since each has a packet. Header and
payload of a packet are one read. `raced` is set when both threads are inside the queue at once: that
is a data race on a `std::queue`, and the properties of the queue are stated up to it. `resolve()` is
taken to succeed: the address is numeric.

**Handshake.** A key has `KeyBytes` bytes and a hash `HashBytes`; `SHA1` is any function to sequences of
that length, and random exponents come from a set. Numbers are kept without leading zeros and padded
exactly where the code pads them. `Power`, `Reversed` and `FirstZero` of `ByteBuffer` are written out, and the loops are
recursive functions, so that the proofs can unfold them. The server's answers are those of `HandlersAuth.cpp` with every
refusal, and its reader closes the session on a payload above 2048 bytes (`ServerRefuses`), which a long
name makes; between two logons the row may be replaced and the cache entry may expire. The client's
reads fail as `ByteBuffer` fails, by an exception that ends in `disconnect()` or is only logged.

**Receivers.** A packet is taken from the stream where both ends take it: the server's readers
(`process_read_buffer`) wait for the header and then for as many bytes as it says, refuse a length above
2048, cut the packet out and deserialize it; the client (`start_receive_loop`) looks at the limit
before it waits for the payload. `FrameReader` has the same readers with lengths for bytes, over
every way to split the stream.

## 3. The runs

| run | module, bounds | checks |
|---|---|---|
| `session_one_thread` | ClientSession, 1 thread, 4 replies | `WriterAwake`, `NoUncaughtException`, `OrderedReplies` (refinement), `RepliesDelivered`, `ClosedIsReleased` |
| `session_two_threads` | ClientSession, 2 threads, 3 replies | `SingleReadChain`, `CloseRunsOnce`, `ThrowsOnlyClosed` |
| `session_queue_unsafe` | 1 thread, 2 replies | `WriteQueueSafe` is **violated** |
| `session_writes_overlap` | 2 threads, 2 replies | `SocketWritesGuarded` is **violated** |
| `server_two_threads` | Server, 2 threads, 2 clients | `RegistryExact`, `SingleAcceptChain`, `NoSelfDeadlock`, `StopClosesAllButOne`, `StopCompletes`, no deadlock |
| `frame_reader_stall` | FrameReader, 2 packets | `BufferedIsHandled` is **violated** |
| `pool_contended` | DatabasePool, 3 threads, 2 connections, 2 calls each | `PoolAccounted`, `NoLostWakeup`, `CallsReturn`, no deadlock |
| `account_cache` | AccountCache, 2 users, 2 values, clock to 7 | `IdleEntriesGo`, `CacheIsLossyMap` (refinement) |
| `logon` | Logon, 5 packets in flight, 3 connections | `TypeOK`, `StagesInOrder`, `FormatsAgree`, `NoSecondLogon`, `LogonFinishes`, no deadlock |
| `client` | Client, 2 packets, 1 trouble, 1 failed write, both threads | `TypeOK`, `OneReceiveLoop`, `NeverGivesUp`, `SentOnceInOrder`, `SettlesUnlessWriteFails`, `PacketsSent`, no deadlock |
| `wire` | MCWire: keys of 2 bytes, 5 names, 5 exponents; about 1100 byte strings; 3 packets in a buffer, sizes scaled down | the exchange: `NameIntact`, `SameNumbers`, `NeverDisconnected`, `OnlyShortRefused`; the functions: `FieldsSurvive`, `ReadsStayInside`, `PacketsWhole`, `Utf8ExactInRange`; the buffer: `BufferIsStream`, `PacketsIntact`, `StorageBounded`; no deadlock |
| `utf8_range` | MCWire, the same instance | `Utf8Exact` is **violated** |

Type correctness is proved for every module that has a `TypeOK` (section 5); the runs of `Client` and
`Logon`, whose variables are many, check it as well. `SocketWritesGuarded` with one thread is proved too.
`Handshake` has no type invariant: its packets and numbers are what the functions on bytes return, and
`SameNumbers` and `NeverDisconnected` fail if one of them is not what the next step expects.

**Bounds.** `MaxPackets` replies of a session: three are one being written, one queued and one posted,
the most the queue's logic tells apart. Two threads give every pair of handlers; the facts that do
not depend on the number are proved for all. Two clients are one closing and one being accepted (the
server's run with three gives the same result). The frame reader keeps the proportions that matter, not
the sizes: a packet may be empty, small, of the largest size accepted or one byte above it, may be
longer than the free space and shorter than the storage, and the buffer normalises, grows and
becomes empty. Three threads on two connections make one wait. The clock of the cache runs for two
lifetimes and a sweep after them. Five packets in flight are a heartbeat before the proof, the proof, a
heartbeat after it and room for two more; three connections are the first logon, a second connection with what was
left of it, and a third with what was left of that.

In `client` two packets are one being written and one behind it; one trouble (a failing operation or a
call of `disconnect`) makes the first reconnection, one failed write the second chain, which goes on
for ever. `MaxTroubles = 2` with `MaxFailures = 2` gives the same result (509571 states, nine minutes).
After `MaxFailures` a write completes at once: this bounds the number of chains, not the number of
reconnections. In `wire` the modulus 619 needs two bytes and two residues in five need one,
so that A, B and the verifier have leading zeros in many states; the names are ASCII, two with
characters of three and four bytes, one that is no UTF-8, and one that with its zero byte is one above
the limit of the readers. The byte strings lie on both sides of every boundary the code tests, those
with four bytes included; as payloads they are also of 255, 256, 2047 to 2049 and 65535 bytes. 32-bit fields go
up to 2^31 - 1, TLC's largest integer.

**Deadlock** is checked where the system is meant to end in a known state (`Server`, `DatabasePool`,
`Client` and `Logon` have a final step that stutters) or not to end at all (`AccountCache`
always answers, a `Handshake` is followed by another, and in `wire` what has ended stutters). A session
simply ends.

**Fairness.** A thread inside a handler goes on: threads are scheduled, and a mutex is held for finitely
many steps. A handler that is ready is eventually taken; for a session this is strong fairness, as the
queue of `io_context` is first-in first-out and a thread that is again and again free reaches every
entry. An asynchronous write that has begun completes or fails; the peer is not assumed to send
anything. A `wait_for` reaches its deadline, which spurious wakeups do not move (strong fairness);
queries and connection attempts end. In `Logon` the timers expire and both ends run what is ready;
nothing is assumed of connecting or of the user. In `Client` connecting succeeds if it is tried again
and again, the reconnection timer expires, a write that is not disturbed completes, and the I/O
thread runs what is ready (strong fairness, for the reason given for a session; the handler of reads
has a condition of its own, so that a server that never stops sending does not starve the others).
Nothing is assumed of the server's packets, of the heartbeat or of the user.

## 4. What does not hold

Each of these is a run that ends with a counterexample; `PROJECT.json` has the findings with the
quoted lines.

- `WriteQueueSafe`: a write has completed and its handler is queued; `close` runs first and clears
  `write_queue_`; the handler pops an empty deque. One thread is enough.
- `SocketWritesGuarded`, two threads: both run `do_send_packet`, both find `writing_` false, both write.
- `BufferedIsHandled`: two packets arrive in one read; the second waits until the client sends again.
- `Utf8Exact`: `is_valid_utf8()` accepts F4 90 80 80. The comment of `UTF8Utils.cpp:38` says that what is
  "> U+10FFFF" is refused, but the test is of the first byte alone, and F4 begins encodings up to
  U+13FFFF. `Utf8ExactInRange` says that this is all: among the strings without such a sequence it
  accepts exactly UTF-8.

Two more are faults of the models that the properties allow for: `remote_endpoint()` throws out of
`start()` if the peer has already gone (`SessionStart` of `Server`), and with two threads
`write_completed()` throws if `close` clears the buffer between the test and the call
(`ReadIsOpened` and `ReadWriteCompleted` of `ClientSession`; `NoUncaughtException` is checked for one
thread, and for two `ThrowsOnlyClosed`, that no session throws which is open). And a dead connection is dropped before its replacement is known to work, so the pool may
shrink for good: `PoolAccounted` says that this is the only way to lose one.

Other properties hold and say exactly how far a stronger statement fails.

- `StopClosesAllButOne`: `stop()` can leave the session that another thread is just accepting unclosed.
- `FormatsAgree`: the server reads with the wrong header a heartbeat that the client sends
  between its proof and the answer, and what a client in the work stage sends after a reconnection.
- `LogonFinishes` holds because of the heartbeat: the logon of a client that sent none could wait
  behind a packet received together with it.
- `NoSecondLogon`: `timer1` fires once, so a client that reconnects later stays connected and is not
  logged on. `StagesInOrder`: a proof that was still queued authenticates the new session although
  that session has answered no challenge.
- `NeverGivesUp`, `SettlesUnlessWriteFails`: whatever fails, something is always on the way to a connection,
  and after any trouble but a failed write, `disconnect()` included, the client stays connected in
  the end. Both allow for a failed write: it calls
  `schedule_reconnect()` once and the read it aborts calls it again; the wait that the second call
  cancels connects all the same. From then on two chains take the socket from one another for ever.
  `OneReceiveLoop` and `SentOnceInOrder` hold through all of it.
- `OnlyShortRefused`: a user whose verifier is a number of fewer than 32 bytes (one in 256) is refused
  with `WRONG_PASSWORD`, because `generate_salt_and_verifier_trinity()` does not pad it.
- `NeverDisconnected`: a name of 2048 bytes or more makes a challenge that the server's reader refuses; it
  closes the session without an answer.
- `PacketsWhole` is about payloads whose length the header can hold. `build_packet()` casts the length to 16
  bits without a test. Of a payload of 65536 bytes or more both receivers take the first
  `Len(payload) % 65536` bytes for the whole of it, if that is within their limit, and read the
  rest as further packets (theorem `PacketsCut`). Nothing in the repository builds such a payload.

## 5. What is proved

The theorems hold for every value of the constants allowed by the named assumptions of the modules:
a non-empty set of threads and any bound on replies (`ClientSession`); a non-empty set of threads and
any clients (`Server`); a finite set of threads and a natural pool size (`DatabasePool`); natural
bounds (`Client`, positive ones in `Logon`, where `None` is no packet); natural sizes, headers and
free space of at least one byte (`FrameReader`); natural times and a `None` that is no user or value
(`AccountCache`); in `Handshake` keys of at least one byte, a modulus that fits into a key, a generator
that fits into a byte, names without zero bytes that fit into the length field of a header, and keys and
hashes small enough for the server's answers and the client's proof to be within the receivers' limit
(`PayloadAssumption`; with the 32 and 20 bytes of the code they have 97 and 52 bytes). Of `SHA1` the
theorems assume that it maps byte strings to byte strings of `HashBytes` (`SHA1Type`).
In `Packet` the samples are any set of byte strings, the numbers any that the type of their call holds, and
a string that is written as a field leaves room for a number beside it in a payload (`PacketAssumption`).

The prover has no induction over data of its own. Where an argument needs it, it is a least
counterexample in a set of natural numbers (`WFMin`), and a recursive function is unfolded by
constructing one that obeys its equation and taking the `CHOOSE` that defines it.

**ClientSessionProofs.** `TypeCorrect` is type correctness. `CloseInv` is inductive for any number of
threads: the thread that won `closed_.exchange` is the only one in the body of `close`, the socket is
open exactly until it has passed the socket step, and nothing is pending on a closed socket.
`CloseRunsOnce` alone is not inductive: it does not say that `closed_` is set while a thread is in the
body. From it follows `CloseOnce`. `ReadLoop` shows that `SingleReadChain` is
inductive as it stands. With one thread (assumption `OneThread` of the theorems, not of the module),
`WriteInv` says that until `close` clears the queue it holds the replies after those popped, in
order, that a write under way is of its first element, and that `writing_` is set exactly while one is
under way. It gives `OneThreadGuarded`, `OneThreadAwake` and `OneThreadOrdered`, the last being the
refinement of `ReplyChannel`. The run `session_writes_overlap` shows that the assumption is needed.
Three theorems say how a session can end abnormally. `OneThreadCatches`: with one thread nothing comes
between the test of `closed_` and `write_completed()`, so no exception leaves `run()`. `OpenNeverThrows`:
with any number of threads only a session that is closed in between throws (`EndInv`: the storage of the
read buffer is gone only after `closed_` was set). `OneThreadEnds`: with one thread the pop after `close()`
has cleared the queue, which `session_queue_unsafe` exhibits, is all that can go wrong: as long
as the session is open the queue is safe.

**AccountCacheProofs.** `SweepInv` says that until `stop` the sweep is armed or due, that its handler is
late by at most `Delay`, and that the next sweep comes before any entry has outlived lifetime and
interval; `IdleBounded` follows. `CacheRefines` maps an entry to what `get` would answer now, so that
the passing of time, not only the sweep, is what forgets.

**ServerProofs.** For any threads and clients. The types come with the session each thread works on
(`DataInv`). `MutexInv` gives `NeverSelfDeadlocked`: the owner of `sessions_mutex_` is inside one of the
four guarded blocks, none of which locks. `AtMostOne`, `OpAlone` and `KeepsAccepting` give
`OneAcceptChain`. `RegistryAlwaysExact` needs that a session being accepted is known to nobody else
(`FreshInv`) and where `stop()` is (`StopInv`, `ProgressInv`). `StopLeavesOneAtMost` rests on `LateInv`:
once `stop()` has copied the registry, the sessions that are neither copied, closed nor being closed are
those of the one accept chain, and the acceptor is closed, so there is one at most; this follows from
no single step and is the reason for the other invariants. `OneThreadStops` shows that the exception
is due to the threads alone: with one of them (again an assumption of the theorem) every session
there is has been closed, is being closed or is in the copy (`CaughtInv`), so `stop()` leaves an empty
registry and no open socket, and nothing races.

**DatabasePoolProofs.** For any finite set of threads and any pool size. `Accounted` counts queue, hands
and losses by cardinalities; the sum is kept by each step, and only `shutdown` lowers it.
`ConnectionsAccounted` follows. `Woken`, that a waiting thread implies as many threads awake (about
to take or to announce a connection) as connections in the queue, is `NoLostWakeup`; it is inductive
with `DataOK`, which says that the waiting threads are those whose `pc` is at the wait.

**ClientProofs.** For all bounds. `OpsInv` counts the operations, to which `NeverGivesUp` only gives bounds: a chain
ends when and only when its handler starts another, and each failed write adds one; a
socket that is open has one of a completed connect, a pending read and a completed read, a
socket that is not has no pending read, and one that is closed no pending connect. Without
the state of the socket neither `OneReceiveLoop` nor the count is preserved by the handlers that close it.
`SentOnceAlways` rests on two more. `LinkInv`: the client counts as connected only while its receive loop
has a handler to come, and while a connect handler is due nothing is being written, so that the
`flush_queue()` of that handler starts the only write. `OrderInv`: until the two threads race, the
packets sent, the one being written and those queued follow one another without a gap, and a thread
that is about to start a write finds none under way. `TypesAlwaysOK` is type correctness.
`CrashNeedsRace`: the handler of a write pops the queue without a test, and by `OrderInv` what was written is
still at its front, so that only a race empties it. `AloneIsSafe`: without the thread of standard input
(an assumption of the theorem) there is no race, so no crash, and `SentOnceInOrder` without its condition.

**LogonProofs.** For any number of packets in flight and of connections. `FlowInv` says which opcodes may
be in which queue: an answer to a proof only from a session in the work stage, an answer to a
challenge only from one that has been challenged, a proof only after that answer or from the client's
old queue. `StagesAlwaysInOrder` and `NeverASecondLogon` follow. `FormatsAlwaysAgree` needs
two more. `TokenInv`: `timer1`, the packets of a logon and the server's challenge are one token, of which
there is at most one and none once the session is in the work stage, so that no second proof
can change the format again. `ReplyInv`: the replies before the answer to the proof are in the format
that the client reads, those after it in the one it changes to when it reads that answer. `LogonTypes` is type correctness.

**WireProofs.** First the functions, for every input. `PacketsCut`: from a stream that begins
with a packet both receivers take as many bytes of its payload as its length modulo 65536, or refuse. `FieldsReadBack`: each read
returns what the matching write appended and stops where it ended, for integers of every width in either
byte order and sign, bools and strings. `ReadsAlwaysInside`: no read leaves the
buffer. `UpperCaseByteWise`: `to_uppercase()`, which copies characters of several
bytes, is `toupper()` of every byte of a valid string. `Utf8Valid`: `is_valid_utf8()` accepts a string
exactly if it can be cut into encodings of code points up to U+13FFFF, and `Utf8InRange`: exactly if it is UTF-8,
unless it has a sequence that begins with F4 and 90 or more. They rest on `ValueOfBytes`, that reading w digits to
the base 256 gives back a number below `Power[w]`.

Then the properties of `Packet`, for any samples. `FieldsAlwaysSurvive` puts the lemmas together: the
first field is read from a payload that holds the second behind it, so each kind of write is shown to
append bytes that do not depend on what is before them, and the read to take just those whatever
follows (`EncodedIn`, with a lemma for numbers and one for strings); the packet formats hand the payload on
whole (`PacketsSurvive`).
`ReadsAlwaysStayInside` needs that a read leaves a buffer behind, not only a position, for the next
one to start from. `PacketsAlwaysWhole` follows from `PacketsCut`, where the length is its own remainder
(`PacketsArrive`), and from `PacketsAwaited`: before the last byte the header has the same
length already or is not complete. `Utf8AlwaysExact` follows from
`Utf8InRange` and that from `Utf8Valid`, since the two references differ only on four bytes beyond U+10FFFF
(`FourInRange`). The proof of `Utf8Valid` is a recursion from the end of the string: at each position the check goes on
exactly if the bytes there are the encoding of a code point (`CharacterEncodes`, a lemma for
each length of one to four bytes), and then by as many bytes as the reference (`SameStep`).

Last the buffer of `FrameReader`, for every stream. `BufferInv` joins the types, `BufferIsStream`, `StorageBounded` and the fact that the
unread bytes never exceed their recorded peak, without which the bound on the storage is not
preserved. One lemma per step (`do_read`, a completed read, a reader) gives `BufferTyped`,
`BufferFaithful` and `BufferGrowth`. `PacketsAlwaysIntact` says that the packets handed on are the packets
of the stream, whole and in order, across the change of format: what the readers have consumed
is always a whole number of packets (`CutInv`), and since no two packets begin at the same byte the
length found there is that of the next one.

**HandshakeProofs.** The exchange. `NameIntact` and the others
are not inductive: they do not say what is on the wire. `HandshakeInv` does, to the byte, for each
stage, together with what each end holds, so that the lemmas of `WireProofs` give what the next handler reads;
there is one lemma per action. A challenge is refused only for its length, a proof never (`ServerRefusesStep`). `NameAlwaysIntact`, `NumbersAlwaysSame`, `NoLogonDisconnected` and
`RefusalsAlwaysExplained` follow. TLC checked `HandshakeInv` on the instance of the run before it was proved.

**Only model-checked.** All liveness (`RepliesDelivered`, `ClosedIsReleased`, `StopCompletes`,
`CallsReturn`, `LogonFinishes`, `SettlesUnlessWriteFails`, `PacketsSent`): fairness and ENABLED are out of
the prover's reach. Every safety property of a passing run is a theorem.

## 6. What is not modelled

- The strength of SRP6: `SHA1` is any function, and nothing is said of what an observer can compute. The
  code accepts every client proof, and so does the model.
- `HexUtils` but for `pad_bytes_left`: nothing calls the rest. The dump of the payload in `Packet.hpp`
  is logging. `read_source_to_string` is the text of a message.
- Packets that the client of this repository does not send: their handlers log and return. A header
  split between two reads of the client, which `async_read` puts together.
- `PreparedStatement`, the mapping of rows and the SQL behind them: data without control of its own. A
  query succeeds, fails or breaks its connection.
- Two challenges for one user at once, which may put an older row into the cache after a newer one: the
  code promises nothing about the age of an entry, so there is nothing to check it against.
- The logger, random numbers, address and time formatting: no shared state and no control that
  another part depends on.

## 7. Further work

The abstract channel of `ReplyChannel` and the stream of `FrameReader` stand behind `Logon` by argument,
not by a refinement: a composed module would show that `Logon` may take packets for its steps.

Run a configuration with `tlc -config X.cfg M`, the proofs with `tlapm MProofs.tla`.
