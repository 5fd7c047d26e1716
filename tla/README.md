# A TLA+ model of loft

loft terminates CoAP for a fleet of devices ("pigeons"): CoAP over DTLS/UDP and
over TLS/TCP on one side, HTTP to the backend ("dovecote") on the other. A
device proves itself with a pre-shared key, loft looks the key up in dovecote
and, after the handshake, translates each CoAP request into one HTTP call with
the device's bearer token.

loft is a thread-per-connection program. What is hard in it is not any one
function but what happens between threads: a listener thread demultiplexes one
socket into the channels of session threads that come and go on their own,
through maps both sides edit; handshake threads share a key cache in front of a
slow and changing backend; all connections share one reassembly table and one
quota. Its other hard part is arithmetic that only bites at an edge: blocks that
are rescaled, ranges that end with a document, frames cut anywhere. This project
models those parts, checks them with TLC on small instances, and proves their
safety properties with TLAPS for every size.

## 1. Inventory

| part | source | state | operations | interacts with |
|---|---|---|---|---|
| connection quota | `loft/src/quota.rs` | total and per-bucket counts behind a mutex | `is_full`, `try_acquire`, drop of the permit | both DTLS listeners share one, the TCP listener has its own |
| mbedTLS DTLS listener | `loft/src/dtls_mbed.rs` | `by_addr`, `by_cid`, the pending session, per-session channel, committed and staged peer | receive and route, cookie exchange, promote, handshake, read, migrate, idle out, clean up | quota, PSK resolver (handshake), exchange layer (each record) |
| mbedTLS shim | `mbedtls-ffi-shim/` | config shared by all sessions, with the cookie-verified flag; per-session timer and I/O state | clear/take flag, cookie and PSK callbacks, session read/write/handshake | used by the listener |
| OpenSSL DTLS listener | `loft/src/dtls.rs` | one map by address, the pending stream, per-connection channel | receive and route, `DTLSv1_listen`, promote, handshake, serve, clean up | quota, resolver, exchange layer |
| TLS/TCP listener | `loft/src/tls_tcp.rs` | one thread per connection, deadlines, frame buffer | accept, handshake, CSM, serve frames | its own quota, resolver, handler |
| exchange layer | `loft/src/dtls_common.rs` | per connection: duplicate cache, next message id | `process_datagram`, cache get/insert | handler |
| request handler | `loft/src/handler.rs` | the Block1 reassembly table behind a mutex | sweep, authorise, dispatch, reassemble, call upstream, slice the response | upstream client |
| PSK resolver | `loft/src/psk.rs` | cache of known and unknown identities behind a mutex | `resolve`, with a blocking lookup outside the lock | dovecote; called in the TLS stacks' PSK callbacks (`tls_common.rs`) |
| codecs | `loft/src/coap/*.rs` | none (the TCP frame decoder buffers bytes) | encode, decode, block arithmetic | handler, exchange layer, TCP listener |
| supervisor | `loft/src/main.rs` | the listener threads | start, join, exit | everything |
| upstream client, configuration, sockets | `upstream.rs`, `wire.rs`, `config.rs`, `listen.rs` | none | one HTTP call; parse the environment; bind | |

What makes each part correct, and where it is hard:

* **Quota**: the counts equal the permits in existence at every instant, on
  every teardown path, with two listeners charging it; the caps hold although
  the listener's early `is_full` probe is stale when it admits.
* **mbedTLS listener**: a session is reachable for as long as it can be spoken
  to, whatever happens to other sessions at its address; entries belong to the
  session stored in them; replies never follow an unauthenticated source; only
  cookie-verified sources get state; handshakes end; sessions nobody can reach
  any more give their thread and permit back.
* **PSK resolver**: the cache holds what dovecote said and nothing else, and
  no answer outlives the age its path allows, although lookups overlap, arrive
  late, and fail.
* **Handler**: a reassembled body is what the device sent on that connection;
  the table is bounded; nobody else's traffic loses an upload; leftovers drain.
  A block it answers with is the one asked for, whatever dovecote made of the
  range; a download ends, complete and of one image, although dovecote may
  replace the document between two blocks.
* **PSK callbacks**: a session is served with the token minted with the key its
  client proved, although lookups of other handshakes change the cache between
  the callback and the end of the handshake; a rejected identity is never served.
* **Exchange layer**: a retransmitted request is answered again, not executed
  again.
* **OpenSSL listener**: as the mbedTLS listener, with a weaker removal rule.
* **TCP listener**: deadlines hold against a peer that trickles, up to the PSK
  lookup that blocks within the handshake; slots come
  back on every way out; however the stream is cut, each message is answered
  once, in order, and without waiting for the next one.
* **Supervisor**: the exit of any listener ends the process.

## 2. Modules

| module | models | role |
|---|---|---|
| `ConnQuota` | `quota.rs` | state and operations of the quota, composed into the listeners' actions |
| `MbedListener` | `dtls_mbed.rs`, the cookie flag of `mbedtls-ffi-shim/src/config.rs` | extends `ConnQuota`; listener thread, session threads, network, a second listener on the same quota |
| `MbedListenerProofs` | | theorems about `MbedListener` and `ConnQuota` |
| `PskResolver` | `psk.rs` | handshake threads, the cache, dovecote's registry, a clock |
| `PskResolverProofs` | | theorems about `PskResolver` |
| `PskHandshake` | `tls_common.rs`, the PSK callback and session header of `mbedtls-ffi-shim` | extends `PskResolver`: each lookup is a callback of a handshake that goes on after it |
| `PskHandshakeProofs` | | theorems about `PskHandshake`, on those of `PskResolverProofs` |
| `Handler` | `handler.rs` (requests and Block1) | connection threads over one reassembly table |
| `Blocks` | `coap/block.rs`, the integers of `coap/message.rs` | operators: the Block option and its arithmetic, with the word's width |
| `Download` | `handler.rs` (responses), `upstream.rs` | extends `Blocks`: a device fetching documents block by block from a dovecote that replaces them |
| `DownloadProofs` | | theorems about `Download` and the arithmetic of `Blocks` |
| `HandlerProofs` | | theorems about `Handler` |
| `AtMostOnce` | | abstract: a request is executed at most once, every reply to it is its own |
| `Exchange` | `dtls_common.rs` | one connection's message layer with a retransmitting client and an unreliable network; implements `AtMostOnce` |
| `ExchangeProofs` | | theorems about `Exchange`, among them that it implements `AtMostOnce` |
| `DtlsListener` | `dtls.rs` | extends `ConnQuota`; the OpenSSL listener |
| `DtlsListenerProofs` | | theorems about `DtlsListener` and `ConnQuota` |
| `Frames` | `coap/message.rs`, `coap/tcp.rs` | operators: encoding and decoding of options, payload and frames |
| `TlsTcp` | `tls_tcp.rs` | extends `Frames` and `ConnQuota`: the TLS/TCP listener and its peers |
| `TlsTcpProofs` | | theorems about `TlsTcp`, `ConnQuota` and the frame decoder of `Frames` |
| `Supervisor` | `main.rs`, `config.rs`, `listen.rs` | the process: configuration, listener threads, joins, restart |
| `MC...` | | constants and symmetry for TLC, one module for each of the above that is run |

A definition whose comment starts with `Bug:` is a deliberately wrong variant of
the definition after it. No specification uses it; it is there to show that the
property paired with it in `PROJECT.json` notices that bug.

### MbedListener

An action is one critical section or one channel operation, with the
thread-local work around it. `lpc` says where the listener thread is with the
datagram `cur` between critical sections (`recv`, `pending`, `handshake`,
`verdict`, `promote`); `phase[s]` says the same for each session's thread. The
order of the code is the order of the phases: routes are entered under one lock
before the thread is spawned; `established` is stored after the handshake and
before the CID route is dropped (a session without CID); the address route is
dropped after the first authenticated read and before the migration is
committed; on the way out the channel's receiver goes first (it is owned by
`session_thread`), then `by_addr`, then `by_cid`, then the permit. `expired[s]`
says that the deadline in the session's `ConnState` has passed: from then on
`recv` delivers nothing, whatever is queued, and the handshake ends. The deadline
is armed before the thread starts and nothing looks at it earlier.

Datagrams are records of a kind, a source, a CID and the session whose keys
protect them. The network may deliver, at any time, any plaintext record from
any source, any keyed record of a live session, by CID also from any address
(migration), and junk with any CID; that includes loss, duplication, reordering
and replays (a replayed record is one with no key). What mbedTLS does with a
datagram is a choice among its documented outcomes.

`PortReuse` stands for mbedTLS's `MBEDTLS_SSL_DTLS_CLIENT_PORT_REUSE`, on in the
stock build, under which a session that has completed its handshake checks the
cookie of a plaintext ClientHello by itself. The demultiplexer keeps plaintext
records away from established sessions, but one queued just before
`established` was stored is read after it.

A session identifier stands for a `conn_id`. The program never uses one again;
the model reuses an identifier once its session has left the program, when
nothing refers to it any more.

### PskResolver

Each resolve call is: cache check (one critical section), then on a miss the
lookup, in which dovecote reads its registry at some moment between request and
reply, then storing the answer (a critical section) or, after a failure, reading
the cache again. `now` is read once at the start of a call, so it is the
start of the call that stamps an entry and that the stale entry is compared
with. The registry is a history of answers per identity, so a property can say
how long ago the answer in hand was superseded. `FetchTimeout` is the HTTP
agent's overall timeout.

### PskHandshake

A handshake is between its ClientKeyExchange and its Finished when the PSK
callback runs. The callback is the resolver's call, on the handshake's own
thread; what it returns installs a key and leaves identity and token on the
session (OpenSSL's ex_data, or the `SessionHeader` of the mbedTLS shim). Both
ways to reject are there: OpenSSL's zero length ends the handshake, the shim
installs a random key and lets it run into its end. An answer of the registry
stands for a key and the token minted with it, and a handshake completes exactly
under a key that is not random; that is the only thing assumed of cryptography.

### Handler

A connection's thread handles one request at a time: the sweep, the reassembly
step and the upstream call are separate steps, everything inside a lock is one
step. An entry's age is reduced to fresh or not, the only thing the code tells
apart; it becomes not fresh at any time. `run` is the specification's own
account of what each device sent: the consecutive blocks since its last block
0; it is never read by an action of the program.

### Download

The handler keeps nothing between the blocks of a download, so a step is one
request: `device_request` chooses among what dovecote may answer (the range
honoured, ignored, clamped or refused, a server error, silence), and `firmware`
or `json_response` turns that into a response, as the code does. Byte `i` of
version `v` of a document is `<<v, i>>`, so a response made of the wrong bytes is
told apart from any right one. The device asks for the block at the offset it
has reached, in any block size that fits; it compares ETags where it gets them
and gives up on anything else. `Probe` sends any value a Block2 option can have.
dovecote is assumed to name the image (`X-Firmware-Sha256`) in every firmware
answer; the handler passes on what it gets. An ETag stands for the image, not
for the eight bytes of its hash.

How many block numbers a word has room for (`NumSpace`, 2^28 in the code), the
smallest block (`BaseSize`, 16 bytes) and the ceiling of a datagram are
parameters. With eight block numbers rescaling overflows, saturates and is cut
by the shift in `Block::encode` within the run.

### Frames and TlsTcp

`Frames` keeps the code's layout byte by byte, with the largest number a nibble
holds and the radix of the extension bytes as parameters: with 2 and 2 in place
of 13 and 256 every form of a length and of an option delta occurs in messages
of a few bytes.

An option's delta and length have a form less than a frame's length
(`OptionNibble`, `LengthNibble`): `nibble_ext` cuts what two bytes cannot hold,
which no option that was decoded reaches.

In the handshake of `TlsTcp` time counts. `wait[c]` is how long the current IO
call has lasted, which the socket timeouts bound by a tick; `age[c]` is the age
of the handshake. The peer decides whether a call ends with some bytes
(`HandshakeTrickles`: OpenSSL calls straight back into the guarded stream) or
with none (`HandshakeQuiet`: the loop sees it). With the client's key exchange
accept() calls the PSK callback, once and on the same thread (`LookupBegins`,
phase `lookup`): there `wait[c]` is the time spent in dovecote's lookup, which
its HTTP agent bounds by `LookupTimeout` (5 s in the code, against a tick of 1 s),
and nobody looks at the deadline until the next IO call (`LookupReturns`). How
the lookup is answered is `PskResolver`'s and `PskHandshake`'s subject. The
agent's timeout does not interrupt name resolution; the model takes it as the
bound it is meant to be. After the handshake a thread
writes its CSM and then reads, decodes and answers; a read brings any number of
the bytes on the wire. The handler's answer is abstracted to the request's
token, options and payload under another code, so that it tests the codec both
ways. `sent` is the history of what the peer meant: `Answered` are the messages
in it that get an answer, `Expected` how many frames the peer should see, and the
place of an answer is the number of answers due before it.

`CodecSound` says of `Message` and `Malformed` that what is sent survives the codec:
a message, and the answer to it, decodes to itself with its options in order, and
what is no frame is refused. The run assumes it, so TLC evaluates it for messages
with every form of nibble.

### Supervisor

One `env` record stands for the environment; `ConfigOK` is `from_env`. A bind
claims the port for one family or, for an IPv6 literal, for both. A listener
builds its context, binds, and then runs for ever unless it panics; any of these
may fail. When main returns everything is gone, and the service manager starts
again.

### Exchange

The connection's thread takes one datagram at a time from its channel. Looking
up the duplicate cache (which sweeps it first) and calling the handler is one
step, the handler's return, with eviction, insertion and reply, another; time
passes in between, and what arrives meanwhile queues, or is dropped by a full
channel. A response is identified by the position of its execution in the
history `log`, which no action of the program reads.

The client and the network are external and are what RFC 7252 says of them, as
parameters: a confirmable request is retransmitted for at most `Span` until
something is heard, a datagram travels at most `Latency` and may be lost or
overtaken (a copy of a DTLS record is dropped below this layer), a message id is
not used again within `Lifetime`, and at most `Burst` requests are started in
any `Window`. `HandleTime` bounds the handler, and a thread with something to
read reads it within the clock's unit. `ServesAtMostOnce` says that under these
assumptions `Exchange` implements `AtMostOnce`, by a refinement mapping that
counts executions per request and looks up whose response the last reply was.

`Timely` states the proportions between these windows and the cache's `Ttl` and
`Cap` that the proof needs; the run assumes it, so TLC evaluates it. With
`Arrival` the latest a copy of a request can arrive after it was first sent, and
`Reading` the latest it can be read (a full channel of requests handled before
it), a late copy is read while the response is fresh (`Reading < Ttl`), a
response is gone when its id is used again (`Reading + HandleTime + Ttl <=
Lifetime + 1`), and the requests that can be executed between two readings of one
fit the cache (`Arrival + Reading + HandleTime < Window`, `Burst <= Cap`). The
run's constants are near their edges: with `Ttl` 3, with `Burst` 3, with
`Lifetime` 7 or with `Window` 4 TLC finds the refinement violated. The inequality
for the window asks for 7 and has some slack on this instance, which passes with
5.

The reading for the code's numbers (a TTL of 150 s, 256 entries, a channel of
32, an upstream timeout of 30 s): RFC 7252's 45 s of retransmission and 100 s of
latency leave 5 s for queueing, and the response has to be stored within 97 s of
the first transmission to be gone when the id may be used again after 247 s. So
at-most-once is promised to a device whose path is faster than the RFC's worst
case; where the path is that slow, or 32 queued requests meet a slow upstream,
`Timely` does not hold and neither the code nor the theorem promises it.

### DtlsListener

The same conventions as `MbedListener`, with one map and no Connection IDs.
`lpc` walks through route, quota probe, `DTLSv1_listen`, admission, promotion;
`promote_connection` holds the map's lock from insert to spawn and is one step.
What OpenSSL makes of a datagram on a connection is a choice among what the code
handles, so a channel is just its length. `stamp` is the source written on the
pending stream before each listen call, both as reply address and as cookie
material. A connection's thread drops its receiver when `connection_thread`
returns, then removes the entry of its address whichever connection it belongs
to, then drops the permit; a panic skips the removal. `expired` is the handshake
deadline first and the idle deadline later.

The removal by address is the listener's soft spot: a source that reconnects
between the drop of the receiver and the removal loses its new connection's
entry. `SlotLost` says that nothing else can take a running connection's entry,
and `CutOffEnds` that a connection so cut off ends. The mbedTLS listener guards
its removals by conn_id and has the stronger `HandshakeKeepsRoute`.

## 3. Runs

All runs take CONSTANTs only from their cfg file.

| run | bounds | result |
|---|---|---|
| `mbed_routes` | 2 sources in one /64, 2 sessions, 2 CIDs, 1 other connection, channel depth 1, caps 2/3, port reuse on | `TypeOK`, `QuotaBooks`, `CidRouteIntact`, `HandshakeKeepsRoute`, `EntriesOwned`, `RepliesFollowAuthentication` hold (1.4 million states) |
| `mbed_live` | 1 source, 2 sessions, 2 CIDs, port reuse off, with fairness | `VerifiedOnly`, `OrphansLeave`, `HandshakesEnd` hold |
| `mbed_cookie_flag` | as `mbed_routes`, caps 2/2 | `VerifiedOnly` is violated (finding 1) |
| `mbed_flight` | the same, port reuse off | `FlightReachesSession` is violated (finding 2) |
| `psk_cache` | 2 handshake threads, 1 identity and one that is no string, positive TTL 2, negative 1, grace 3, timeout 1, clock to 5, 2 changes | `TypeOK`, `CacheTruthful`, `ServedRecently`, `SessionProven` hold (2.8 million states) |
| `psk_status` | the resolver alone, the same | `DeniedAfterDrain` is violated (finding 3) |
| `uploads` | 2 connections, 2 devices, 1 resource, 1 byte value, blocks 0..2, bodies of 2 bytes, 1 table entry, with fairness | `TypeOK`, `BodiesWhole`, `EntriesFaithful`, `MemoryBounded`, `UploadsKept`, `LeftoversDrain` hold |
| `download` | 3 versions of 2 documents, of 0, 4 and 5 bytes, 8 block numbers, blocks from 1 byte, datagrams of 2, either transport, 2 changes, with fairness | `AnswersTheOffset`, `DatagramsFit`, `ImagesNeverMixed`, `DownloadsWhole`, `NeverStranded`, `DownloadsEnd` hold |
| `tcp` | 2 connections, 2 sources of one slot each, deadline 2, tick 2, lookup of up to 3, reads of up to 8 bytes, 6 messages and 6 malformed frames, 2 of them at a time, with fairness | `TypeOK`, `PermitsCounted`, `HandshakeBounded`, `AnswersInOrder`, `NothingLeftBehind`, `HandshakesEnd` hold |
| `supervisor` | the good settings and the bad values of each, 3 sets of taken sockets, with fairness | `AnyExitFatal` is violated (finding 4) |
| `exchange` | 4 requests, one of them non-confirmable, 3 message ids (the fourth request uses the first one's again), cache of 2 with TTL 5, channel of 1, clock to 9 | `TypeOK`, `ForgetsOnlyOldest`, `ServesAtMostOnce` hold |
| `dtls` | 2 sources with a bucket each, 2 connection threads, 1 other connection, channel depth 1, caps 3/2, with fairness | `TypeOK`, `PermitsCounted`, `CookieBound`, `SlotLost`, `CutOffEnds`, `AcceptEnds` hold |

Why the bounds are enough to be interesting. In `mbed_routes` two sources and
two sessions let an address be taken over while the old session is cleaning up,
and let a CID session migrate to the address another session holds; a channel of
depth one is full, empty and drained; the total cap is reached by sessions and
by the other listener. In `psk_cache` two lookups overlap, and the clock is long
enough for an entry to age through fresh, stale and gone after a change. In
`uploads` one table entry makes the table full for the second connection, and
bodies of two bytes are exceeded by a third block. In `exchange` the cache
overflows, entries expire, a retransmission waits behind another request, and a
message id is used again. In `dtls` a source reconnects while its old thread is
cleaning up, both caps are reached, and every thread may be in use. In `download`
there is a document that ends with a block, one that ends within one and an
empty one, every option value a word can hold is asked for, and a document may
be replaced, and withdrawn, between any two blocks. In `tcp` the messages need
every form of nibble, two of them fit in one read or are spread over several,
and there is a malformed frame for each reason to refuse one. The proofs remove
the bounds for all the safety properties (section 5).

**Bounds in the models.** `MaxTime` and the finite `Req` bound `Exchange`;
`MaxTime` and `MaxChanges` cap the clock and the registry of `PskResolver`; the finite `Session` and `Conn` sets cap how many
connections are alive at once, and in `Handler` also how many conn_ids have
entries. `MaxChanges` bounds how often a document is replaced in `Download`,
`MaxFrames` what is sent on the open connections in `TlsTcp`. `uploads` keeps `MaxEntries` below the number of
conn_ids: were every conn_id held by a leftover, no new connection could be
modelled, which the real, unbounded `next_conn_id` never meets.

**Deadlock** is checked in every run.

**Fairness.** `MbedListener!Fairness`: the operating system schedules the
listener thread and every session thread, so their own steps (route, consume a
queued datagram, clean up, notice a closed channel or a deadline that has passed)
are weakly fair, as one: a thread that always has a datagram to read owes nothing
else; and time reaches the handshake deadline (`DeadlinePasses`). Nothing is assumed of the network, of idle timeouts
or of peers. `DtlsListener!Fairness` is the same for
connection threads and their handshake deadline. `Handler!Fairness`: threads run and dovecote calls end (the client
has a timeout), time passes for a table entry, and, as an assumption about the
environment that the code's comment at `handler.rs:132` makes as well, devices
keep connecting and asking: the code reclaims only on requests. Strong
fairness of `Receives` says no more than that requests arrive again and again
as long as connections that could carry them are there again and again.
`Download!Fairness`: the thread handles what it is asked, the device asks, and
an answer that is there again and again is taken at some time; any number of
answers is lost before that. `TlsTcp!Fairness`: time passes, and a call that has
lasted a tick returns, which is what the socket timeouts are for, and so does a
lookup, which has its own; nothing is assumed of the peer. `Supervisor!Fairness`: main and the threads run, and the
service manager restarts the process.

## 4. Findings

1. *Cookie flag* (`mbed_cookie_flag`). The design document says the cookie flag
   is touched only on the listener thread. `cookie_check_tramp` can run on a
   session thread under port reuse; if it does so between the listener's
   `clear_cookie_verified` and `take_cookie_verified`, the source the listener
   is handling is promoted without a cookie of its own.
2. *Lost final flight* (`mbed_flight`). The comment at `dtls_mbed.rs:689` keeps
   the address route so that the client's retransmitted flight still reaches the
   session; the guard at line 420 sends it to the cookie path.
3. *403 and the stale grace* (`psk_status`). The operations document says new
   handshakes fail once the 60 s cache drains when dovecote answers 403; the
   code serves the stale entry for up to 300 s, as for an unreachable dovecote.
4. *A listener exits* (`supervisor`). `main.rs:132` and the design document say
   that any listener's exit ends the process. main joins the listeners one after
   the other, and the first join that returns only leads to the next: with the
   UDP listener gone and the TCP listener running, the process stays, and so it
   does with the TCP listener or the canary gone and the UDP listener running.

Limits of the code that the properties are stated around: at 256 entries the
duplicate cache evicts the oldest whatever its age, so a client that starts more
requests than that within its retransmission window can have one executed twice,
although the comment at `dtls_common.rs:16` rules that out (`ForgetsOnlyOldest`
is what the cache does promise, and `Burst` in the `exchange` run keeps below
it); a JSON document that is replaced while it is fetched in blocks is mixed,
because each block is a call of its own and has no ETag (`DownloadsWhole`
excepts it); the number of a block is a u32 of which 28 bits are left in the
option, so a document of more than 4 GiB cannot be fetched to its end in the
smallest blocks (`DownloadAssumption` keeps documents below that; past it, under
the smallest ceiling, a block is served under a number that names another
offset, and `AnswersTheOffset` fails); and the text of an error response may exceed a small
`LOFT_UDP_MAX_BLOCK_BYTES` (`DatagramsFit` is about documents).

One more comment promises more than the code keeps: `tls_tcp.rs:145` and `:43`
call the handshake deadline a wall-clock bound on the whole handshake that every
read and write enforces. The PSK callback runs between two of them and blocks
for up to 5 s (`psk.rs:78`), so a key exchange that comes just before the
deadline keeps the slot for that much longer. What does hold, and is checked and
proved, is `HandshakeBounded`: deadline + tick + lookup timeout.

## 5. Proofs

All with TLAPS (SMT, Zenon, LS4), from the named assumptions on constants only.

* `MbedListenerProofs`. `Structure` is the inductive invariant: types; per
  phase, which routes a session has and what `established`, `addrRouted` and
  the committed peer are; a queued datagram of an addressed kind came from the
  session's own peer; the listener's `minted` CID is free until promoted; at
  most one session is between admission and spawn, and it is the one `cur` is
  about. Each safety property by itself is not inductive: that cleanup leaves a
  newer session's entry alone needs to know who owns which entry, and that
  promotion cannot evict a handshake needs to know that the datagram that led to
  it was routed past the session because it was established. `CidRouteSafe`,
  `HandshakeRouteSafe`, `OwnershipSafe` and `ReplyPathSafe` follow.
  `CookieGate` adds that without port reuse the flag is set only by the current
  datagram. `QuotaInvariant` counts permits with finite cardinalities, action by
  action: only admission, exit, a failed spawn and the other listener move a
  permit; `QuotaSafe` and `TypeCorrect` (counters never below zero) follow.
* `PskResolverProofs`. `PskInv` says of a call in flight when it started, that
  its answer was in force at or after that time, and that no call is older than
  the timeout; `CacheSafe` and `FreshnessSafe` follow for all TTLs.
* `PskHandshakeProofs`. The resolver's lemmas carry over action by action: a
  callback's step is a step of `PskResolver`. `HsInv` adds that a callback in a
  lookup waits for its own identity's, and that a session keyed with anything but
  a random key has key and token from one live answer; the registry only grows,
  so neither is undone by a refresh between the callback and the end of the
  handshake. `SessionsProven` follows.
* `HandlerProofs`. `HandlerInv` ties the table to `run`: an entry is the upload
  so far, and a body upstream is a whole one. The keys being distinct per
  connection is what keeps another connection's step from disturbing either.
  `BodiesSafe`, `MemorySafe` and the action property `UploadsSafe` follow.
* `ExchangeProofs`. `ExchangeInv`: an entry is the response of a logged execution
  with its message id; the request in hand is not in the cache; and every
  execution is remembered, older than the TTL, or behind `Cap` executions that
  are no older. The last part makes `ForgetsOnlyOldest` inductive. Its hard case
  is eviction: the evicted entry is a minimum of `Cap` entries, entries map
  injectively to executions, so the others and the new one are `Cap` that are no
  older. Nothing is assumed of client, network or clock.
* `DtlsListenerProofs`. `Structure`: the datagram in hand has a source without
  an entry (only the listener thread inserts), from verification on it is the
  stamped source and has a cookie; entries are under their connection's address.
  `CookieSafe` and the action property `SlotSafe` follow. `DtlsQuota` counts
  permits in three hands (threads, the other listener, the listener between
  admission and spawn); `PermitsSafe` and `DtlsTypeCorrect` follow.

* `ExchangeProofs`, the refinement. `ExchangeInv` alone cannot exclude a second
  execution: that depends on when things happen. `TimeInv` adds, for each request
  under way, when it was first sent and how late a copy may be on the wire
  (`ClientInv`, `WireInv`), in the channel, by its position (`ChanInv`), or in
  hand (`SrvInv`); when an execution happened relative to its request's start
  (`LogInv`); and that a request was executed at most once, by its own message id
  (`OnceInv`). `ExchangeTimely` proves both invariants together from `Timely`. The
  step that matters is `NotAgain`: a copy of a request that was executed finds its
  response. It is not too old (`Reading < Ttl`); it was not evicted, because the
  `Cap` executions no older that `ExchangeInv` would require were all started
  within one `Window`, in which `Burst` and the request itself do not make up
  that many. `ReplyIsOwn` is the converse: what a lookup finds is the request's own,
  because an earlier request of that id is older than `Lifetime` and its response
  gone. `ExchangeRefines` then maps each action: an execution is a step of
  `AtMostOnce`, a reply another, everything else stutters.
* `DownloadProofs`. First arithmetic, with no state: `CappedFacts` (rescaling keeps
  the offset or saturates beyond every document), `OptionCarries` (a block within a
  document below 4 GiB survives `Encode` and `Decode`), `WithinReach` (which offsets
  those are). Then `FirmwareSound` and `ShadowSound`: whatever dovecote answers, the
  handler's response is the bytes at the offset asked for, within the ceiling, with
  the right more bit. `DownloadInv` ties request, response and device together:
  the request in flight asks for the offset the device has reached (`ReqInv`), the
  response is sound for the version it came from (`RespInv`), and what the device
  has is a prefix of one version, a proper one while more is to come (`GotInv`).
  No property is inductive without the others: that an image is whole needs the
  more bit to be right, which needs the response to be for the offset the device
  reached. `OffsetsAnswered`, `CeilingKept`, `OneImage`, `NothingMissing` and
  `MoreIsServed` follow for every word width, block size, ceiling and set of
  documents that `DownloadAssumption` admits.
* `TlsTcpProofs`. `ThreadInv` says that a handshake is older than its deadline by
  less than its current call has lasted, and one in its lookup by less than a tick
  and the lookup so far (`Paced`): `HandshakeBounded` is not inductive, because a
  step that extends a call has to know that the call began before the deadline,
  and one that extends the lookup that it began within such a call. `TcpTypeCorrect` needs that the decoder never takes more out
  of the buffer than there is (`FrameInBuffer`, for every byte string).
  `TcpPermitsSafe` counts permits as for the other listeners. `VerdictStays` is
  about the decoder alone: once it has found a frame, or that there is none, no
  bytes that follow change that. `OrderInv` builds on it. It is said of each
  connection by itself, as a relation between the values of its variables
  (`Orderly`): there is a number `d` of messages that have been decoded, the buffer
  and the wire together are the frames of the others (`Undecoded`: a function
  gives what follows each message, in place of a fold), and what is written is the
  answers to the first `d`, less the one in hand. So `HeadIsNext`: what the decoder
  finds in the buffer is the next message of the stream, because the buffer's
  verdict is the whole stream's, and that is the verdict of the next frame by
  itself. `ServedInOrder` and `NothingWaits` follow, both from `CodecSound`: if the
  next frame were complete in the buffer the decoder would not ask for more.

The assumptions are those named in the modules: limits are natural numbers, sets
of connections are finite, streams carry bytes (`BytesAssumption`), documents are
below 4 GiB. `Timely` is a hypothesis of the two theorems about time, `CodecSound`
of the three about the order of answers, and neither of any other.

Only model-checked: the liveness properties (fairness is out of this prover's
reach), and the four violations. That decoding inverts encoding for every message
is an induction over its options, out of reach as well: TLC evaluates `CodecSound`
for the messages of the run, and the theorems have it as a hypothesis.

## 6. Not modelled, and the plan

Not modelled: the HTTP client behind `device_request` and its JSON type, logging
and the wording of messages, the choice of TLS versions and suites, the
retransmission timer and the IO trampolines of the mbedTLS shim, the raw
bindings of both shims, the UDP header of `coap/udp.rs`, the test harness and
the deployment files. They keep no state of their own, or the state of a library.

Planned, in this order:

1. The part of `CodecSound` that is no induction: that the header of a frame, its
   length, code and token, is decoded as it was encoded for every length, so that
   only options and payload are left as a hypothesis.
2. An abstract listener specification (a partial map from peers to live
   sessions) that both DTLS listeners are compared with.
