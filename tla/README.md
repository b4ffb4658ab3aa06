# A TLA+ verification of the KoutenDB Go driver

This directory specifies the Go driver for KoutenDB: the native TCP client
(package `koutendb`) and the embedded driver over the C ABI (package
`embedded`). TLC checks the specifications on small instances, TLAPS proves the
properties that matter most for every value of the constants.

## 1. The system

### Components

| Component | Source | State | Operations |
|---|---|---|---|
| TCP client | `client.go` | `gate` (a channel with one token), `connections` (peer to `*wire`), `closed` | `Dial`, `lock`/`unlock`, `drop`, `Close`, `ensure`, `Put`/`PutJSON`/`PutCodec`, `Health`, `Get`/`Query` and their JSON forms (`read` inside `readOperation`) |
| Wire exchange | `wire.go:145-209` | the socket's write and read deadlines; locals `frame`, `attempted`; the callback of `context.AfterFunc` | `exchange`, `deadline` |
| Frames and sealing | `wire.go:18-144` | `reader`, `key`, `plain` | `line`, `rawBytes`, `fill`, `bytes`, `header`, `expect`, `encrypt`, `derive` |
| Handshake | `wire.go:210-273` | sets `key` | AUTH or AUTHCHAL/AUTHRESP, HELLO, WIREVER, CODECMETA |
| Options | `options.go` | none | `normalize` |
| Record identity | `id.go` | none | `ParseID`, `parseFields`, `bounded`, `uintField` |
| Errors | `errors.go` | none | `ioError`, `Error.Is` |
| Embedded driver | `embedded/db.go` | `runtimeOnce`; per DB `mu`, `jobs`, `closed`, and a worker goroutine locked to a thread that owns the handle `raw` | `OpenWithOptions`, `call`, `Close`, `PutVec`, `Get`, `Query`, `Update`, `Remove`, `ReadRing` |
| Conformance adapter | `cmd/conformance/main.go` | the client at hand | `main`, `run`, `kind` |
| Examples | `examples/` | none | straight-line programs |
| External | server, libkoutendb, `net`, `crypto/tls`, `context` | connections, records, error text per thread | |

### How they interact

A goroutine that calls a method of `Client` waits for the token of `gate` (or
its context), then owns the connections until the deferred `unlock`. It gets a
connection from `ensure` (map, or dial + TLS + handshake), and runs
`wire.exchange`: one request frame, one reply. Successive calls reuse the
connection. Two other goroutines interfere: the timer or canceler of the
context, and the callback that `context.AfterFunc` starts, which moves the
socket's deadline to now. A failed exchange closes all connections (`drop`),
and the server may still execute a request that it received before that. A
read follows `FWD` replies to other peers and is tried a second time after a
connection error or a timeout; a put is never retried and reports
`ErrIndeterminateWrite` when its outcome is unknown.

A goroutine that calls a method of the embedded `DB` takes `mu`, sends a closure
over the unbuffered channel `jobs` and waits for its answer. The worker calls
the library on its own OS thread, because the library's error text belongs to
the thread.

`Dial` normalizes the options once; every connection after that, also after a
`drop`, repeats dialing, TLS, authentication and the agreement on galaxy, wire
version and codec metadata with them. What a connection reads goes through
`header` and `bytes`, which after a challenge login open SEC frames into `plain`.
The conformance adapter is a caller of the client that reads requests from its
input and turns errors into names.

### What is hard, and what makes each component correct

| Component | Hard behaviour | Correct when |
|---|---|---|
| TCP client | several callers on one gate; cancellation at any step; late replies and late execution; retry and redirect; Close behind and ahead of queued calls | mutual exclusion, no reply to another request, a put stored at most once and reported truthfully, Close final, bounded work, every call returns |
| Wire exchange | callback goroutine against deadlines set by the exchange; contexts shared or replaced between exchanges on one connection; partial writes | interrupts only by its own cancellation, no cancellation lost, `attempted` truthful, always returns |
| Frames and sealing | replies split over SEC frames at any byte, a bound on buffered bytes | the bytes handed out are the bytes sent, legal replies are accepted, the buffer is bounded |
| Handshake | key switched on in the middle of the sequence; a context of its own inside the caller's; servers that refuse, differ or say nonsense | each request in the right order and under the right key; a connection is what was asked for; errors are true; it ends in time |
| Options | zero means default, a token is a password, limits that other parts rely on | no limit is left at zero, accepted options never fail later |
| Record identity | integers at the limit of their width, more than one text for a number | one text for a record, sent back as it was given |
| Errors, adapter | errors that wrap errors, one kind that is also another; clients replaced and closed | answers are true of the record and named by their own kind; no client is left open |
| Embedded driver | several opens at once; thread-bound error text; methods and Close in any order | the library's contract is kept, methods take effect one after the other, also those that fail, nobody waits on a dead worker, buffers are freed |

The hazards behind the properties are listed, with their lines, under "hazards"
in `PROJECT.json`.

## 2. Modules

| Module | What it is |
|---|---|
| `KoutenClient` | the client, with the server it talks to |
| `ClientInvariants` | its properties, the inductive invariant, the mapping to the contract |
| `KoutenContract` | what the callers of a client may rely on, without gate, connections, retries |
| `ClientExchange` | the client over `ExchangeContract`: the composition of the two, and its invariant |
| `MCClient`, `MCClientExchange` | instances for TLC, the watched call of the liveness run |
| `ClientProofs` | the theorems about the client |
| `RefinementProofs` | that the client implements its contract, and the composition the client |
| `KoutenExchange` | `wire.exchange`, statement by statement |
| `ExchangeContract` | what its callers rely on: which error says what of the request |
| `ExchangeInvariants` | its properties, the inductive invariant, the mapping to the contract |
| `ExchangeProofs` | the theorems about it |
| `WireReply` | the bytes of a reply, and which replies are acceptable |
| `SecureStream` | reading them, in the clear or out of SEC frames |
| `ReplyContract` | a reply read in one step |
| `StreamInvariants`, `StreamProofs`, `MCStream` | properties and mapping, theorems, instances for TLC |
| `KoutenOptions` | `normalize` as an operator |
| `KoutenHandshake` | `Dial`, `ensure`, `handshake`, with the server; extends `KoutenOptions` |
| `HandshakeInvariants`, `HandshakeProofs`, `MCHandshake` | properties, theorems, instances for TLC |
| `KoutenID` | reading and writing the names of records |
| `IDInvariants`, `MCID` | properties against a reference definition, instances for TLC |
| `IDProofs` | the theorems about them, and what the recursive definitions compute |
| `KoutenErrors` | `Error.Is`, `kind` |
| `KoutenAdapter` | the conformance adapter; a client of it is an instance of `KoutenContract` |
| `AdapterInvariants`, `AdapterProofs` | properties and theorems |
| `EmbeddedDB` | the embedded driver, with the library it calls |
| `EmbeddedInvariants` | its properties, the inductive invariant, the mapping to its contract |
| `EmbeddedContract` | methods that take effect at one moment each, Close last |
| `MCEmbedded` | instances for TLC |
| `EmbeddedProofs` | the theorems about the embedded driver |

Definitions whose comment starts with MUTANT are not part of a specification.
Each is a plausible bug in the definition that follows it, and is there to show
that a property notices it (`PROJECT.json`, "mutants").

### KoutenClient

A member of `Calls` is one API call, made at most once; any number of them run
concurrently. `pc` is its place: `lock` (the select on the gate), `ensure`,
`dial`, `exchange`, `write`, `reply`, `unlock` (the deferred send), `done`.

| Code | Actions |
|---|---|
| entry and argument checks of the methods | `Invoke` |
| `lock`, three outcomes after the token, and `ctx.Done()` | `Lock`, `LockCanceled` |
| `Close`, `unlock` | `Close`, `Unlock` |
| `ensure` | `Ensure`, `Dialed`, `DialFailed` |
| `exchange` | `Exchange`, `Write`, `WriteFailed`, `ReplyFailed` |
| reply closures of PutCodec, Health and read | `ReplyAccepted`, `Redirected`, `ReplyRejected` |
| error handling of PutCodec and `readOperation` | `PutFailed`, `ReadFailed`, with `drop` and `PutError` |
| the caller's context | `Cancel` |
| the server (external) | `Serve`, `ServeStray` |

A request is identified by its call, attempt and hop (`Request`), which the real
protocol does not transmit: the identity exists in the model so that a reply to
another request can be told apart. `Query` is `get` with a body and `GetJSON`
decodes afterwards, so `get` stands for all reads of a record. What a reply
contains is one of `ReplyKinds`; `BAD` stands for every field that a check of the
driver refuses. A stray is a PUTR whose connection is closed and that the server
may still execute. The server answers in order, answers `ERR` only to a PUTR it
did not store and `ID` only to one it did; a `BAD` answer leaves that open.

`ensure` checks `closed` and the number of the peer once more (`client.go:84-89`).
Neither can fail where the model calls it, so `Ensure` has no such branch:
`ClosedIsTerminal` says the one, and the other is the range of `node`. The bound of
the loop over `hops` and the refusal of `FWD` at the limit (`client.go:268`) cover each
other and are one guard, `MayRedirect`.

### KoutenExchange

One goroutine at a time (the gate's) runs exchanges in sequence; each has the
same context as the one before (a redirect, a retry, the handshake) or another,
and the same connection if the one before succeeded. The callback of each
exchange goes through `armed`, `running`, `set`, `closed`, or is `stopped`; in
between the exchange may take any number of steps. A context with a deadline is
`due` from the moment the deadline passes to the moment its timer has set
`ctx.Err()`; sockets notice the deadline on their own. `cause` records what ended
an operation, which the code cannot see. A frame is written in up to `Frame`
pieces.

`KoutenClient` uses the exchange at the granularity of its effects (request
written whole or not at all, reply read or not, error of a kind that depends on
the context). That this loses nothing is a refinement in two steps:
`KoutenExchange` implements `ExchangeContract`, and the client over that contract
(`ClientExchange`) implements `KoutenClient`. In `ClientExchange` the exchange may
return any error that the contract admits, at any point and with the context done
or not, and PutCodec and `readOperation` classify it together with the `attempted`
of the contract:

| `ClientExchange` | `ExchangeContract` | `KoutenClient` |
|---|---|---|
| `Call` | `Begin`, with the context as it is | no step |
| `CancelCall` | `Cancel`, if the exchange runs for this call | `Cancel` |
| `Attempt` | `Attempt` | `Exchange` that goes on to `write` |
| `Deliver` | `Deliver` | `Write` |
| `Failed` before `Attempt` | `Finish` with `ctx`, `connection` | `Exchange` returning with nothing sent: the put keeps its own error |
| `Failed` after `Attempt` | `Finish` with `ctx`, `timeout`, `connection` | `WriteFailed`, `ReplyFailed`: the put becomes indeterminate |
| `Replied` | `Finish` with `ok`, `rejected` | `ReplyAccepted`, `Redirected`; `ReplyRejected` |
| `Apart` | no step | everything else a call does |

`ErrInvalidInput`, which the contract also admits, is left out: the methods have
checked the arguments before (`client.go:148`, `240`).

`NoForeignInterrupt` adds that a call is not disturbed by its predecessors.

### SecureStream

The bytes of the reply on the wire are `outbox`; `Ask` is the request that makes
the peer send it. `fill` takes a frame of any number of bytes, also none, so that
a frame ends anywhere; without a key the bytes are taken from `outbox` directly.
`ReadByte` and `EndLine` are `line`, `ReadBody` the `bytes` of a VAL. A byte is known by
its reply, its position and what `line` looks at: a line feed, a carriage return,
text or control. Bodies consist of line feeds. `Break` is a connection that ends or
a frame that is malformed or does not open. The length in a VAL header is
`reply.body`; that `bounded` reads it as it was written is a matter of `KoutenID`.
`ReplyContract` reads a reply in one step; this is the reply closure in `KoutenExchange`
and the replies of `KoutenClient` (where the contract refuses, the closure returns
`ErrProtocol`, a `BAD` reply).

### KoutenOptions and KoutenHandshake

`normalize` is an operator on the peers and the options; a text is its length and
whether its bytes are legible. The limits have their real values. `KoutenHandshake`
then dials one connection after the other: `Connect` is dial and TLS, `Send` the part
of `exchange` up to the frame, `Receive` the reply with the checks of `expect` and
`handshake` (`Verdict`, `NextStep`, `Derives`), `EnsureFails` the mapping of the error by
`ensure` (`Mapped`), and `Redial` a later call that finds its connection dropped.
`dialctx` is done when `ctx` is or when `ConnectTimeout` (`timer`) has passed. The server
has credentials, a galaxy, a version and a codec of its own; it answers by the
protocol (`Serve`) or says something else (`Misbehave`: a malformed reply, or an
`ERR`), or nothing. It does not claim to have done what it has not: no false OK.

### KoutenID

A name is the sequence of its fields. Integers are texts of digits, read with
scaled widths (`MaxUint64`, `MaxUint32`); a real is a float64 and the way it is
spelled, since `FormatFloat` with the shortest spelling that reads back, and
`ParseFloat`, belong to Go. `Receive` is the ID of a PUTR or FWD reply,
`UnmarshalText` a text the application has kept, `Assign` an application that sets the
exported fields, `Write` the text of `MarshalText` and the header of a GETID or QRYID. `Decimal` is defined up to the largest integer
of the wider width, which is all that a field can hold.

### KoutenErrors and KoutenAdapter

The adapter is sequential, so its `pc` and the line it works on are all its
control. Its client is an instance of `KoutenContract` per connect (`Client(k)`), whose
`sealed` is the model's `sealed[k]`: because `KoutenClient` implements that contract, what
holds here holds with the client's own concurrency below. The server stores a
record in a step of its own (`Store`), also after the adapter has moved on. A client
that is replaced is no longer stored to: what its puts were answered stays as it
was, and the client is closed.

### EmbeddedDB

`worker[d]` is where the worker goroutine of `d` is, `pc[c]` where a call is. The
rendezvous on `jobs` is one step (`Send`), the buffered answer two (`Reply` inside
a worker's action, `Receive`). `Migrate` is the Go scheduler: it moves a goroutine
that is not locked to a thread. Library calls fail or succeed as they like, and
each leaves its trace in `errorText` of its thread. One record identity per DB is
followed; a directory may already hold it when it is opened. `Buffer` has the two
returns of `buffer` (`db.go:76-85`), a result refused for its size (`Refused`) and a copy
(`Copied`), each after the deferred free.

The driver turns a failed library call into `ErrABI` and does nothing else
(`db.go:217-219`, `297-299`, `312-314`), and the header of the library promises no
general rollback (`koutendb.h:22-26`). So a put, update or remove that fails may leave
the record stored or not, whatever it was before (`Act`). What is assumed of the
library is that a call has had its effect when it returns, and that
`kouten_exists`, `kouten_get_codec`, `kouten_query` and `kouten_read_ring_json`
change no record, also when they fail.

## 3. What is checked

| Run | Instance | States | Shows |
|---|---|---|---|
| `client` | 3 calls, 1 peer, 1 redirect, no retry, over `ExchangeContract` | 1.9 M (symmetry) | gate, truth of put results, Close; the composition with the exchange's contract implements `KoutenClient` |
| `contract` | 2 calls, 2 peers, 2 redirects, retry | 491 k | no foreign reply, bounded work, at most one execution of a put; refinement of `KoutenContract` |
| `liveness` | 2 calls, 1 peer | 147 k | every call returns; a canceled one although the other holds the gate for ever |
| `exchange` | 3 exchanges, 2 pieces | 7.2 M | own interrupts only, cancellation kept, `attempted`; refinement of `ExchangeContract` |
| `exchange_liveness` | 2 exchanges, 2 pieces | 164 k | a canceled exchange returns without any timeout; every exchange returns when time passes |
| `exchange_timeout` | 1 exchange, 1 piece | - | a disagreement of code and documentation, see below |
| `embedded` | 2 DBs, 3 calls, 2 threads | 1.5 M (symmetry) | the library's contract, buffers, no stranded call |
| `embedded_liveness` | 2 DBs, 2 calls, 2 threads | 567 k | every method and every open returns; refinement of `EmbeddedContract`; the inductive invariant |
| `stream` | 2 replies, header up to 3 + 1 bytes, body up to 2 + 1 | 28 k | replies whole or refused, nothing left over, the bound of `plain`, no wait for ever; refinement of `ReplyContract` |
| `handshake` | 2 connections, 79 options, 40 servers | 344 k | keys, what a connection guarantees, truth of errors, limits of the options; Dial ends in time |
| `adapter` | 4 lines | 423 k | truth and names of answers, clients closed |
| `identity` | 33 integers per field, 14 reals | 10 k | exactly the names of the protocol are read, and kept |

Deadlock checking is off in all runs but `identity`: each call is made once, and
the system stops when all have returned. That nobody waits for ever is what the
liveness properties show instead. `ReadyMeansAgreed` includes `OptionsSettled` (no
limit at zero, `normalize` a fixed point), and `NameKept` that what is written is read
back. The type invariants and the inductive invariants that no run lists
(`InductiveInv` of the client, `ComposedInv`, `ExchangeInv`, `StreamInv`, `HandshakeInv`,
`AdapterInv`, `IDInv`) are theorems.

### Bounds

- Three calls are one that holds the gate, one that queues behind it, and a
  predecessor or a Close; mutual exclusion, stale replies and the race with Close
  need no more. The proofs hold for any set of calls.
- Three calls are checked with one redirect and with `DisableReadRetry`, since
  redirects and the retry belong to one call; the retry is in `contract` and
  `liveness`. The composition is proved for every value of the constants. (`normalize` never leaves `MaxRedirects` at zero.) Two peers and two
  redirects, in `contract`, reach a redirect cycle, a `FWD` to the same peer and the limit. `attempt` and `hops` are bounded by the code.
- Three exchanges are one whose callback may be left over, its successor on the
  same connection, and one on a fresh connection. Two pieces make a frame that is
  written in part. The proofs hold for any number of both.
- Two DBs race for `kouten_init` and for threads; three calls on one DB are a job
  in work, one waiting for `mu`, and a Close.
- `stream` has limits of 3 and 2 bytes and every reply up to one byte past each,
  with both line endings; the frame header, nonce and authenticator keep their
  real size (`Overhead`). The second reply shows what the first has left behind.
- `handshake` takes every kind of login with and without a galaxy, and each limit of
  the options at its last value and the next. Two connections show that a
  reconnect repeats the whole sequence with the same options.
- Four lines are a connect, a call, a connect that replaces the client, and a call;
  the proofs hold for any number.
- `identity` scales the widths to 22 and 12: both have a next number of the same
  length, and one that is longer. Names differ from a good one in one field, as
  fields are read independently.

### Fairness

- `KoutenClient`: weak fairness of each call's own steps, including that a
  goroutine waiting on the gate gets it while it stays available. Blocking steps
  end because of ConnectTimeout, WriteTimeout and ReadTimeout (that the exchange
  really is so bounded is `ExchangeReturns`). The server owes nothing: a silent
  server is a timeout. Strong fairness is not needed because each call is made
  once, so a waiting call cannot be overtaken for ever.
- `WatchedSpec`, of the run `liveness`: fairness of one call's own steps and of nothing
  else; the others may stop while holding the gate. That is all `CancelReturns` has;
  `CallsReturn` assumes `Fairness`, the fairness of every call, in its statement.
- `PromptSpec`: goroutines run, clocks may stand still and the peer may be silent,
  as in `PromptCancel`; `ExchangeReturns` assumes `TimePasses` in its statement.
- `EmbeddedDB`: goroutines run and library calls return.
- `SecureStream`: the peer sends the reply to its end, in frames that are not for
  ever empty, and the reader runs. A peer that does not is `ExchangeReturns`.
- `KoutenHandshake`: the goroutine runs; `DialContext` and an exchange end once
  `dialctx` is done (that the exchange does is `PromptCancel`), and need not before. The
  server owes nothing, and neither timer nor caller ever has to act.

### A disagreement

`docs/native-tcp.md:73-74` explains `ErrTimeout` as "Configured connect/read/write
timeout.", and reports the caller's deadline as `context.DeadlineExceeded`. The
socket's deadline is the earlier of the two (`wire.go:145-151`), and when the
write or the read fails of the caller's deadline before the timer of the context
has set `ctx.Err()`, `ioError` answers `ErrTimeout`. The run `exchange_timeout`
exhibits it (`TimeoutIsConfigured` is violated).

The same list explains `ErrAuthentication` as "Invalid credentials or galaxy."
(`docs/native-tcp.md:75-76`), which is narrower than the code: an `ERR` to WIREVER gives
it as well. The servers of the model refuse that step only to a client that has not
logged in; `KoutenHandshake` maps the reply as the code does.

## 4. What is proved

All proofs are checked by TLAPS to the last leaf, for any constants that satisfy
`ClientAssumption` (peer 0 exists, `MaxRedirects` is a natural number),
`ExchangeAssumption`, `EmbeddedAssumption` (the values for "no call" and "no DB"
are none of the calls and DBs), `WireAssumption` and `StreamAssumption` (the limits are
natural numbers), `HandshakeAssumption`, `AdapterAssumption`, and for names
`WidthAssumption` (the narrower width is not the larger), `NameAssumption` and
`IDAssumption` (fields are texts of bytes and floats, IDs have the fields of the Go
type; nothing is assumed of what the texts say).

**Client** (`ClientProofs`). `GateExclusive`, `NoForeignReply`, `PutOutcomeTruthful`
are not inductive: that the next call finds no late reply depends on what every
failing call has done to the connections. `ClientInv` adds

- `WireInv`: a connection is silent, or it carries one request or one answer, that
  of the call which holds the gate and waits on it;
- `ConnectionInv`, `MethodInv`: connections in use are in the map, active calls
  are puts or reads;
- `PutInv`: how `applied`, `strays` and the place of a put belong together (nothing is
  stored or in flight before the write; a stray is not stored yet; a definite
  error implies neither).

The argument: only the holder of the gate touches the wire, so a step of
any other call preserves `WireInv` (`WireFrame`, `HolderOnly`). The holder leaves
an exchange with an accepted reply, which empties the connection (`ReplyStep`), or
through `drop`, which empties all of them and makes a stray of at most its own
unanswered put (`Dropped`, `FailureStep`); `PutError` reports exactly that case as
indeterminate (`ExchangeFailedStep`). From `ClientInv` follow the theorems
`TypeCorrect`, `MutualExclusion`, `RepliesMatchRequests`, `PutNeverReplayed`,
`PutErrorsTruthful` and `CloseIsFinal`.

**Work** (`ClientProofs`). `WorkBounded` says nothing of a call in the middle of its
second attempt, so it is not inductive either. `WorkInv` accounts for `sent` while a
call is active: a whole budget for each attempt before this one, one request for
each redirect of this one, and one more while it waits for a reply (`Written`);
`hops` stays below the budget of an attempt and `attempt` below the number of attempts.
A redirect turns the awaited reply into a hop (`RedirectWork`), a retry turns hops
and reply into an attempt (`ReadFailedWork`), and both have a guard in the code that
leaves room. `ClientInductive` is the invariant with it, `WorkIsBounded` the theorem.

**Contract** (`RefinementProofs`). `ClientImplementsContract`: `Spec => Contract!Spec`.
Most steps stutter; a return is `Finish`, whose conditions are `PutInv` in the next
state; `Serve` and `ServeStray` are `Store`, or stutter.

**Composition** (`RefinementProofs`). `ComposedImplementsClient`: a step of the client
over the contract of its exchange is a step of `KoutenClient` or none. It needs
`ComposedInv`: `ExchangeLink` ties what the contract knows (done context, attempted,
delivered) to where the call is that runs the exchange, and `ExchangeIdle` says that
no exchange runs between two, which with `GateExclusive` makes the next one find the
contract idle. The step that is not evident is `FailedIsClient`: the exchange may
return `ErrConnection` although its context is done; the put reports
`ErrIndeterminateWrite` for both, the read asks the context again, so the outcome is
that of a context error (had the request not been begun, `Exchange` allows it as it
is). With `ExchangeImplementsContract` this closes the chain from the statements of
`wire.exchange` to what the callers of the client see (`ComposedImplementsContract`).

**Exchange** (`ExchangeProofs`). `ExchangeInv` adds to the types where in an exchange a
callback can be (`CallbackInv`: none but the current exchange's is alive, and none
between exchanges), what a fired deadline says (`DeadlineInv`: the current
context is done) and what of the frame has left by place (`FrameInv`). From it
follow `InterruptsAreOwn`, `CancellationIsKept` and `AttemptedIsTruthful`.

**Embedded** (`EmbeddedProofs`). `NobodyStranded` is not inductive: that a call which
reaches the channel finds a worker that receives depends on what all calls before
it have done. `EmbeddedInv` adds

- `ThreadInv`: a worker is locked to one thread, and no two share one, so nothing
  runs between a failed call and `kouten_last_error`;
- `LifeInv`: how the worker's place, the handle, `closed` and what
  `OpenWithOptions` returned belong together;
- `MutexInv`, `JobInv`: at most one call of a DB is between lock and unlock of `mu`,
  and the worker has a job exactly while that call waits for it;
- `CallInv`, `IdleInv`: where worker and answer are by the place of a call, and
  that an open DB nobody uses has its worker in the loop.

The argument: a step of a caller moves only its own call, and `MutexInv` makes it
the one the worker can have; a step of a worker answers only the call of its job
(`JobInv`), and leaves the record to nobody else between `kouten_exists` and the
operation. `EmbeddedImplementsContract` maps a worker's step to the moment a
method takes effect (`State`, `Outcome`, `Phase`), and the caller's steps after it
to stutters. For a library call that fails this moment is the failure itself
(`Failing`, `FailureAnswers`): it decides what is left of the record, so the answer is
fixed there, and reading the error text is a stutter. `OthersFail` says that
this answers no call but the one whose job the worker has.

**The contract of the exchange** (`ExchangeProofs`). `ExchangeImplementsContract`: a
return is `Finish`, which needs of `FrameInv` that replies are read after whole frames
and that a timeout belongs to a request that was begun, and of `DeadlineInv` that
an interrupted operation is one whose context is done.

**Reading** (`StreamProofs`). That `plain` and `outbox` hold what comes next needs an
invariant on positions: `Aligned` says of each place in the code which stretch of
the current reply is in `buf`, `plain` and `outbox`, and that together they are the rest of
it. From it follow `StreamClean`, `StreamBounded` (a reply that may be accepted is no
longer than the bound, so no part of it exceeds it) and `StreamRefines`.

**Handshake** (`HandshakeProofs`). `HandshakeInv` adds to the types `Settled` (the options
are those `normalize` accepted), `Wired` (request, reply and the two keys belong
together), `Reached` and `Answered` (what the server has done by the time the driver
is at a step) and `Reports` (what an error says). `InputErrorsComeFirst` rests on
arithmetic: the limits of `FieldFits` keep every header below `maxHeader`.

**Adapter** (`AdapterProofs`). A step of a client is one of `KoutenContract`; lemmas
say what each does to the call. `AdapterInv` follows the answer from the outcome of
the call (`CallInv`) over the error (`Fits`) to its name (`NameOfKind`).

**Names** (`IDProofs`). The theorems of the libraries for induction take an operator
as a parameter, which the provers cannot instantiate. What a recursive function
computes is shown instead by a least counterexample: a set of naturals that is not
empty has a least member (`Least`, from the well-foundedness of `<`), and for that the
equation of the recursion one step back gives the contradiction. In this way
`PrefixesExist` and `DecimalExists` show that the recursions define functions,
`DecimalReads` that the digits of an integer are canonical and read back as it, and
`CanonicalIsDecimal` the converse: a canonical text is the `Decimal` of its value. Both
together are `OneTextPerInteger`, for integers of any width: `uintField` reads exactly
the texts that `String` writes. From it and `IDInv` (what is held is what was read,
what was written is its text) follow `NamesAreRead` and `NamesAreKept`.

**Only model-checked**: the liveness properties (`CallsReturn`, `CancelReturns`,
`PromptCancel`, `ExchangeReturns`, `OpensReturn`, `RepliesEnd`, `DialEndsInTime`), which are
out of the prover's reach under fairness, and `TimeoutIsConfigured`, which does not hold.

## 5. What is not modelled

- Ciphers, random numbers, derivation of keys, TLS records, certificates: a
  sealed frame opens with its key or not at all.
- The parts of `tls.Config` that `normalize` fills in; `Text` and `Codec` as strings.
- JSON encoding and decoding around a put or read, the wording of errors, the
  redaction of credentials in `String` and `GoString`.
- nil receivers and nil contexts, which return before any state is touched.
- The examples: straight-line programs without logic of their own.
- A server that lies: it may be silent, hang up, refuse, or send what the driver
  must refuse, but it does not claim to have authenticated or stored what it has
  not. The server and libkoutendb beyond what the driver relies on.

## 6. What is left

The components are modelled, and every safety property that a run checks is a
theorem. Open for later work are a composition of `KoutenExchange` with `SecureStream`
in place of its reply step, and a server that lies, to tell which promises survive it.
