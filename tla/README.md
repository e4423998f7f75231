# A formal model of dashscope-realtime-go

This directory holds TLA+ modules that model the DashScope realtime SDK, the
TLC configurations that check them on small instances, and proofs that TLAPS
checks for every value of the constants. `PROJECT.json` lists the components,
the runs, the lines each definition stands for, the hazards and the findings.

Paths are relative to the repository. `conn.go` and `reconnect.go` are the ones
of `internal/transport/websocket/`.

## 1. The system

The SDK opens one websocket session to DashScope. The application sends events
through some dozen methods and ranges over the events the server sends.

| Part | State | Operations | Talks to |
|---|---|---|---|
| websocket wrapper (`conn.go`) | current connection, closed flag, `mu`, `readMu`, `writeMu` | Dial, Write, Read, Reconnect, Close, IsRetryable | library and peer; called by stream |
| backoff (`reconnect.go`) | locals of `Retry` | normalized, Delay, Retry | called by Reconnect with dialOnce |
| stream (`stream.go`) | the wrapper | send (encode, write), recv, reconnect, close, convertWireEvent | session and wrapper |
| session (`session.go`) | closeOnce, closeCh, doneCh, eventsCh (128), sessionID | Connect, twelve sending operations, Events, SessionID, Close; the goroutine readLoop | application and stream |
| client, options, auth | configuration, fixed after NewClient | NewClient, options, BuildHeaders, buildRealtimeURL | Connect |
| errors (`errors.go`) | none | mapConnectError, mapHTTPStatusToErrorCode, Retryable | Connect |
| protocol (`internal/protocol/dashscope`) | none | DecodeServerEvent, Marshal, build* | stream and session |
| examples | two channels, text and audio collected | the mains' rounds and probes, streamEvents, waitForEventType, collect | session |

One connection is shared by any number of goroutines: `readLoop` reads, the
goroutines of the application write, both may reconnect, and anyone may Close.
The wrapper serialises reads with reads and writes with writes only; a reader,
a writer, several reconnects and a close overlap freely. `mu` is never held
across a library call: every operation copies the connection under `mu` and
works with its copy afterwards.

### What is hard

* **Stale copies.** A call holds a connection that was replaced or closed since.
* **Reconnect against Close and against Reconnect.** A dial takes seconds;
  meanwhile the wrapper is closed, or another goroutine has installed its own
  connection. Every connection dialled must be installed or closed, and every
  one replaced must be closed, once.
* **Two retries for one failure.** A sender's reconnect closes the connection
  readLoop reads from, which readLoop sees as a failure to recover from.
* **Back pressure.** `eventsCh` fills up, readLoop blocks in a select, and
  Close waits for readLoop inside `closeOnce`.
* **Ends of readLoop.** Five paths lead out of the loop; on each of them the
  application must see the end of the stream, and Close must get past `doneCh`.
* **Checks that age.** `isClosed` is read once before a write, a reconnect and
  a second write.
* **Numbers.** A delay is a float product converted to an int64. Three layers
  correct the same settings, each with its own idea of what 0 and -1 mean.
* **Messages of many shapes.** A decoder that goes on after every failure and
  fills a missing field from another one, twice over.
* **Selects over two channels and timers.** The applications collect an answer
  while an error, the end of the stream or a timer may come first, and what a
  collect leaves behind is met by the next one.
* **A server with a memory.** A reconnect gives a new server session, without
  the configuration, the audio and the answers of the old one.

`PROJECT.json` "hazards" has the full list with the line of each one and the
properties that cover it, or a note where the code does what it warns of and no
document says otherwise.

### What makes each part correct

* Wrapper: no connection leaks, none has two owners, none is used before it is
  installed; Close is final and releases everybody.
* Backoff: the number of attempts is exact; the waits lie in the window.
* Session: the stream of events loses, repeats and reorders nothing; the
  session id is there when its event is; an event is not repeated on one
  connection; Close and every operation return; after Close nothing is left.
* Connecting: normalisation leaves a valid configuration, a setting in its range
  reaches the transport, the code of an error goes with its status, `Retryable`
  agrees with what the transport retries, and Connect returns.
* Decoding: text and audio of a message go to the fields an application reads
  them from, once; one bad field spoils no other; errors come through.
* Examples: a collect returns the answer it asked for, or the error that refuses
  it; the server is asked to commit the file and nothing else; a response is made
  with the configuration main knows of; the mains and their goroutines end.

## 2. The modules

| Module | Models | Built on |
|---|---|---|
| `Conn` | `conn.go`, with any number of goroutines inside | |
| `EventStream` | what `Events` promises, without the machinery (abstract) | |
| `Session` | `session.go` and `stream.go` over the wrapper | extends `Conn`, instantiates `EventStream` |
| `Policy` | `BackoffPolicy`: normalisation and delays (operators only) | |
| `Backoff` | `Retry` | extends `Policy` |
| `Connect` | NewClient, options, URL, headers, the first dial, the errors of Connect | extends `Policy` |
| `Wire` | `decode.go`, `encode.go` and `convertWireEvent` (operators only) | |
| `Decode` | readLoop's two steps from a message to an event | extends `Wire` |
| `Examples` | the applications text-chat and audio-stream with a server | extends `Wire`, instantiates `EventStream` |
| `ConnProofs`, `SessionProofs`, `BackoffProofs`, `ConnectProofs`, `DecodeProofs`, `ExamplesProofs` | proofs | each extends the module it is about, `SessionProofs` also `ConnProofs`; the theorem of `EventStream` is in that module |
| `Induction` | facts about the naturals for the other proofs | |
| `MCSession`, `MCBackoff`, `MCConnect`, `MCDecode`, `MCExamples` | instances for TLC; `Conn` needs none | |

`Session` implements `EventStream`, and `Examples` uses `EventStream` in its
place: what is shown of the applications holds over any session that keeps
the promise, and the proof that `Session` keeps it joins the two.

### Conn

`conn` and `closed` are the fields of `Conn`; `readMu` and `writeMu` say who
holds the mutex. `wire[k]` is what has become of library connection `k`:
unused, open, lost (network, or closed by the peer with a transient status),
finished (closed by the peer with a status `IsRetryable` lists as final), down
(torn down by the library after an error) or shut (closed by this wrapper).
`pc[p]`, `held[p]`, `dials[p]` and `ret[p]` are goroutine `p`'s place, its local
connection, its attempt number in `Retry` and the class of the last error.

A critical section under `mu` is one step, and so is a library call:

| Code | Steps |
|---|---|
| `Write` | `WriteFetch`, `WriteLock`, `WriteFrame` |
| `Read` | `ReadFetch`, `ReadLock`, `ReadFrame` |
| `Reconnect` | `ReconnectStart`, `DialOk` or `DialFail`..., `Swap`, then `ClosePrev` or `CloseNext` |
| `Close` | `CloseStart`, `CloseWire` |
| network and peer | `Drop`, `Finish` |

The library is external and modelled from how `conn.go` uses it. A write to a
connection the peer has left may return nil, because the kernel still takes
the frame; a write to one closed here never does. A failed read, or an expired
write, tears the connection down. A read that this side's close interrupts may
still return a payload or the peer's own status. All callers in the repository
pass `context.Background()`, so a context ends only by the configured timeouts
(`Timeouts`). A dial fails with a retryable or a final error or by its timeout, and `Retry`
repeats it in each case.

### Session

`Session` adds `at[p]`, the place of a goroutine in `session.go`, while `pc[p]`
tells where it is in the wrapper it called from there. One goroutine is
`readLoop`, the others send or close; the one that ranges over `Events` needs
no place of its own. Steps inside the wrapper are taken as they are (`Inside`),
except those the session's histories look at: `Install` (`Swap`), `SendFrame`
(`WriteFrame`), `Recv` (`ReadFrame` with a message), `NetworkDrops`.

The twelve sending operations differ in their arguments only, so they are one
action `Send` with the ways such an operation can begin. `readLoop` is `LoopTop`,
`Recv`, `Decode`, `RecvFailed`, `ReaderReconnected`, `Push`, `CloseEvents`,
`CloseDone`. Go's `select` in `pushEvent` and `pushErr` is a choice when both of
its cases are ready. The first `Close` is `CloseStart`, the wrapper's steps and
`CloseReturns`; that of another goroutine (`CloseAgain`) is "waiting" in `sync.Once`
until the first has returned (`OnceReleases`), or goes through at once after that.

A message has a number, a kind (`session.created`, another event, undecodable)
and the connection it came over. `received`, `delivered`, `installs`, `broken`,
`first` and `late` are histories: no guard reads them but the bound on messages.

`Stream == INSTANCE EventStream WITH log <- received, out <- delivered, ...` is
the refinement: a session behaves like a log that is read from the front, whose
error is its last entry, and of which only Close may drop one item, the one
readLoop had in hand.

### Policy and Backoff

Durations are integers up to `MaxInt`. A product beyond it becomes one of the
two integers Go's compilers produce for such a conversion. The factor of a
policy is an integer here; the code's float allows fractions, which change the
products and not the comparisons.

### Connect

One behaviour is one client: `Apply` runs an option (each sets fields of
`config`, and a later one wins), `NewClient` corrects the result, `StartConnect`
picks the model, `BuildRealtimeURL` and `BuildHeaders` may refuse, and the dial
ends as the server, the network, the caller's context or the handshake timer
has it. `transport` is the transport's Config after its own normalisation. A
string is a sequence of words of which some are blank, so that trimming and
the prefix test of a key mean something. An error is a code and a status.

### Wire and Decode

A message is a record of the fields `decode.go` reads. An object field is absent
(`Nil`), of another shape (`Bad`) or a record; a string is a sequence of tokens,
so that it can be empty, be joined, and be told from other strings and from
base64. `DecodeServerEvent` and `ConvertWireEvent` are the two functions,
divided by what they compute for one field (`TextOf`, `AudioOf`, `DeltaOf`, ...)
instead of by the order of the statements. `Decode` runs them on any message of
a set.

### Examples

`script` is what a main does: functions made of steps (send a request, wait for
an event, collect an answer, close), each with what a failure leads to: nothing,
the end of the function, the end of main, or `log.Fatal`. `program` picks the
application and its flags. A request is built by the operators of `Wire`, and
every event main looks at is `Event(Payload(...))`: the server's message, decoded
and converted by `Wire`. The goroutine of `streamEvents` is `pump` with its two
channels; Go's `select` is a choice among `SelectEvent`, `SelectError`,
`SelectClosed` and `SelectTimer`.

The server is external. It answers with the two shapes the applications know
(deltas that end with response.done, and choices), may refuse to give an answer
(`Refusal`), cuts a cancelled answer short or refuses the cancellation (`Denial`),
ends the session at any time, and starts afresh after a reconnect. Both refusals
are the same error event to the application. A send may fail after the request
has arrived, and then be repeated on the new connection. `answers`, `commits`,
`refused`, `cancelled`, `denied`, `configured`, `cleared`, `disturbed` and `errorTaken` are
histories. The probe of the API methods sends a first frame of the file only if
there is one (`Frame`).

### Mutants

Some definitions are preceded by one marked `Mutant`: the same operation with a
plausible mistake (a forgotten close, a check left out, an off-by-one). No
specification uses them. Each property of each passing run is violated when the
mutant `PROJECT.json` names for it takes the place of the original.

## 3. The runs

| Run | Instance | Question |
|---|---|---|
| `conn` | 2 goroutines, 3 connections, 2 attempts, handshake timeout only | Can any interleaving of Write, Read, Reconnect and Close leak, share, expose or resurrect a connection? Do stale calls and calls at Close return, and is everything closed in the end? |
| `session_stream` | readLoop, a sender, a Close, 2 connections, 2 messages, channel of 1 | Does the stream of events keep its promise through reconnects, back pressure and Close? |
| `session_retry` | readLoop, 2 senders, 3 connections | Do reconnects that race repeat an event on a connection, or redial without a cause? |
| `session_live` | readLoop, a sender, a Close, 2 connections | Does every send return, and Close too while readLoop and the sender reconnect, and is nothing left behind when it has? |
| `session_full` | readLoop, 2 Closes, reconnect disabled, 3 messages, channel of 2 | Do both Closes return, the one that has to get past a full channel and the one behind it; does the stream end; is there ever a second connection? |
| `backoff` | fields from {-1, 0, 1, 3, 40}, factors from {-1, 1, 2, 3}, up to 5 attempts | Are waits and attempts what the policy says, as long as the products fit? |
| `connect` | every pair of 42 options, 5 keys, 2 models, 15 statuses | Which settings and headers reach the transport, which error does Connect return, does it return? |
| `decode` | 194,400 states: absent, ill-typed, empty and present fields combined | Are text and audio told apart, do the second fallbacks change anything, does a bad field spoil another, do errors come through? |
| `examples` | 6 programs: both mains and the isolated probe with their flags, answers of 2 deltas, channels of 2 and 1 | Do the applications collect their answers whole and their errors where they belong, commit the file, run as configured, and end? |
| `session_closed_error` | violation | An operation that overlaps Close does not return ErrSessionClosed. |
| `session_ended` | violation | After the peer's final close an operation succeeds on a connection nobody reads. |
| `backoff_overflow` | violation | A delay whose product overflows is negative and leaves the window. |

**Bounds.** Two goroutines have every race of two calls in the wrapper (two
reconnects, a reconnect and a close, a call on a stale connection); the races of
three are in the session runs, and the proofs of the wrapper's safety hold for
any number. Three connections allow for two replacements, so a connection can
be stale twice over. When the connections are used up a dial can only fail,
which is a behaviour of the code too. `Attempts` of 2 exercises the repetition
in `Retry`; the session runs use 1, because there the dial is a single step for
the session. `Cap` of 1 or 2 stands for 128: the channel is full, has room and is
empty within two messages, and with a `Cap` of 2 and 3 messages readLoop blocks
with an item in hand. `MaxSends` of 1 includes the event and its repetition.
Runs about what readLoop recovers from need no messages (`MaxMsgs` 0); in
`session_stream` two messages suffice for an order, a second session id and a
message behind an error. The overflow run uses a small `MaxInt`, which scales
the arithmetic and not the order of the operations. In `session_stream` and
`session_retry` goroutines of one role and connections are interchangeable,
hence the symmetry; no liveness run uses it.

Two options are enough for one to overwrite another and for a field of each
kind to be out of its range; the settings are small numbers around the
boundaries of each correction, with the defaults inside their ranges. The
messages of `decode` have, in each field the decoder looks at, each value it can
tell apart, with strings that all differ. The programs of `examples` reach every
function of the mains that is modelled; two deltas make an order and a rest, an
`eventCh` of 2 and a session channel of 1 fill up within an answer, and three
bytes in chunks of 2 make a short last chunk. A program that reconnects does so
once. `MaxItems` is larger than what a session can receive, so it cuts nothing
off.

**Fairness.** A goroutine that can run does (weak fairness of its steps), and a
library call ends when something ends it: the library bounds its close
handshake, a dial ends because of the handshake timeout (15 s unless the
application sets it to 0), a write because the write timeout is always positive
(`client.go:48-50`), a read only if its connection is no longer open, because
the read timeout is 0 by default. Waiting for `readMu` and `writeMu` is strongly
fair: a Go mutex is handed to a waiter that has starved for a millisecond.
Nobody is assumed to call an operation, to close, or to take events; `StreamEnds`
says in the property itself that the application keeps ranging. `CloseTerminates`
and `SendsReturn` are about a session with a handshake timeout, as NewClient's
default gives it: without one the dial of a reconnect may hang, and Close with
it. `Backoff` has safety properties only and needs no fairness. In `Connect` the local steps are taken and a handshake timer that is set fires;
server and network owe nothing, which is why `ConnectReturns` excepts a timeout
the application has set to 0. In `Examples` the goroutine of `streamEvents` runs,
an operation and Close return (which `SendsReturn` and `CloseTerminates` show of
the session), and a timer fires in the end; the server need not answer.

`decode` turns the deadlock check off, because a message has been dealt with
after two steps. Everywhere else what has come to its end stutters (`Terminated`,
`Over`, a finished `Retry`), and in the wrapper and in `session_retry` a call can
always be made or a frame dropped.

## 4. The findings

1. `errors.go:31` says ErrSessionClosed is what an operation on a closed session
   returns. A Close that comes after `sendEvent`'s check makes the write fail with
   the wrapper's own ErrClosed, wrapped once, which the application cannot test
   for: it lives in an internal package (`ClosedMeansErrSessionClosed`).
2. `session.go:239` calls FinishSession a graceful close of the session. When
   the peer closes with a final status, readLoop ends but the session does not
   count as closed. The next operation sees the library's `net.ErrClosed`, takes
   it for transient, dials again, sends, and returns nil; nobody reads the
   answer (`EndedSessionRefusesOperations`). The connection is not leaked: Close
   closes it.
3. `reconnect.go:39` converts the product to a Duration before line 40 caps it.
   An overflow is negative on amd64, passes the cap, and makes the wait zero. With
   the default policy this begins at attempt 37 (`DelayInWindow`).

Two more disagreements have no run, because the state they are about is a
single assignment:

* `README.md:130` names `ConnectionFailed` as the code of transport errors. A dial
  that gets no answer has status 0, which `mapConnectError` turns into 503 and so
  into `ServiceBusy` (`session.go:420-423`, `errors.go:118`); `IsServerError` holds
  of it. The branch that makes `ConnectionFailed` of a dial error
  (`session.go:412-418`) is not reached, since Dial returns ConnectErrors only.
* `README.md:118` says that public API errors are exposed as `*dashscope.Error`.
  Connect's are; those of `sendEvent` and of the event stream are plain wrapped
  errors.

## 5. What is proved

All theorems hold for any values of the constants that meet the modules'
assumptions: any sets of goroutines and connections, any number of attempts,
any timeouts, any capacity and bounds; any options, defaults and statuses; any
policies; any set of messages; any programs of probes and rounds, any file and
size of its chunks. The assumptions are

* `ConnAssumption`: nil and nobody are not members, `Attempts` is a natural number;
* `SessionAssumption`: roles are disjoint, the channel has room for one;
* `ConnectAssumption`: the defaults are in range, as the constants of `client.go`
  are; what an option sets is an integer where the field is one, and no option
  sets the key; a key is a string;
* `BackoffAssumption`: a policy is made of durations;
* `DecodeAssumption`: a message has its fields, and its string fields are strings;
* `ExamplesAssumption`: an application is one of the three, nil is no
  configuration and no number, the audio file is not empty (the code refuses an
  empty one), a chunk and a first frame have room for a byte, an answer has a part;
* `FieldsAssumption`, in `Examples` too: what a server's message carries (an event,
  a choice, a list of choices, a usage) is neither absent nor malformed, that is,
  not one of the two values that stand for this. In the code the two are nil and
  a field of another JSON type.

### The wrapper: `ConnProofs`

`TypeCorrect`; `NothingLeaks`, `Exclusive`, `Private`, `Usable`, the four safety
invariants of `conn`; `CloseIsFinal`, its action property.

The four invariants are not inductive one by one. `NoLeak` after a close rests
on `OneOwner` (the connection shut is nobody else's); `OneOwner` after a dial
rests on nobody holding an unused connection (`HeldIsUsed`); `CurrentUsable`
after `Swap` rests on the dialled connection not having been shut meanwhile
(`DialledIsUsable`), which in turn rests on `OneOwner`. `Ownership` is the conjunction
of the six, inductive together with `TypeOK`. The step lemma groups the actions:
those at which ownership stands still (`QuietStep`), those that shut an owned
connection and return (`ShutStep`), the dial, the swap and the start of Close.

### The session: `SessionProofs` and `EventStream`

* `SessionUsesWrapper`: every behaviour of the session is one of the wrapper's;
  `SessionLeaksNothing`: the wrapper's invariants in a session.
* `StreamPromiseKept`: the session implements `EventStream`, step by step or by
  stuttering; `SessionIDNeverBehind`. The refinement needs to know that the items
  which have come out, wait in the channel and are in readLoop's hand are, in this
  order, the items received (`InLine`); that only a Close makes readLoop drop one,
  after which it receives none (the second disjunct there); that an error is last
  and readLoop leaves after it (`Phases`); and, for the id, that the n-th item has
  a number of at most n (`Numbered`). `ReaderInv` is the conjunction, with types.
* `PromiseKept`, in `EventStream`: what the abstract stream implies: the output is a
  prefix of the log, an error is last, and a stream that ends without Close gave
  out everything. With `StreamPromiseKept` this is what an application may rely on.
* `SessionTypes`; `CloseCompletes`, which rests on where a closer can be (`CloserInv`):
  the one in closeOnce has left the transport closed behind it, and is out only
  after `doneCh`.
* `RetryElsewhere` rests on the connection of the first attempt being out of the
  wrapper for good once the reconnect has succeeded: it has been in use, no
  goroutine is about to install it, and Swap has replaced it (`FirstIsOut`,
  `UsedStaysOut`). `DisabledHolds` says the same of the only connection there is.
* `EventsInOrder` rests on readLoop reading from a connection that was current
  when the read began, which was the last installed then (`OrderInv`).
* `RedialsHaveCauses`: `NoSpuriousReconnect` compares the numbers of two kinds of
  events over a whole run. `CauseInv` finds for every redial of readLoop, the one
  under way included, a connection that pays for it (`Paid`): one that broke or
  that a sender replaced, and neither the connection in use nor the one readLoop
  reads. A read that fails turns the connection it read into a payment, which
  needs that connection to have been installed, and to be the current one unless
  Close or a sender took it away (`ReadInstalled`).

### The smaller components

* `BackoffProofs`: `AttemptsExact`, by an invariant that says where the loop
  stands (`LoopInv`): a wait is always followed by another attempt. `RetryTyped`, and
  `WaitsInWindow` for policies whose products are durations (`ProductsFit`): without
  that premise it is false (finding 3). Both rest on what the power in a delay is
  for any exponent, a function defined by recursion (`PowerStep`).
* `ConnectProofs`: `SettingsSettled` (from `Settled`: each correction of NewClient
  leaves a value the lower layers do not touch); `SettingsReachTransport`, from what
  the options wanted being kept where it is in range (`Kept`) and from the key being
  trimmed once and for all (`TrimmedTwice`: what is left has no blank at its ends,
  so that the header holds the scheme once); `CodesMatch`, `AdviceAgrees`.
* `DecodeProofs`: `ErrorsComeThrough`, `SecondFallbacksIdle`, `BadFieldsAbsent`,
  `NothingUsedTwice`. Both results are functions of the message (`ResultsInv`), so these
  are facts about the operators; the second one rests on a fallback applied twice
  being the fallback applied once (`OrAgain`), the last one on tracing the two
  fields back to their sources, which differ in a message whose strings differ.

### The applications: `ExamplesProofs`

The session in them is `EventStream`, so that `StreamPromiseKept` carries these
results over to the session itself.

* `ChannelsCloseAfterError`. `PumpedInv` follows streamEvents' goroutine: it has left
  its loop only after the session's error, which it has passed on by then, or
  after Close, which main calls last.
* `TextCollectedInOrder`. Texts stand in line (`TextInv`): what the collects have
  gathered, eventCh, the pump's hand, the session's channel and what the server
  has to send come after each other, each is in order, and none belongs to an
  answer not yet asked for. A late answer, a cancelled one or a reconnect takes
  texts out of the line and never puts one in front of another. The lemmas say
  what the two sorts of collect make of each of the server's messages, through
  both decoding steps of `Wire`.
* `ConfiguredBeforeAsked`. `PositionInv` says that main stands at a step of its
  script; `ScriptForm` and `ScriptEnds` that any script, whatever its probes and
  rounds, begins with connect and ends with Finish. Past the update in connect the
  server has a configuration, since a failed update leads to Close, and it is the
  one main was told of, except between the two attempts of an update
  (`ConfiguredInv`).
* `FileCommittedWhole`. In any script the file is sent right after the buffer was
  cleared, with at most a function between that leaves the buffer alone
  (`Prepared`). While it is sent the buffer holds the chunks before main's, from the
  first one on, or from some chunk on when the session has reconnected since the
  clear (`Filling` in `AudioInv`); chunks in a row make up the file (`ChunksJoin`).

* `AnswersCollectedWhole`. What a collect returns is text of the answer to the
  request before it: all of it, unless that was cut short, when the end of an
  answer ends the collect; and none of it, because it was refused, when an error
  of the server's does. The exceptions are what may leave a part of an answer, or
  an error, to a later collect: a timer, the error or the end of the stream
  ended a collect before; a send failed; the session reconnected; and a refused
  cancellation, whose error does not say what it refuses. This one is met by
  whichever collect comes next, and after `probeCancelPath` that may be the one of
  the first round, which ends main (text-chat:209, 399). Up to then, and for that
  collect too, the theorem says that such an error needs a refused cancellation.

  A theorem about what has arrived needs to know where everything else is. Of
  the messages a collect counts (texts, sounds, the end of an answer and its
  refusal), `Coming` are those still in eventCh, in the pump's hand, in the
  session's channel or with the server; `Denials` are the refusals of
  cancellations there. `Rest(n, t, s)` are the messages of answer `n` but its first
  `t` texts and `s` sounds. `AnswerInv` says, while nothing of the above has happened:
  between a request and the end of its collect (`Expected`) only messages of the
  last answer asked for are coming, namely its refusal if it was refused, with
  nothing collected, and otherwise, unless it was cut short, what is collected are
  its first `t` texts and `s` sounds for the `t` and `s` whose `Rest` is coming; anywhere
  else in the script nothing is coming; and no denial, which is no message of an
  answer (`NothingDenied`), is on its way before the server has refused a
  cancellation. It is inductive with three
  others: the line of `TextInv`, from which the next message out of eventCh is the
  next of the answer (`TakesFirst`); `PumpedInv`, by which no message is lost in the
  pump as long as main runs; and `PositionInv` with the order of a script's steps, by
  which every request is followed by its collect before the next one (`WaitMoves`).

`Induction` holds what replaces induction over data: the naturals are well
founded, so that a fact with a least counterexample that has none below it
holds; and a function may be defined by its value at 0 and a step
(`RecursionOnNat`). With the step given as a function, not as an operator, the
provers can use both.

### Only model-checked

* All liveness: `StaleCallsReturn`, `CloseReleases`, `EventuallyNoneOpen`, `SendsReturn`,
  `CloseTerminates`, `StreamEnds`, `ConnectReturns`, `MainEnds` and
  `PumpEndsOrIsStuck`. The provers know neither ENABLED nor fairness.

Every safety invariant and every action property of the passing runs is stated by
a theorem.

## 6. What is not modelled

* The contents of payloads; ids of events, roles, statuses and indexes, which
  are copied unseen; the fields of a configuration. That a raw event may fail to
  encode is part of `Session!Send`.
* `httpClient` and `httpBaseURL`: the options store them, and nothing reads them.
* The wait between two attempts inside the wrapper: it is a step of `Backoff`,
  and `Conn` only sees the next attempt.
* Contexts an application cancels during an operation: the public API passes none
  in. Connect's own context is a cause of `NoAnswer`. `Retry`'s select on a context
  that is done is an action of `Backoff` (`ContextDone`), about which nothing is
  claimed: every caller passes `context.Background()`.
* A peer that accepts every dial and closes each connection with a transient
  status: readLoop redials for ever, without a pause, because every dial
  succeeds (`session.go:327`). `Conns` is finite, so no behaviour here does that;
  no document says that it may not.
* In the applications: flags, files and printing, `-demo-error`, which sends
  nothing or only what is refused, and the switch of text-chat to a second session
  with another model, which repeats `Connect` and the rounds over a fresh session.
* quickstart: it ranges over `Events` until session.created, prints `SessionID`
  and finishes. `SessionIDCurrent` and `StreamEnds` are what it relies on.
* The race detector's view: the fields are accessed under `mu` throughout.

## 7. Plan

Done, in this order: `Conn` with its proofs; `EventStream` and `Session`;
`Backoff`; `Wire` and `Decode`; `Connect`; `Examples`, with the server that keeps a
configuration, a buffer and a response per connection; the proofs of the
session's invariants and of the refinement, and those of `Backoff`, `Connect`,
`Decode` and `Examples`.

Left, for whoever extends it: the second session of text-chat (a second
`EventStream` in `Examples`); a peer that makes readLoop redial for ever, over a
supply of connections that are reused once they are shut.
