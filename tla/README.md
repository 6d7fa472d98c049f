# TLA+ models of the SignalR server's framing and streaming code

This directory models the parts of the Go SignalR server in `src/` where
concurrency and partial input make behaviour hard to test:

* the receive path that cuts the transport's byte stream into frames, in
  its two versions (`part_000` with `Receive` in `invocation_test.go`, and
  `jsonhubprotocol.go`);
* the registry of upstream channels for client-to-server streaming
  (`part_001`), together with the receive loop and the hub methods that
  drive it;
* the send side of a hub connection: `defaultHubConnection`'s `Start`,
  `Close` and send methods (`invocation_test.go`) and
  `JSONHubProtocol.WriteMessage` (`jsonhubprotocol.go`), called by
  several goroutines at once.

TLC checks the models on small instances. TLAPS proves, for all values of
the constants, the type invariant and the registry invariant of the
streaming model, the type invariant of the hub connection for any number
of goroutines, and the type invariant of the `part_000` receive path
together with the integrity of the frames it returns when the transport
keeps messages apart and every frame fits in two Reads. `PROJECT.json` lists the components, runs, mutants, the map
from definitions to source lines, the findings and the hazards.

## The system and how its parts interact

A connection's receive loop reads frames from the transport. A frame is
a JSON object followed by the byte 30 (ASCII record separator). The loop
decodes each frame and dispatches it:

* An **invocation** whose method has `<-chan T` parameters makes the
  dispatcher call `streamClient.buildChannelArgument` once per channel
  parameter. Each call creates an unbuffered channel and stores it under
  the next stream id the client declared. If the client declared too few
  ids, the call fails and the invocation is aborted.
* A **stream item** goes to `receiveStreamItem`. It converts the item to
  the channel's element type and sends it with reflection. The send
  blocks the receive loop until the method reads.
* A **completion** goes to `receiveCompletionItem`, which closes the
  channel and removes it from the map.

The hub methods run in goroutines of their own and range over their
channels.

Replies go the other way. The receive loop, the goroutines of running
invocations and the stream readers all call the hub connection's send
methods (`SendInvocation`, `Completion`, `StreamItem`, `Ping`) and
`Close`. Each builds a message and calls `WriteMessage`, which marshals
it into the protocol's one `easyWriter`, appends byte 30, takes the
buffer's bytes and writes them to the transport.

## Modules

| module | models | source |
|---|---|---|
| `FrameReader` | `defaultHubConnection.Receive`, `JsonHubProtocol.ReadMessage`, `parseTextMessageFormat` (bytes.Buffer version); the peer's `JsonHubProtocol.WriteMessage` | `invocation_test.go:314-332`, `part_000:27-104` |
| `FrameReaderProofs` | TLAPS proofs about `FrameReader` | |
| `FrameParser` | `JSONHubProtocol.ParseMessage`, `parseTextMessageFormat` (io.Reader version) | `jsonhubprotocol.go:52-129` |
| `StreamClient` | `streamClient` registry, the receive loop's streaming steps, the client, the hub methods' readers | `part_001`; dispatcher and readers from spec 4.4, 4.5 |
| `StreamClientProofs` | TLAPS proofs about `StreamClient` | |
| `OpenChannelsProofs` | TLAPS proof that open channels stay registered when ids are not reused | |
| `HubConnection` | `defaultHubConnection` `Start`, `Close`, `SendInvocation`, `Ping`, `Completion`, `StreamItem`; `JSONHubProtocol.WriteMessage` | `invocation_test.go:260-353`, `jsonhubprotocol.go:132-141` |
| `HubConnectionProofs` | TLAPS proofs about `HubConnection` | |
| `MCFrameReader`, `MCFrameParser`, `MCStreamClient`, `MCHubConnection` | model values and small definitions for TLC | |

### FrameReader

Variables:

* `sent`: the frames the client wrote.
* `stream`: the bytes not yet read.
* `buf`: the `bytes.Buffer` local to one `Receive` call.
* `data`: `data[:n]`, the last chunk read.
* `received`: the frames returned.
* `state`.

Definitions:

* `parseTextMessageFormat` is `buf.ReadBytes(30)`. It consumes everything
  up to and including the delimiter. Without a delimiter it consumes
  everything and reports `io.EOF`.
* `FirstRS(b)` is the position of the first byte 30 in `b`, 0 if there
  is none: what `ReadBytes(30)` searches for.
* `ReadMessage` maps that to `(message, complete, err)`.

`ClientWrite` is the peer's `WriteMessage`: it appends one frame and its
delimiter to the stream in one Write, until `NumFrames` frames are
written. `Receive` runs concurrently with it; a Read with nothing written
yet blocks.

The other three actions are the three outcomes of one iteration of
`Receive`'s loop:

* `ReceiveComplete`: a frame is complete and is returned.
* `ReceiveMore`: `buf.Write(data[:n])`, then `Read`, then `buf.Write`
  of the new chunk.
* `ReceiveEOF`: `Read` fails, once the peer has written everything and
  closed.

`Chunks` gives the chunks `Connection.Read` may return:

* with `Aligned`, a message transport (one WebSocket message per client
  Write): the Read fills `data` with as much of the current message as
  fits, `min(ReadSize, FirstRS(stream))` bytes, so a frame longer than
  `ReadSize` arrives in several Reads but never shares a Read with the
  next frame;
* otherwise any 1..`ReadSize` bytes, across message boundaries.

`ReceiveMore` refills `buf` with `data \o c`: `ReadMessage` has consumed
all of `buf`, and `buf.Write(data[:n])` puts back only the previous
chunk. A frame that takes two Reads is therefore rebuilt whole, and one
that takes three or more loses its first chunks.

### FrameParser

Each call of `parseTextMessageFormat` makes a fresh `data` and a fresh
read array `p` of `PSize` bytes (`Zeros`). `Read` is one iteration of its
loop:

* The reader puts `n` bytes at the front of `p`. The rest of `p` keeps
  what the previous Read of this call left there.
* `scan` is `bytes.IndexByte(p, 30)` over the whole array, followed by
  `append(data, p[:i]...)` or `append(data, p[:n]...)`.

When the delimiter is found, `ParseMessage` decodes the frame. A frame
is a flat JSON object: `{`, payload bytes, `}`. Decoding is abstracted to
`WellFormed`: whether the bytes are such an object, which is what decides
between a message and a `jsonError`. A `jsonError` is not fatal, so the
caller parses on. `ReadEOF` is `Read` reporting `io.EOF`, with `n = 0`.

`io.Reader` also allows a Read to return `n > 0` bytes together with
`io.EOF`. With the constant `EOFWithData` on, the Read that returns the
last bytes of the stream may do so (`ReadErrs`). `parseTextMessageFormat`
then returns the error at once and the bytes are lost.

### HubConnection

Variables:

* `connected`: `defaultHubConnection.Connected`.
* `buf`: `v.easyWriter`'s buffer, one per protocol and shared by all
  callers.
* per goroutine: `pc` (where it is in `WriteMessage`), `kind` (the
  message it is writing), `pos` (how many of its tokens are marshalled),
  `b` (what `BuildBytes` gave it) and `calls` (bounded by `MaxCalls`).
* `broken`: the transport has failed; every later Write fails too.
* history: `writes` (each accepted Write with its caller, its message
  kind and its bytes).

A message's JSON text is abstracted to three tokens, `{`, its kind and
`}` (`Marshal`). `FrameOf` adds the delimiter. `MarshalEasyJSON` appends
one token per step (`MarshalStep`), because its appends to the shared
buffer are what another goroutine can get between. `RawByte`,
`BuildBytes` (takes the bytes and resets the buffer), `Write` and
`WriteFail` are the remaining statements of `WriteMessage`, one action
each. A message that does not implement `easyjson.Marshaler`
(`EasyKinds`) returns an error before any of them.

An idle goroutine calls a method (`Call`, bounded by `MaxCalls`):

* `Start`: the compare-and-swap of `Connected` from 0 to 1.
* `Close`: `Connected` stored 0, then `WriteMessage` of the close message.
* `SendInvocation`, `Ping`, `Completion`, `StreamItem`: only
  `WriteMessage` (`SendKind`). None reads `Connected`.

The generated marshaller of `sendOnlyHubInvocationMessage` is not under
`src/`, so whether an invocation implements `easyjson.Marshaler` is a
constant, `EasyKinds`. `hub_concurrent` takes it as not implementing it
(`MCEasyButInvocation`), so its error path is explored;
`hub_interleave` marshals every kind.

### StreamClient

Channels are numbered `1..MaxChans` in creation order. Each channel has:

* `chanSt`: none, open or closed;
* `chanElem`: its element kind;
* `reader`: the state of the method reading it.

Registry and loop state:

* `upstream` is `upstreamChannels`: stream id to channel, 0 when absent.
* `inbox` is the client's messages not yet handled, in order.
* `loop` is the receive loop: idle, binding an invocation's channel
  parameters (`cur`, `chanCount`, `bindBase`), blocked `sending` into
  `sendTo`, or `panicked`.

Items and element types are abstracted to kinds (`Num`, `Str`, `Bool`,
`List`, `Null`; `IntK`, `StrK`, `BoolK`, `ListK`). Those kinds are
exactly what `receiveStreamItem` and `convertNumberToChannelType` branch
on. `Route` is the result of `receiveStreamItem`'s branches:

* A number is sent if it converts. If it does not convert it is dropped.
  If the channel is closed, the send panics unrecovered.
* A list is dropped by the `break` for a list channel, and is an error for
  any other channel.
* A null panics at `reflect.TypeOf(nil).Kind()`.
* Any other item is sent by the goroutine. A kind mismatch panics through
  `err.(error)`. A send on a closed channel is recovered as an error.

Actions:

* `ReceiveInvocation`, `BindChannel`, `BindFail` and `Invoke` are the
  dispatcher's binding of channel parameters, one `buildChannelArgument`
  call per step.
* `ReceiveStreamItem` and `ReceiveCompletion` are the two handlers.
* `ReaderTake`, `ReaderDone` and `ReaderQuit` are a method taking an item,
  seeing the channel closed, or returning early.

The client is constrained by flags:

* `ReuseIds`: ids may repeat.
* `ExactStreamCount`: the client declares as many ids as the method has
  channels.
* `TypedItems`: items match their stream's type.

With the flags off, the client is a well-behaved SignalR client. With a
flag on, it may send what a real client may.

## Runs

| run | cfg | checks | result |
|---|---|---|---|
| frame_reader_aligned | `MCFrameReaderAligned.cfg` | TypeOK, FrameIntegrity, AllFramesReceived | pass (about 30k states) |
| frame_reader_long | `MCFrameReaderLong.cfg` | FrameIntegrity | violation: a frame that needs three Reads loses its first chunk |
| frame_parser_aligned | `MCFrameParserAligned.cfg` | TypeOK, ParsedFrames, AllFramesParsed | pass |
| frame_parser_chunked | `MCFrameParserChunked.cfg` | ParsedFrames | violation: bytes after the delimiter are dropped |
| stream_registry | `MCStreamRegistry.cfg` | OpenChannelsRegistered, RegistryInv | pass (about 416k states) |
| stream_progress | `MCStreamProgress.cfg` | MessagesEventuallyHandled | pass |
| stream_reuse | `MCStreamReuse.cfg` | OpenChannelsRegistered | violation: a duplicate id orphans an open channel |
| stream_quit | `MCStreamQuit.cfg` | MessagesEventuallyHandled | violation: a reader that quits blocks the loop |
| stream_panic | `MCStreamPanic.cfg` | NoPanic | violation: a mismatched or null item panics |
| frame_parser_eofdata | `MCFrameParserEOFData.cfg` | AllFramesParsed | violation: the last frame, read together with io.EOF, is lost |
| hub_concurrent | `MCHubConcurrent.cfg` | TypeOK | pass (about 32k states) |
| hub_interleave | `MCHubInterleave.cfg` | WritesIntact | violation: two goroutines' messages mixed in one Write |

### The properties

* `FrameIntegrity` (FrameReader) and `ParsedFrames` (FrameParser) state
  spec 8's chunk-size invariance. The frames returned, in order, are a
  prefix of the frames written, and each one is unchanged and decodes.
  In `frame_reader_aligned` frames of up to 3 bytes and their delimiter
  are read 2 bytes at a time, so most frames take two Reads and the
  refill of `data[:n]` is exercised; `frame_reader_long` reads 1 byte at
  a time, so a 2-byte frame takes three Reads.
* `AllFramesReceived` and `AllFramesParsed`: every frame is eventually
  returned.
* `OpenChannelsRegistered`: every open channel is still in the map, so a
  completion can still close it and end its reader's range loop.
* `RegistryInv`: the type, plus three facts: entries name channels that
  were made, entries are open (`RegisteredOpen`: `receiveStreamItem`
  sends only through the map), and no two ids share a channel.
* `MessagesEventuallyHandled`: the n-th message sent is eventually handled
  by the receive loop. This fails exactly when the loop hangs.
* `NoPanic`: what spec 4.5 says of kind mismatches: they are reported as
  errors, never a panic.
* `WritesIntact` (HubConnection): every accepted Write carries exactly
  the frame of its caller's message (spec 4.2).
* `TypeOK` (HubConnection) includes `Connected` staying 0 or 1 when two
  goroutines call `Start` and `Close` concurrently: only the
  compare-and-swap keeps it there.

Each property of a passing run has a mutant in `PROJECT.json` that breaks
it:

* the delimiter kept, the refill of `data[:n]` left out, or EOF taken as
  complete;
* `p` scanned from index 1, or the `return` after the delimiter missing;
* channels registered under the first id, or shared by all ids;
* the stream-count check off by one;
* `Start` adding 1 instead of the compare-and-swap.

### Bounds and why they suffice

* **FrameReader:**
  * `frame_reader_aligned`: `NumFrames = 3`, `MaxFrameLen = 3`,
    `ReadSize = 2`. Frames of one byte arrive in one Read, longer ones in
    two, in every order, so both phases of `Receive` and the refill are
    reached.
  * `frame_reader_long`: `MaxFrameLen = 2`, `ReadSize = 1`: the least
    that makes a frame take three Reads.
* **FrameParser:**
  * Frames `{}`, `{a}` and `{aa}` (lengths 2 to 4) with `PSize = 3`.
  * With these sizes a frame is split across reads and its delimiter
    arrives alone at `p[0]`, which is the case the `i != -1` test must
    catch.
  * A shorter later Read leaves stale bytes behind it in `p`.
* **StreamClient:**
  * Two stream ids.
  * Two methods: `Echo(<-chan int)` and `Pair(<-chan int, <-chan []int)`.
  * `MaxChans = 2` and four or five client messages.
  * This is enough for an invocation, items on both streams, completions,
    a second invocation, bind failures and readers quitting in every
    order.
  * The client's `promised` counter keeps the client from asking for more
    channels than `MaxChans`. That keeps the bound from cutting off
    behaviours of the code.

* **HubConnection:**
  * `hub_concurrent`: two goroutines with one call each, a transport that
    may fail, invocations taking the non-Marshaler error path. Two
    concurrent `Start`s, `Start` racing `Close`, and failed Writes all
    happen. More calls per goroutine exceed TLC's reach in five minutes.
  * `hub_interleave`: two goroutines with one call each. That is the
    least that can race on the buffer.

### Fairness

* The receive loop (`Loop`) and every hub method's reading (`ReaderTake`,
  `ReaderDone`) are weakly fair. They run in goroutines that the Go
  scheduler keeps running.
* `ReaderQuit` is not fair. A method may or may not return early.
* The client has no fairness. It may stop sending at any time.
* For the frame readers, the connection's goroutine loops on
  `Receive`/`ParseMessage` (weak fairness of `Next`). In `FrameReader`
  `Next` includes the peer's `ClientWrite`: the peer writes all its
  frames and then closes, so every frame is eventually in the stream.
* In `HubConnection`, a goroutine inside `WriteMessage` is weakly fair:
  nothing in it blocks. The calls themselves are not fair. The hub
  connection runs no property that depends on fairness; the runs stop
  when the calls are used up, so they set `CHECK_DEADLOCK FALSE`.

## Proofs

`StreamClientProofs` proves, for every value of the constants that
satisfies `Assumptions`:

* `TypeCorrect`: `Spec => []TypeOK`.
  * `TypeInit` shows the initial states are well typed.
  * `TypeStep` has one lemma per group of actions (`TypeClient`,
    `TypeLoop`, `TypeReaders`) and one case per action under each.
  * Lemmas `HeadTyped`, `SeqElem` and `MsgCases` give the types of queue
    heads and of sequence elements.
* `RegistryCorrect`: `Spec => []RegistryInv`.
  * `RegistryInv` is not inductive as it stands, because the registry
    facts need the types. The inductive invariant is `TypeOK /\ Registry`.
  * `Registry` has three parts: map entries lie in `0..nChans`, they are
    open, and they are injective.
  * The range fact is the strengthening. `buildChannelArgument` stores the
    new channel `nChans + 1`, which no existing entry can equal because
    all entries are at most `nChans`.
  * Injectivity is what makes a completion safe: it closes one channel,
    and no other id maps to it (`RegistryComplete`).
  * Every other action leaves `upstream`, `nChans` and `chanSt` alone
    (`RegistryUnchanged`).
* `NoSendOnClosedChannel`: `Spec => []RegisteredOpen`, a corollary.

`OpenChannelsProofs` proves `OpenChannelsKept`: if `~ReuseIds`, then
`Spec => []OpenChannelsRegistered`.

* The hypothesis is needed. With ids reused, run `stream_reuse` shows a
  second invocation overwriting a registered id and orphaning its
  channel. That is what `buildChannelArgument` does at `part_001:22`.
* `OpenChannelsRegistered` is not inductive. Whether a bind is safe
  depends on ids still in the inbox and on the invocation being bound.
  The strengthening `Fresh` says:
  * an undeclared id is unregistered and pending nowhere;
  * every pending id is unregistered;
  * each invocation's ids are distinct, and no id is pending twice.
  `CurIds` are the ids the current binding has still to store, and
  `QIds(i)` those of the invocation at inbox position `i`.
* `TypeOK /\ Fresh` is the inductive invariant. TLC checked `Fresh` as an
  invariant of the registry configuration (about 416k states) before it
  was proved.
* There is one lemma per action group:
  * `FreshClient`: `InvokeWith`'s guards make the new ids undeclared and
    distinct, and `Declare` declares exactly the ids bound.
  * `FreshReceiveInvocation`: the head's ids become `CurIds`.
  * `FreshBind`: the stored id was unregistered, so no open channel loses
    its registration, and the id leaves `CurIds`.
  * `FreshTail` and `CompletionKeepsOpen`: stream items and completions.
  * `FreshBindEnd`, and `FreshUnchanged` for readers and stutters.

`HubConnectionProofs` proves, for every value of the constants that
satisfies `Assumptions`:

* `TypeCorrect`: `Spec => []TypeOK`, for any number of goroutines.
  * `TypeOK` is not inductive: `MarshalStep` indexes `Marshal(kind[g])`
    at `pos[g] + 1`, which is a token only while `pos[g] <= 2`. The
    inductive invariant `IType` adds that a marshalling goroutine has
    `pos[g] \in 0..2`.
  * `CallWrite` covers the start of `WriteMessage`, shared by `Close`
    and the four send methods. Each other action has one step.
  * The compare-and-swap is what keeps `connected` in `{0, 1}`.

Only model-checked:

* All liveness (`AllFramesReceived`, `AllFramesParsed`,
  `MessagesEventuallyHandled`). TLAPS does not handle fairness and
  ENABLED here.
* `FrameParser`'s `TypeOK` and `ParsedFrames`. `FrameParser` extends
  `SequencesExt` (`FlattenSeq` builds the whole stream in advance), which
  declares RECURSIVE operators, so no theorem may be stated in a module
  that reaches it. The route taken for `FrameReader` would apply: an
  incremental peer and a cut-based description of the wire.
* `FrameIntegrity` with unaligned reads: it is false (`Receive` drops the
  bytes after a delimiter; `FrameReader` with `Aligned = FALSE`).
* `OpenChannelsRegistered` when ids may be reused: it is false
  (`stream_reuse`).
* `WritesIntact`: false with two senders (`hub_interleave`). With one
  sender it holds, but only because nothing else touches the buffer, so
  it is not checked.
* `FrameIntegrity` for frames that need three Reads: it is false
  (`frame_reader_long`).

Behaviours the models show that no run is spent on (at most twelve runs
are kept, the deepest):

* `Receive` in `part_000`, on a byte-stream transport (`Aligned = FALSE`),
  drops the bytes after a delimiter, like `frame_parser_chunked` shows
  for `jsonhubprotocol.go`.
* `Close` then a send, from one goroutine: the send is written after the
  close message. None of the send methods reads `Connected`
  (`invocation_test.go:303`), where spec 3 makes Closed terminal.
* A bind that fails after earlier channel parameters were registered
  leaves them with no reader, and the next item for one of them hangs the
  loop (`part_001:26`; `StreamClient` with `ExactStreamCount = FALSE`).
* A list item for a list channel ends with `result = "dropped"`
  (`part_001:50`).
* `WriteFail` leaves `Connected` at 1: every caller drops the error of
  `WriteMessage` (`jsonhubprotocol.go:138`), where spec 4.3 says a write
  failure closes the connection.

`FrameReaderProofs` proves, for every value of the constants that
satisfies `Assumptions`:

* `TypeCorrect`: `Spec => []TypeOK`, aligned reads or not. `TypeOK` is
  inductive. The one step that needs thought is `ReceiveComplete`: the
  frame returned is `SubSeq(buf, 1, FirstRS(buf) - 1)`, and no byte
  before the first delimiter is a delimiter (`CompleteFrame`). A chunk is
  always a prefix of the stream (`ChunkIsPrefix`).
* `FrameIntegrityKept`: if `Aligned` and `MaxFrameLen < 2 * ReadSize`,
  `Spec => []FrameIntegrity`. The second hypothesis says that every
  frame with its delimiter fits in two Reads, which is exactly what the
  refill of `data[:n]` needs: when a frame takes two Reads, the first
  chunk is still in `data` when the second arrives. Without it the
  theorem is false (`frame_reader_long`).
  * The inductive invariant is `TypeOK /\ ReceiveInv`. `ReceiveInv` says
    `received` is a prefix of `sent` and Receive is in one of three
    phases. Between calls, `buf` and `data` are empty and `stream` is the
    wire form of the frames not yet returned. After a first Read of a
    frame longer than `ReadSize`, `buf` and `data` hold its first
    `ReadSize` bytes and `stream` holds the rest of it (`Rest`), then the
    wire form of the frames after it. Once the frame is whole, `buf`
    holds it with its delimiter and `stream` the frames after it. TLC
    checked `ReceiveInv` on four aligned configurations before it was
    proved, and found it violated, as expected, with frames that need
    three Reads.
  * The wire form is stated without recursion: `IsWire(w, fs)` holds when
    a function `cut` gives the position of each frame's delimiter in `w`,
    each frame's bytes lying just before its delimiter.
  * `ClientWriteKeeps`: a Write appends a frame to the wire (`WireAppend`)
    in every phase. `ReadFirst`: the first delimiter of a wire ends its
    first frame (`WireHead`), so the aligned Read takes the whole frame
    or its first `ReadSize` bytes (`Pieces`). `ReadSecond`: what is left
    is at most `ReadSize` bytes and ends in the frame's only delimiter,
    so the next Read takes all of it and `data \o c` is the whole frame
    (`ConcatAdjacentSubSeq`). `NoReadWhole`: once `buf` holds a whole
    frame Receive does not read. `ReceiveCompleteKeeps`: a partial frame
    has no delimiter (`NoDelimiter`), and a whole one is returned
    unchanged (`FrameRoundTrip`).
  * `FirstRS` is a CHOOSE of the least delimiter position. That it is the
    least (`FirstRSFacts`) comes from the well-foundedness of `<` on
    `Nat` (`LeastPosition`, from `WellFoundedInduction`), with no
    induction over data.
  * Both hypotheses are needed: TLC finds `FrameIntegrity` violated with
    `Aligned = FALSE` and in `frame_reader_long`.

## Not modelled

* `WriteMessage` of `part_000` (87-105). It builds each frame in a local
  buffer and makes one Write, so there is nothing to interleave.
* In the hub connection's race, only interleaving at token granularity.
  Lost updates inside a single `append` to the shared slice, which is a
  data race, are not modelled; the mixing already breaks
  `WritesIntact`. `IsConnected` and `GetConnectionID` only read state.
* `UnmarshalArgument` (`jsonhubprotocol.go:40-48`): a pure decode of one
  value.
* The numeric conversions' values. Items are kinds, so truncation and
  overflow are not checked.
* Argument decoding, missing methods, results and the dispatcher's
  completions: the dispatcher is not under `src/`.
* Cancellation.
* The ginkgo tests and the test hub (used as the source of expected
  behaviour) and `go.mod`.
