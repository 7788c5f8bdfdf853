# A formal model of py-xmlrpc

py-xmlrpc is an XML-RPC client and server for Python, written in C around a
`select()` loop. Four parts carry its logic, and each has a module here:

* the **event dispatcher** (`src/src/rpcDispatch.c`, `rpcSource.c`) polls sources
  and calls their callbacks;
* the **server** (`rpcServer.c`, `rpcPostpone.c`) reads requests from many
  connections, calls Python methods and writes responses;
* the **client** (`rpcClient.c`) makes calls, blocking or not, over a connection
  that it keeps;
* the **codec** (`rpcUtils.c`, `rpcBase64.c`) builds and parses what they exchange.

`PROJECT.json` has the machine-readable index: components, runs, mutants, the
definition-to-line map, hazards, findings and theorems. File names below are
relative to `src/src/` unless they start with `src/`.

## Inventory

| Component | State | Operations | What makes it hard |
|---|---|---|---|
| Dispatcher: `rpcDispatch.c` | the array of sources (`srcs`, `scard`, `salloc`), ids (`maxid`), the stop time `etime` | `rpcDispAddSource`, `rpcDispDelSource`, `rpcDispClear`, `rpcDispWork`, `dispNextEv`, `dispHandleError` | callbacks change the array while a snapshot of it is served; `work()` nests; the interpreter lock is free during `select()` |
| Sources: `rpcSource.c` | `fd`, `id`, `actImp`, `actOcc`, `func`, `params`, `doClose`, `onErr` | `setCallback`, `pyMarshaller`, `rpcSourceDealloc` | the fields are reset when a callback starts and set again by what it returns |
| Server: `rpcServer.c`, `rpcPostpone.c` | the listener, a source per connection with its params: what has been read of a request, what is left of a response, `keepAlive` | `serveAccept`, `serverReadHeader`, `readRequest`, `dispatch`, `doResponse`, `writeResponse`, `queueResponse`, `queueFault`, `close`, `exit`, `addSource`, `delSource` | parts of requests and responses over many events, clients that stop or vanish, postponed requests, errors in the middle |
| Client: `rpcClient.c` | `execing`, the source, `disp`, what has been read of a response | `nbExecute`, `execute`, `work`, `close`, `execDispatch` and its states | calls made in callbacks, one dispatcher inside of another, timeouts, reuse of connections |
| Codec: `rpcUtils.c` | growing buffers, positions in strings | building and parsing requests, responses, headers and values | boundaries: lengths, quoting, malformed data |
| Base64: `rpcBase64.c` | none | encode, decode | groups of three and four, padding |
| Dates, faults: `rpcDate.c`, `rpcFault.c` | data objects | accessors | little |
| Numbers, logging, allocation: `rpcInternal.c` | the log level and file | `decodeActLong`, `rpcLogSrc`, `alloc` | numeric limits |
| Bindings: `xmlrpcmodule.c`, `xmlrpc.c`, `src/turbo_xmlrpc.py`, `src/pyxmlrpclib.py` | none of interest | argument conversion | little |
| Examples, scripts: `src/examples`, `src/scripts` | | | read for how the library is used |

How they interact. Server and client register sources with a dispatcher and are
called back by it; a server's methods and a client's callbacks are Python code
that calls the same API again (`work()` included) before it returns; every
callback's failure goes through `dispHandleError`, which asks the source's error
handler what to keep. `execute` runs a dispatcher of its own. Other threads can
only come in during `select()`, the one place where the lock is released.

The hazards, each at its line, are listed in `PROJECT.json`. For the dispatcher:
the stale snapshot, the search without a bound, removal by shifting, ids, events
that are recorded long before they are used, one stop time for all nested calls.
For the server: partial reads and writes, postponed requests, release of the
descriptor on every path, keep alive decided early and used late, fairness
between clients. For the client: stale responses, `execing`, the order of
closing and calling back, the end of a response. For the codec: texts that end
anywhere, the growth of buffers, skips by a fixed number of characters.

## Modules

| Module | Models | Role |
|---|---|---|
| `EventLoop` | what a dispatcher promises: one-shot registrations, nested callbacks | abstract specification |
| `Dispatcher` | `rpcDispatch.c`, `rpcSource.c`, the server's calls that reach them | refines `EventLoop` |
| `DispatcherProofs` | | theorems about `Dispatcher` |
| `RpcService` | what the server promises on each connection: one request at a time, answered at most once | abstract specification |
| `Server` | `rpcServer.c`, `rpcPostpone.c`, with the dispatcher as `EventLoop` promises it | refines `RpcService` |
| `ServerProofs` | | theorems about `Server` |
| `RpcCalls` | what the client promises: one call at a time, refused only during another one, ended once | abstract specification |
| `Client` | `rpcClient.c`, with the dispatcher as `EventLoop` promises it | refines `RpcCalls` |
| `ClientProofs` | | theorems about `Client` |
| `Connection` | what client and server may rely on of each other over a connection | interface: composes `Client` and `Server` |
| `Buffer` | the growing string of `rpcUtils.c` | component of `Transport` |
| `Framing` | `readHeader`, `readResponse`, `readChunks`, `processChunk` (`rpcClient.c`), `serverReadHeader`, `readRequest` (`rpcServer.c`), the numbers of `rpcInternal.c` | functions: where a message ends |
| `Transport` | a message on its way: built in a `Buffer`, framed, split, read, whatever its document says | composes `Framing`, `Buffer` |
| `TransportProofs` | | theorems about `Buffer` and `Transport` |
| `Codec` | `rpcUtils.c`, `rpcBase64.c` | functions from values to texts and back |
| `Recursion` | | that a function which is defined by recursion is what its definition says |
| `TextProofs` | | lemmas about texts, and induction over them |
| `CodecProofs` | | theorems about `Codec` |
| `Delivery` | what the documents on their way say, and what their readers understand | composes `Codec`, `Transport` |
| `DeliveryProofs` | | theorems about `Delivery`, from those about its two parts |
| `MCDispatcher`, `MCServer`, `MCClient`, `MCCodec` | | values for TLC |

Operators in the modules that a comment calls *mutants* are plausible bugs; they
are not part of any specification. `PROJECT.json` says which definition each one
replaces and which property then fails.

### Dispatcher

`slots`, `salloc`, `scard` and `maxid` are the fields of `rpcDisp`; `id`, `actImp`,
`actOcc` and `fd` those of the sources. `frames` is the C stack: one record for
each active `rpcDispWork`, with the part of its snapshot that is yet to be looked
at and the copy of the source it is calling (`tp`). `pc` says where the innermost
one is: in the loop, in `select()`, in the batch or in a callback. The actions are
the pieces of `rpcDispWork` between which other code can run: `Poll` (up to
`select()`), `SelectReturns`, `SkipSource`/`Dispatch` for each entry of the batch,
`EndBatch`, and the ends of a callback (`ReturnZero`, `ReturnOne`, `Raise` with
`dispHandleError`). `SearchFaults` is the search of line 203 that does not find its
source, `BadFdAborts` a `select()` on a source without a descriptor; both lead to
`"crashed"`. The application's operations are enabled in callbacks, outside of
`work()`, and, with `Threads`, during `select()`.

The mistakes an application can make are switched by `Careless`, so that a run or
a theorem can say what holds for which application: registering a source twice,
deleting one that the batch has yet to call, registering one whose descriptor is
gone, failing in a callback that has registered its source again, reading or writing
in one that has. A program that makes them may end in a crash (`FD_ISSET` of descriptor
-1 aborts in a fortified build), or the loop passes over the dead source for ever
(`BAD FD!!`, `rpcDispatch.c:375`): `disp_careless` asks what is left of the others then.

### Server

A connection's source is modelled by what its `func` and `params` stand for
(`params[c]`: nothing, reading, a postponed request, a response being written),
how much of a request it has (`buf`), what is left of a response (`out`) and the
`keepAlive` that travels with it (`keep`). A request is `ReqUnits` units of which
the first is the header, a response `RespUnits` units; units are numbered, so that
what a client reads tells which request it answers. `Window` bounds what the
kernel buffers, which makes writes partial. The actions are the callbacks
(`Accept`, `ReadMore`, `CallMethod`, `WriteResponse`, ...), each with the failures
and early returns of the code as actions of their own (`AcceptFails`, `QuietClose`,
`ReadFails`, `RefuseRequest`, `WriteFails`), the ends of a Python method
(`Respond`, `Postpone`), and the application's `queueResponse`, `queueFault`
and `close`. An uninitialised `keepAlive` is a nondeterministic choice.
`accept()` fails when nobody waits any more, because another process was faster
(`Preforked`) or the client has reset its connection in the queue, and when descriptors or
memory have run out (`Scarce`); what waits in the queue of a listener that is closed is
lost with it.

`work()` is taken apart where the lock is free: `Select` hands the registered
sources (`watch`) to `select()`, `SelectReturns` makes the ready ones the batch, and
in between other threads answer what the server has postponed, as
`src/examples/threaded.py` does. The response's source is then not among those that
`select()` waits for. With a time limit (`limit`) it is found by the next `select()`;
without one it waits until some other source is ready, perhaps for ever, which is
the mistake `"thread"`.

### Client

`execing`, `fd`, `disp` are fields of `rpcClient`; `stage` is the state that
`execDispatch` is registered with, `now` tells `ACT_IMMEDIATE` from waiting for the
descriptor. `left` counts the entries that a source has in the client's dispatcher
besides the one of the call in progress, which only an overlap of calls leaves there.
`pc` and `back` say where the application's thread is (outside, in `work()`, in
`execute`, in a callback), `cbs` holds for each active callback whether `execDispatch`
will close the connection when it returns. The connection is `conn`, with the requests
the server has yet to serve (`heard`), the response it has yet to send (`reply`) and
what the client has yet to read (`inbox`). Responses have a length or a chunked body, or
end with the connection, and may ask to close it (`Kinds`); one that ends with the
connection may also not say so (`"abrupt"`), and is then kept alive by
`doKeepAliveFromDict`, which looks at the version and the `Connection` line only. A read
takes everything that has arrived (`nbRead`); reading the header and the body are one
action, because the code goes from one to the other without returning. The ends of a
call are `CallBack` with `CallbackReturns` or `CallbackRaises`, `Executed` with
`ExecuteReturns`, `TimeOut`, and `Fail` in every step that may fail.
`ExecuteReturnsNull` and `AssertionFails` are the two ways to crash that the code has.
`stale` and `broken` are history: an `execute` has timed out since the client was
closed, and the server or the network has failed.

### Connection

`Client` and `Server` are too large to be checked as one. `Connection` has a step for
everything either of them may do to a connection, and each is checked against the
other's steps. `Client` runs with `Connection`'s server and network (`Serve`, `Drop`)
as its environment and keeps to the client's steps (`KeepsToConnection`: whole
requests, one at a time, each after the answer to the one before has been read);
`Server` runs with clients that do just that and keeps to the server's steps
(`ServesConnections`: each connection of its own, under the mapping that counts units
in terms of calls). Each guarantee is a safety property that no step of its owner
breaks first, so what is checked of the one holds when it talks to the other. With
`Pipelining` and `Failing`, `Server` also meets clients that are not this library's.

### Codec

A text is a sequence of tokens: a tag is two of them, `"<"` and the rest, so that a
string may hold a `"<"` and even what looks like an end tag; characters, digits and
names of entities are one each. A value is a record with its type and content.
`Encode`, `Body` and `Header` are `encodeValue`, `xmlMethod`/`buildResponse`/`buildFault`
and `buildHeader`; `DecodeValue`, `HeaderLines`, `Params`, `ParseCall` and
`ParseResponse` their parsers. The code's cursor is the text from there on, and a
parser returns the set of its one result, or none after an error; `Outside` is the
cursor that has left the text.

What the code defines by recursion is a recursive function here, not an operator:
`Escape`, `Shifted` and `Digits` of what they write, `Chomp`, `Unescape` and `Unshifted` of
the text they read. Values in values are the one place where functions call each other:
`Encoders[n]` writes values that are `n` arrays and structs deep, and `Decoders[n]` is a
record of the four loops that read them (`decodeValue`, and those of `decodeArray`,
`decodeStruct` and `parseParams`), `n` calls deep. `Depth` bounds how deep a value is that
is written; a text is read as deep as it is long, which no text can exceed.

### Transport

`Framing` is what the two readers keep between two events (`reader`: the header once
it is found, the body as far as it goes, a chunk as far as it goes) and what they do
with the next bytes; `ClientRead` and `ServerRead` differ where the code does: the
server knows nothing of chunks and needs a length.

The actions of `Transport` take one message through the system: `Put`, `StartHeader`
and `AppendBody` fill the two buffers as `buildRequest` does, with `Buffer` keeping
their lengths; then the text is left alone, written as another program would
(`Rewrite`), framed as another program would (`Reframe`, `Unlength`, `Rechunk`), cut,
joined with another one, or lost with its connection (`Cut`, `Precede`, `Follow`,
`Lose`); then `Receive` reads it, in one piece or in several, the end of the connection
with the last piece or after it. `NextChunk` is a turn of the loop in `readChunks`.

Where a message ends does not depend on what it says, so `Transport` takes its texts as
constants: any document that is not empty, any header that ends with its only empty line
and tells the reader the length of the document, that it is in chunks, or nothing, any
division of a document into chunks (`IsChunking`), with any extensions and trailers.
That is what its assumptions say. `Delivery` gives the constants their values: what
`buildHeader` and the document builders of `Codec` write, and other programs' layouts and
spellings. TLC evaluates the assumptions for these in `codec`, for the messages of that
run. For the document and the header that this library writes, for the same header
without a length and for the one for chunks they are proved of every message
(`BodiesSurvive`, `HeadersFrame`; see below).

`Delivery` also says what is understood of a whole message. `OnlyWhole` is what `Client`
takes for granted with `Parses`, and that the pieces do not matter (`Reassembled`) is why
it may count units.

## Runs

| Run | Asks | Bounds |
|---|---|---|
| `disp_main` | ids identify registrations, searches stay inside the array, pending sources stay registered, a callback per registration, fresh events, refinement of `EventLoop` | 2 sources with descriptors of their own, another thread, `work()` nested twice, 3 registrations, an array that starts with 1 slot |
| `disp_careless` | whatever the application does, the array is well formed, ready sources are served, deadlines and `exit()` end `work()`, nothing else ends an unlimited one | 2 sources on one descriptor, one of which loses it when it fails, handlers that end or keep the loop, all mistakes; no nesting; the program may crash, so deadlock is not checked |
| `disp_delete` | *violation:* deleting a source of the same batch runs the search off the array | 2 sources |
| `srv_two` | responses whole and in order, no lost or leaked connection, postponed requests held for their answer and by nobody else, keep alive as asked, refinement of `RpcService`, the server's part of `Connection`; every request answered, postponed or not and whatever becomes of the listener; every client accepted while there is one | 2 clients with 2 requests each, one of which may fail anywhere; no descriptors left at any `accept()`; requests and responses of 2 units, a window of 1; other threads answer during `select()`. A `work()` without a limit may wait in `select()` for ever once every client has gone, so deadlock is not checked |
| `srv_rough` | refinement of `RpcService` for every handler, mistake and kind of request | 2 clients that may both fail, pipelining, other processes on the listener, no descriptors left at any `accept()`, requests of 3 units; the server may crash, so deadlock is not checked |
| `srv_accept` | *violation:* losing the race for a connection closes the listener | 1 client, which another process may take, so that the server waits for ever: deadlock is not checked |
| `cl_main` | the right response for each call, `execing` exact, a silent connection between calls, no failure without a cause, refinement of `RpcCalls`, the client's part of `Connection`; every call ends | 3 calls, requests of 2 and responses of 3 units, failures anywhere, timeouts, calls in callbacks; responses that keep or close the connection, end with it without saying so, or cannot be parsed: those that say so are read like these (`"abrupt"`) and closed like those that close, and the theorems are about them too |
| `cl_rough` | refinement of `RpcCalls` for every handler and mistake, without the promise of one call at a time | 3 calls, 2 and 2 units, every kind of response; the client may crash, so deadlock is not checked |
| `cl_overlap` | *violation:* after a refused `execute`, another call is taken during the one in progress | 3 calls |
| `cl_timeout` | *violation:* the response of a timed out call answers the next one | keep-alive responses |
| `cl_chain` | *violation:* a call made in a callback loses its connection | keep-alive and closing responses |
| `codec` | messages are put together as they were sent in every framing and in whatever pieces they come, and understood as they were meant in every layout and spelling; nothing but a whole message is read; no reader waits for what does not come; buffers are never overrun | 208 messages: every string of two characters out of markup and plain ones, bytes of every length modulo 3, doubles, dates, every pair of five kinds of values in arrays and structs, calls with up to two parameters, names and passwords, the caller's header lines; five of them come byte by byte and framed in every way, with chunks of 12 and 200; buffers that start with 3 bytes; a reader may leave the text, so deadlock is not checked |

Why the bounds are enough. Two sources, of which each can be before or after the
other in the array, give every order of a batch, and one slot makes the array
grow; the third registration reuses a source in a new slot. Two levels of `work()`
are the least at which an inner call changes what an outer one has yet to serve.
Two units make every write, and three units every header and body, split at each
kind of boundary. Three calls are the least that use a connection again after it
has been closed and opened again. A document is cut and joined at each of its
tokens, and two levels of values meet every pair of tags that the grammar allows;
buffers of 3 bytes take every path of `growBuff`.

Deadlock is checked in `disp_main` and `cl_main`, where the program
neither crashes nor stops: a dispatcher that has been left (`pc = "idle"`) can always be
called again, and the client too.

## Fairness

* `Dispatcher`: the thread in `work()` keeps running (weak fairness of the loop) and
  time passes (`Tick`); callbacks end (strong fairness: a callback that calls
  `work()` again and again disables its own end each time). Applications owe no
  call, descriptors need not become ready.
* `Server`: the loop runs on, methods end, `work()` is called again after it has
  returned (weak fairness), and the application answers what it has postponed: strong
  fairness for each connection, because it runs between the calls of `work()`, or in
  other threads during `select()`, and is interrupted by both. Nothing is assumed of
  clients; the liveness properties speak of requests that have arrived and of clients
  that read.
* `Client`: `work()` is called again and again and callbacks end; strong fairness
  of the steps, because `work()` and nested calls come in between; the server
  answers what it hears while the connection lives.

## Proofs

The theorems hold for all values of the constants: any sources, descriptors and
bounds, any connections, calls and lengths, any error handlers. Where the application
must not make a mistake, the theorem says so. `PROJECT.json` lists them with the
property each one states.

### Dispatcher

* `TypeCorrect`, `ArrayCorrect` (`DispatcherProofs`): `TypeOK` and `ArraySound`, for every
  application. `TypeOK` is not inductive: shifting the array needs the slots in use
  to hold sources, and a callback's return needs its frame. The invariant is
  `TypeInv == TypeOK /\ ArraySound /\ FramesSound`; there is a lemma for the array
  operations (`AddSourceTypes`, `DelSourceTypes`) and one for each group of actions.
* `IdsCorrect`: `IdsSound` if no source is registered twice. Its
  strengthening is `OnceInv == TypeInv /\ IdInv`, where `IdInv` adds that a source is in
  one slot at most. A removal by id then takes away exactly its source
  (`DelSourceReg`).
* `PendingCorrect`: a source that a batch has yet to call stays registered, if the
  application also deletes no pending source. The step needs three facts: what is
  left of a batch comes from the array (`RestStep`), events are set for registered
  sources only (`OccStep`), and a pending source is unregistered only by the start
  of its callback, which resets its event (`RegStep`).
* `CrashFree`: for a careful application (`"reread"` does no harm here) the search of line 203 never
  runs off the array and `select()` is never given a closed source; from `OnceInv`,
  `PendingRegistered` and `HasDescriptor` (a registered source has a descriptor, if none
  is registered without one and no callback fails that has registered its source again).
* `OneCallCorrect`: a callback starts only for a registered source and uses up its
  registration.
* `EventLoopKept`: the refinement of `EventLoop` at every depth of nesting. `Called`
  gives the running callbacks as a sequence; a lemma for each way in which the calls of
  `work()` change says what becomes of it (`ReturnRunning`, `CallEndsRunning`,
  `DispatchRunning`), and `AddSourceReg` and `DelSourceReg` what becomes of the registered
  sources. It needs `OnceInv` and `PendingRegistered`: a callback that started for a
  source already deleted would be no `Fire`.
* `EventsAreFresh`: `EventsFresh` for a careful application and sources with descriptors of
  their own. `FreshInv` says that every event a source keeps can still be had, and that a
  source whose id is -1 keeps none: its callback alone may then use the descriptor.
* `UnlimitedRunsOn`: `UnlimitedWorkRunsOn` if calls of `work()` do not nest (`StopInv`).

### Transport

* `BufferCorrect`: `BufferSound` for a buffer that anybody writes to, for all lengths and
  initial sizes. Its strengthening adds the types; the lemma `GrowEnough` says that each
  path of `growBuff` allocates more than the new bytes and a null byte.
  `BufferStaysSound` is the same for the buffers that messages are built in.
* `WholeIsWhatWasSent`: `Reassembled`, and `NoReaderWaitsInVain`: `NeverWaitsInVain`, for
  every document, header and chunking that the assumptions allow, pieces of every size
  and every point at which the connection may be lost. `TypeCorrect` comes with them; it
  says nothing of a reader that finds the rest of an earlier message first, whose header
  is any text and need not give a number; that case is left to `OnlyWhole`.

The invariant is `TransportInv`. `Types`, `Built` (what is built so far is the beginning
of the document, then of the header) and `Ends` (what is lost is lost with the
connection) are bookkeeping. `Framed` relates the reader to what was sent, in one of
three ways, for by its header a message has a length (`LengthFramed`), none
(`EndlessFramed`) or comes in chunks (`ChunkFramed`); and it says that no reader fails
before the end of a message that is `Complete`, which has been neither cut nor joined nor
lost. With a length or without, `InText`
says that what the reader has, followed by what is still on its way or lost, is the header
and the text. With chunks, `InChunks` says that the reader is at the start of some chunk
`i`: its body is the document up to there, and its chunk, with what is on its way, is the
text from there on.

The lemmas go up from sequences to readers. `HeaderFound`, `FoundOfStart`,
`HexEndOfStart` and `ChunkOfStart` say that what is found in the beginning of a text is
what would be found in the whole, unless it is not there yet: that is why a reader may
look at what has come so far. `PieceOfChunk`, `ChunkTaken` and `LastChunkTaken` say what
`processChunk` makes of the beginning of a chunk of any length, `ResponseRead` and
`RequestRead` the same of a body. From these follow `ClientReadsText`, `ServerReadsText`
and `ClientReadsChunks`, one for each reader and framing, and `NextStep` has a lemma for
each action.

### Codec

`ValuesSurvive`: whatever value `encodeValue` writes and whatever text follows it,
`decodeValue` has one result, which is the value, and leaves the cursor where `chompStr`
brings it behind the value's text. It holds for every value in `Kept[Depth]`: integers and
booleans, doubles of every number of decimals (`Precision`) whose text is not cut off
(`Fits`), dates with as many digits as `decodeDate` looks for (`IsDate`), any bytes, any
string, and arrays and structs of these, of any size and depth. What is excluded does not
survive in the code either: a longer double loses its end (`rpcUtils.c:289`), a year below
100 its place (`rpcUtils.c:393`), and a member whose name has `</name>` in it is cut there,
because keys are not escaped (`rpcUtils.c:513`).

Induction over data has to be won first, because the library's theorems about it take an
operator that the provers cannot instantiate:

* `Recursion` has its function as a constant operator `Def` and proves, from the least
  counterexample, that there is a function with `f[x] = Def(f, x)` if `Def` looks at `f`
  only below a measure (`RecursionDefines`). Each recursive function of `Codec` instantiates
  it: `DigitsDefined`, `ChompDefined`, `DecodersDefined` and the others.
* `TextProofs` states induction over numbers and over sequences, from the front and from
  the back, as membership in a set (`StrongInduction`, `FrontInduction`, `TailInduction`).

Then, from the bottom: `DecimalRead` and `DoubleRead` (digits and their value, with sign
and point), `DateRead` (padded fields at fixed places), `EscapedRead` (entities, and that
an escaped text has no tag in it) and `BytesRead`, whose invariant `BytesHeld` says of what
byte the writer still holds bits and that the reader has not put it out yet. `Solid` and
`Leads` say where `chompStr` leaves a cursor, `Reads` what `decodeValue` makes of what is
between two tags, and `Decoded` what it makes of a whole value, by any decoder that is as
deep as the text is long. `ElemsRead` and `MembersRead` go through the loops of
`decodeArray` and `decodeStruct` by induction over elements and members, where the names of
members must be apart; `KeptRead` goes through the depths.

`StringsAssumption` says that the tokens which the model writes are strings, which the
provers do not know of literals.

### Delivery

`MessagesSurvive` is proved in two halves that meet in `CompleteSurvives`: what a reader has
in the end (`InvWhole`, from `TransportInv`) and what the parsers make of it.

* `BodiesSurvive`: `parseCall` and `parseResponse` have one result for the document of a
  message, which is its method and parameters, its result or its fault, and no text is
  left. From `ValuesSurvive`, through the parts of a document (`CallRead`, `ResultRead`,
  `FaultRead`), with the defaults of `rpcFault_Extract` for a fault's code and text.
* `HeadersSurvive`: `parseHeader` has one result for a header with any document behind it.
  It has every line that the caller gave, under the name with its capitals changed, and
  `authenticate` finds the name and the password in it. `LinesRead` says of lines that they
  put a dictionary under what is read behind them; it goes through a header from its end
  (`MoreLinesRead`), with an induction over the caller's lines (`InfoRead`). `RequestLineRead` has
  the `cp += 11` that reaches into the line of `User-Agent`, and `CallerRead` the base64 and
  the colon.
* `OwnMessagesSurvive` puts the two together, as `parseRequest` and `parseResponse` do.
* `HeadersFrame`: a header that `buildHeader` writes ends with its only empty line, gives the
  length it was written for and no other, and says nothing of chunks; the one without the
  line of the length gives none; the one for chunks says so. These are `Transport`'s
  assumptions `HeadAssumption`, `EndlessAssumption` and the first part of
  `ChunkAssumption`, for the library's own headers and whoever calls. What the caller's own
  lines say is not checked by the code and could hide the line of the length behind one of
  theirs, so they must not have the names of the lines that frame (`IsUnframed`). A header is
  split into the lines before (`Quiet`), the framing line (`FramingLines`) and the empty one;
  `FieldFirst` and `LinesEnd` look in it for a name and for an end.
* `OwnWritingSurvives`: `MessagesSurvive` for all that this library writes (`OwnWriting`), in
  every framing and in pieces of every size.
* `MessagesAlwaysSurvive`: `MessagesSurvive` without that restriction, if each document and
  header of another program is one that the parsers read as the message (`OthersRead`). The
  library promises nothing of how others write, so this is an assumption; that it holds
  for the rewritings of `Delivery` (`Rewritings`, `Relined`) is what the run `codec` shows for its messages.

What is assumed of a message is `IsMessage`. Its parameters are in `Kept[Depth]`. The name of
its method does not hold `</methodName>`, which is not escaped (`rpcUtils.c:1040`). Its
caller's lines have names without a colon or a line end, of which no two are the same but
for capitals, and values without a line end and a blank before them; none of them is one of
those that the library writes itself. A name for `authenticate` has no colon and no zero.

### Server

None of `Server`'s properties is inductive: each depends on what the others keep. The
invariant has two layers.

* `Control` is about sources and descriptors: `Modes` (the types of what is not
  counted), `Idle` (a connection without a descriptor is in no list), `NoOrphan`,
  `ArmedSound`, `Fresh`, and that the method and the postponed requests belong to open
  connections that are not registered (`CurOut`, `PostponedOut`). `StepControl` has a
  step for each action.
* `Data` counts units: what is sent, read, taken, written and got of a connection
  (`Counts`, `Within`), what the server still owes (`Owed`), that the units answered,
  being written and owed add up to the requests taken (`Progress`, `Partly`), and that
  the units on the wire are `1, 2, 3, ...` (`InOrder`). `Writes`, `AfterWrite` and
  `AfterAnswer` say once what writing a part of a response does; `StepData` uses
  them for each action.

From it follow `TypeCorrect`, `ResponsesKeepOrder`, `NothingForgotten` and
`SourcesAreSound`, with every mistake of the application
and with clients that pipeline and fail. `ServerKeepsPromise` is the refinement of
`RpcService`: each action either leaves the mapped state or is the one step of the
specification that `StepPromise` names.

The two other theorems assume `Polite`: a client sends the next call after it has read
the response to the last, and its requests parse.

* `KeepAliveIsNegotiated`: `KeepAliveNegotiated`. Its invariant `Turns` says what the
  client's restraint does to the server's counters: the server has taken all but one of
  the requests sent, so that what a source holds is the next request alone, and while an
  answer is due `keepAlive` is that of the request it is for. `AllNegotiated` then says
  what has become of a connection whose answer is complete.
* `ServerKeepsToConnections`: `ServesConnections`, if besides no process competes
  (`~Preforked`) and no postponed request is given up with `queueFault`. `Lines` says that an
  open connection is registered, being called or owed an answer, so that none is closed
  by being forgotten (`Forget`). There is a lemma for each step of `Connection`
  (`SendLink`, `TakeLink`, `WriteLink`, `LeaveLink`, ...), and `StepLinks` names the one
  that each action of the server is. With the client's `ClientKeepsToConnection` both
  sides of the composition are proved: each does what the other's model assumes.

### Client

* `Types` and `Thread` (`ClientProofs`) hold whatever mistakes are made. `Thread` ties the
  C stack to the calls: `execute` runs a dispatcher of its own that nothing else runs,
  and the call that the client works on is pending; no other one is, if `execute` is not
  called during an `nbExecute`. From it `ClientKeepsPromise`, the refinement of
  `RpcCalls`, step by step: exclusive without that mistake, and with it still refusing a
  call only during another one and ending each at most once. `ExecingIsSound` needs that
  the mistake is not made, and is inductive then (`Registered`).
* The other theorems assume `CarefulUse`: no `execute` during a call of `nbExecute`, no
  use of a client whose `execute` has timed out before it is closed, no call in a
  callback whose connection is about to be closed, and error handlers that return
  `ONERR_KEEP_DEF`. Without the first three `cl_overlap`, `cl_timeout` and `cl_chain`
  are counterexamples; without the last a connection is kept with the rest of a response
  on it.
* `Exchange` says what is on the connection at each stage of a call:
  what has been read, can be read and is yet to be sent are the units of the response
  to the call in progress, in their order (`Numbers`); nothing but its request is on the
  way to the server, and as much of it as the stage says (`Phase`); and the server ends
  the connection only behind a response that says so (`Ends`). `CompleteIs` is the heart:
  when `readResponse` finds the end, it has this response, and the connection is empty.
* From it `SilentBetweenCalls` and `ClientKeepsToConnection`; with `Kept` (what is kept
  for the application, and that nothing is under way for calls that have ended)
  `AnswersAreRight`.
* `NothingFailsInVain`: `CallsSucceed`, if besides no callback fails that has queued another
  call. A call may fail by the server or the network, by its own response, or because the
  one before it has ended with the connection and has been kept alive all the same
  (`CutBefore`), and by nothing else (`Failures`). `Turns` puts the calls in their order, so
  that there is one before; `Blame` says that a connection that has ended is left to the
  next call by such a response only, and `Unbroken` that it is neither reset nor missing.

### Only model-checked

* All liveness: `ReadyServed`, `DeadlineEndsWork` and `ExitEndsWork` of the dispatcher,
  the server's `EveryRequestAnswered` and `EveryClientAccepted`, and
  the client's `EveryCallEnds` (the prover reaches neither fairness nor `ENABLED`).
* `OnlyWhole`: that no parser takes a part of a document, or two parts, for a whole one. It
  says something of every prefix of every text, and of readers that start in the middle
  of one, for which there is no invariant but the grammar itself.
* `OthersRead`, which `MessagesAlwaysSurvive` assumes, for the layouts and spellings of other
  programs.
* Chunks: the proofs about `Transport` take `HexOf` for what it is in the chunks that the
  assumptions allow; that the divisions of `Delivery` are such is evaluated by TLC.
* `Transport`'s assumptions for the layouts and header lines of other programs.

## Where the code does not do what it says

Five runs end in a violation and are listed as findings: `disp_delete`, `srv_accept`,
`cl_overlap`, `cl_timeout`, `cl_chain`. The models also contain these, for which no run
is kept:

* `server.close()` in a callback empties the array under the batch; a registration
  after it makes the search of `rpcDispatch.c:203` fault (`"delete"`, `Close`).
* A callback that returns 1 is registered again for the acts that occurred, not for
  those it was registered for (`rpcSource.c:229`; `src/CHANGELOG:143`: "the callback is
  reinstalled").
* A handler that returns `ONERR_KEEP_DEF | ONERR_KEEP_WORK` leaves the exception
  pending in a loop that goes on (`rpcDispatch.c:327`).
* A nested `work()` overwrites the stop time that `exit()` has set, so the outer
  `work()` goes on (`rpcDispatch.c:191`); `ExitEndsWork` holds without nesting. The outer
  call also ends when the time of the nested one is up, even if it has no limit itself;
  `UnlimitedWorkRunsOn` holds without nesting (`UnlimitedRunsOn`).
* `actOcc` is said to hold the "actions that occured in last event" (`rpcSource.h:45`), but
  is reset only for the sources that are registered at the next poll
  (`rpcDispatch.c:370`). When a callback registers its source again and runs `work()`, an
  error that ends the nested batch leaves the event in the source; if the callback then
  reads on, a batch further out, or one to which another thread adds the source during
  `select()`, calls it for an event that is gone. With the mistake `"reread"`, three
  nested calls and four registrations show it; `EventsFresh` holds without
  (`EventsAreFresh`).
* A source that another thread adds during a `select()` without a timeout is not
  waited for; `ReadyServed` holds without threads.
* `queueFault` raises the fault in its caller and does not answer the client
  (`rpcServer.c:1195`), though `src/examples/examples.py:218` says "Note that there is a
  queueFault which behaves identically"; `EveryRequestAnswered` holds without it.
* Every failure of `accept()` is an error of the listener, as a lost race is
  (`rpcServer.c:305`): a client that resets its connection in the queue, or a moment
  without descriptors, ends the service unless an error handler keeps it
  (`AcceptFails`). Connections that are open are served on (`EveryRequestAnswered`).
* A response of HTTP/1.1 with neither a length nor `Connection: close` ends with the
  connection and is kept alive all the same (`rpcUtils.c:1460`), so that the next call
  meets a dead descriptor and fails: "Keep alive is automatically negotiated"
  (`src/CHANGELOG:138`). `CallsSucceed` holds but for that call (`CutBefore`).
* A request that does not parse, or is not authorised, is answered with an
  uninitialised `keepAlive` (`rpcServer.c:449`); `KeepAliveNegotiated` holds for the others.
* `queueResponse` a second time, after its write has failed, examines NULL params
  (`rpcServer.c:1152`).
* `execute` during an `nbExecute` is refused, but resets `execing` (`rpcClient.c:623`);
  the next step of the call then fails an assertion, if no other call has taken its
  source before (`cl_overlap`), which is then in the dispatcher twice (`left`).
* A handler that returns `ONERR_KEEP_WORK` for `execute` makes it parse NULL
  (`rpcClient.c:634`). One that does not return `ONERR_KEEP_DEF` keeps a connection
  with the rest of a response on it.
* The request line is skipped with a fixed `cp += 11`, which reaches into the next
  line: the first header line of every request is lost (`rpcUtils.c:1544`).
  `MessagesSurvive` holds because `buildHeader` writes `User-Agent` first; a header line
  of another client's that comes first, `Connection` say, is not seen.
* A comment is skipped with the character behind it (`rpcUtils.c:1802`): one that a
  tag follows directly makes the document unreadable. `Spaced` puts a line end behind.
* A struct member's name that does not end is searched for behind the text
  (`rpcUtils.c:980`).
* A header counts as whole only when something follows it (`rpcClient.c:745`,
  `rpcServer.c:386`): the reader of an empty body waits for a byte, or for the end, that
  may not come. `NeverWaitsInVain` holds for bodies of at least one byte.
* Doubles are printed into 256 bytes (`rpcUtils.c:289`); longer ones lose their end.
* A name with a colon is split from its password at that colon (`rpcServer.c:760`).
* Keys of structs are neither escaped nor unescaped (`rpcUtils.c:513`); they survive
  between two programs of this library, but are no XML if they hold markup.
* A boolean that is neither 0 nor 1 is an error and yet decoded as true
  (`rpcUtils.c:684`); years below 100 lose their places (`rpcUtils.c:393`).

## Not modelled

* Dispatcher: the lifetime of sources (the snapshot holds no references), error
  handlers that call the API, two threads in `work()` at once, ids after 2^32
  registrations, signals during `select()`, descriptors beyond `FD_SETSIZE`,
  exceptional conditions (`ACT_EXCEPT`).
* Server: nested `work()` in methods and `close()` inside of a batch (they are in
  `Dispatcher`), the authentication function, responses of the wrong type, a
  postponed source that the application drops, failures of allocation.
* Client: other threads during `select()`, closing or registering during a call (in
  `Dispatcher` these are the mistakes `"dead"` and `"double"`), builds without assertions
  after an overlap, blocking name service. Clients made with `rpcClientNewFromServer`
  share the server's dispatcher: the model's callbacks of other sources stand for it.
  That responses may be chunked is left to `Framing`.
* Codec: overflow of numbers, reads in front of a chunk whose size is negative (it fails), null bytes, cuts inside of a token, failures of
  allocation, tuples (they come back as lists).
* Builds for Python 3, where `xmlrpc2to3.h` maps the string macros to text for some
  and to bytes for others, and booleans are sent as integers; the models follow
  Python 2.
* Bindings (`xmlrpcmodule.c`) and the Python classes of dates and faults: argument
  conversion and data without a protocol.

## Plan

1. *Done:* `EventLoop`, `Dispatcher`; `RpcService`, `Server`; `RpcCalls`, `Client`;
   `Connection`, which composes the two; `Buffer`, `Framing`, `Transport`, `Codec`,
   `Delivery`; the proofs listed above.
2. Two threads in `work()` on one dispatcher, each with a snapshot of its own.
