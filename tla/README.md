# A verification of the document ferry server

`doc_ferry_server` is a single-threaded TCP server on `select()`. A client sends
requests, each an 8-byte header (`id`, `length`, in network byte order) and
`length` bytes of a document; the server stores the document in a cache and
answers with a header of the same id and a 4-byte state. The code runs on
Windows and on Linux (`CP_WINDOWS`, `CP_LINUX`). Paths below are relative to
`src/doc_ferry_server/src/` unless they say otherwise.

## Inventory

| Part | State it keeps | Operations | Called by / calls |
|---|---|---|---|
| `cache_part.cpp` | a `cache_t`: buffer or open file, `capacity`, `widx`, `ridx`, path | `create_cache`, `cache_push`, `cache_pop`, `cache_full`, `delete_cache`, `leave_cache` | called by `HV` and `VirusHandler` |
| `hv.cpp` (`HV`) | header, `hlen`, `head_complete`, `value`, `value_complete`, `to` | `write` (incremental), `write(header, value)`, `clear`, `is_complete` | called by `VirusHandler`, calls `cache_part` |
| `virus_handler.cpp` | `req` (decoder), `resp` (queue of encoded answers) | `handle_read`, `handle_write`, `request`, `response`, `handle_close` | called by the event loop |
| `base_socket.cpp` (`BaseSocket`) | `sock`, `connected`, `connecting`, `accepting`; the shared map descriptor -> handler | constructor, `add_channel`, `del_channel`, `create_socket`, `bind`, `listen`, `accept`, `connect`, `send`, `recv`, `close`, `handle_*_event` | base of all handlers; a handler owns itself through the map |
| `do_select`, `loop` | `select_socks`, the three fd_sets, `retv` during a round | one round; rounds until the map is empty | calls the handlers, which change the map under it |
| `tcp_server.cpp` | the listening handler | constructor, `handle_accept`, destructor | creates a `VirusHandler` per connection |
| `socket_handler.cpp` | nothing of its own | constructor (asks for blocking mode) | between `BaseSocket` and `VirusHandler` |
| `cp_socket.cpp` | nothing | wrappers of the socket calls | the two platforms differ in `cp_setblocking` |
| `main.cpp` | one `TCPServer` and the map | `loop(60000, 0, &sock_handlers)` | lines 25-199 are disabled |

What is hard about it:

* **Reentrancy.** Callbacks of a round of `do_select()` close sockets and accept
  new ones while the round is going on, and the kernel reuses the descriptors.
* **Object lifetime.** A handler is deleted by erasing it from the map, from
  inside its own methods.
* **Stream framing.** One `recv()` may return part of a request or several, and
  the decoder carries its state over.
* **Failures.** Resets between any two calls, short `send()` and `fwrite()`,
  failing `malloc`/`fopen`, no free descriptor, full fd_sets.
* **One thread.** A handler that does not return stops the server for everyone.

The same list, at the lines where each one bites, is in `PROJECT.json` under
`hazards`. The other directories of the repository (`server`, `socket_exception`
and the language trials) are listed there as components that are not modelled;
the test program in `client` is.

## Modules

| Module | Models |
|---|---|
| `CacheOps` | the index arithmetic of a cache, as operators |
| `CachePart` | the cache API as a state machine: two or more caches, memory, files, the clock |
| `CpSocket` | `cp_setblocking` and `cp_inet_pton` on both platforms |
| `HV` | the decoder, as operators on a record: each method gives the set of states it can leave |
| `VirusHandler` (extends `HV`, `CpSocket`) | one connection: the loops of `handle_read()` and `handle_write()` |
| `RequestChannel` | abstract: what one connection promises its peer; `VirusHandler` implements it |
| `Peers` | the peers and what the kernel keeps of their connections, shared by the next two |
| `Reactor` (extends `Peers`) | abstract: what the event loop promises each connection; `SelectLoop` implements it |
| `SelectLoop` (extends `CpSocket`, `Peers`) | the map, the kernel's descriptor table, `do_select()`, `loop()`, accept/read/write/close of all handlers |
| `Descriptors` (extends `HV`) | several handlers with their decoders and cache files, on one descriptor table |
| `BaseSocket` (extends `CpSocket`) | the class as a library: objects and their flags, `connect()`, the two maps, `TCPServer`'s construction and destruction, `loop()` with and without a count |
| `Ferry` (extends `VirusHandler`) | the test client and the handler of its connection, composed |
| `MCVirusHandler`, `MCSelectLoop`, `MCFerry` | request lengths and the symmetry for TLC |
| `HVProofs` | lemmas on what the decoder's methods return |
| `VirusHandlerProofs` (extends `HVProofs`), `ChannelProofs`, `FerryProofs` | theorems on one connection, on its refinement of `RequestChannel`, and on client and handler together; each extends the one before |
| `SelectLoopProofs`, `DescriptorsProofs`, `BaseSocketProofs`, `CachePartProofs` | theorems on the module of that name; the first also has the refinement of `Reactor` |

### HV and VirusHandler

A byte is its offset in the stream; message `k` begins at `Start[k]` and its
header decodes to `<<k, VLen[k]>>` there and to `GarbageId` with some length of
`GarbageLength` anywhere else, so a decoder that has lost the boundaries shows.
The record `req` has the members of `HV` that decide anything (`vlen` is never
read). Only the indices of the value's cache are kept.

Every iteration of `handle_read()`'s `while (true)` is one step (`WriteMore`,
`WriteLast`, `WriteFailed`), every iteration of `handle_write()` another
(`SkipResponse`, `SendResponse`, `SendFails`). `Recv` is one `recv()`: any
number of bytes up to the size of the buffer; with the fault `"split"` off, a
`recv()` does not end inside a header. The memcpy of `write_head()` at a
non-zero `hlen` writes behind the header, into the other members or behind the
object. `Overwritten` is the set of states after which the members still mean
something: `value` is the pointer it was, or null. Everything else the copy can
leave (a wild `value`, a negative `hlen`, a broken queue) is `Clobber`, after which
the process is dead or `pc` is `"undefined"`: it lives on, `cache_push()` may write
anywhere, and the model follows it no further. `space` is what the
disk still takes; a full disk makes `fwrite()` come back short. The space counts
the bytes pushed; the file's last byte, which `create_cache_file()` writes to set
its size, leaves a hole and is not charged. stdio reports a full disk when it
flushes; the model reports it at the `fwrite()`.

`RequestChannel` says what all this is for: answers `OK(1)`, `OK(2)`, ... are
queued one by one, each not before the last byte of its request has arrived, and
go out in that order. The refinement mapping (`Channel`) forgets the decoder: the
bytes `recv()` has returned are those that arrived, and of a response only id and
state count. It holds for requests of `MemoryCache` bytes and more, with headers
in one piece and caches that can be created; `conn_small` and `conn_split` are
the two ways out of it that need no failure.

### SelectLoop

A handler is named after the peer it was created for. `handlers` is
`*p_handlers`, `ksock` the kernel's view of the same descriptors; the two differ
exactly when something went wrong. `Select` is the first half of `do_select()`
with the call of `select()`; `NextSocket` and the three blocks `"r"`, `"w"`,
`"e"` are the second half, one step per block, with the peers' steps
(`Environment`) between any two of them. `retv`, `ready` and `todo` are the local
variables. What a handler does with bytes is reduced to counts: a piece read may
or may not complete a request.

`peer[c].unread` is what the kernel's send buffer holds for a peer, counted in
responses, of which it takes `SendBuf`; `select()` reports a socket writable
while there is room (`WriteReady`). `handle_write()` pops every response and looks
at no result of `send()` (`SendAll`). Where accepted sockets do not block (Linux,
see `cp_setblocking`), what the kernel has no room for is lost. Where they block
(Windows), the thread stays in `send()` (`pc = "send"`) until the peer reads
(`SendMore`) or the connection ends (`SendAborted`), and nobody else is served.
`peer[c].due` counts the pieces a peer has sent and read no answer to;
`NoAnswerDropped` needs it to say who can lose an answer. A response is sent
whole or not at all: a cut one is a lost one.

`close` keeps the order of the code: the map's reference goes first, and with it
the object; the descriptor is then read from freed memory. That normally still
works, and with the fault `"stale_this"` it does not and the socket leaks.
`Construct` is the constructor's `getpeername()` branch which deletes the object
under construction (fault `"peername"`). `Expt` closes the connection because
`getsockopt()` without a buffer fails always. On Linux a listener that could not
be bound counts as hung up and readable, and the loop turns on failing
`accept()`s; the model has that cycle. `select()`'s timeout and its errors are
`SelectNothing`, a stutter, since `do_select()` returns in both cases.

`Reactor` is the same loop without descriptors, fd_sets and rounds: a connection
has one handler, which gets this connection's bytes only, answers no more than it
was sent, loses an answer only when the kernel has no room for it, and is closed
only when its peer has closed, reset or sent urgent data.
The mapping (`ReactorView`) takes for live the peers whose handler is in the map;
`"peername"` becomes the abstract loop's right to drop a connection it accepts.
That a handler is never closed without a reason is the part no invariant of
`SelectLoop` says: on Linux accepted sockets are non-blocking and
`VirusHandler` takes `EWOULDBLOCK` for an error, so one `recv()` without an event
behind it would lose the connection.

### Descriptors

Every connection has a decoder (`req`, with the operators of `HV`) and the number
of its queued responses; `files` counts the `FILE`s the process has open. On
Linux these share the table with the sockets, and `Free` is what is left. A
`recv()` takes any part of what has arrived, `handle_read()` is again one step
per call of `HV::write()`, and `create_cache()` fails exactly when the table is
full. `fopen()` (`Opened`) and the `fclose()` in `leave_cache()` (`Left`) change
`files` as the code calls them, independently of what the decoder's `value`
becomes; `close` deletes the decoder and calls neither. `leaked` counts the sockets
nobody closes: the one of a `close()` that reads `this->sock` from its deleted
object and no longer finds it there, and the one of a constructor that deleted its
object (`AcceptLost`). Both may happen to any connection. Memory is not counted:
the buffers of queued responses and the small structs of a lost cache leak with
it. A header is one byte, so it cannot be cut. A byte of a value that a decoder
out of step takes for a header decodes to any length.

A connection is *disturbed* when its peer sent a request below `MemoryCache`
(whose cache `clear()` keeps), was answered `INTERNAL_ERROR`, or ended before its
last request was complete and answered.

### BaseSocket

No program of the repository calls `connect()`; the module is the class as its
header offers it. The program makes objects of the classes `BaseSocket` and
`SocketHandler` on either map, with a socket of their own (`create_socket`) or an
existing one (`Adopt`), connects them to any kind of address, makes and destroys
`TCPServer`s, and calls `loop()`, which takes one event after the other. It calls
`create_socket()` once per object (a second call would put the object into two
`shared_ptr`s) and stops using an object that has been deleted.

What the model shows of the code without any property being violated:

* `getsockopt(.., nullptr, nullptr)` fails always, so every outgoing connection
  ends with its object deleted, in `connect()` itself when it returns 0 and in
  the loop otherwise; `handle_connect()` is dead code. `ConnectNoticed` holds
  because of it and would have to be kept by a repair. `SuccessIsReal` is therefore
  about what `connect()` takes for a success, not about what is left of it when 0 is
  returned: that is nothing.
* `handle_read_event()` and `handle_write_event()` then call a method of the
  deleted object: nothing happens or the process ends.
* A handler constructed on a valid socket with the default map dereferences the
  null parameter (line 91): `Adopt` with `"nullptr"` ends the process.
* `~TCPServer()` does not close its socket. The port stays taken, and a second
  server of the same process is not bound; on Linux it listens on a port the
  kernel chose, and nobody is told. `OrphansKnown` shows it is one of only three
  ways to lose a socket; the others are a constructor that deleted its object, and
  `close()`, which reads `this->sock` of the object it has just deleted.
* On Windows an address that `cp_connect()` refuses leaves the object connecting
  for ever, since an unconnected socket is never reported there.

### Ferry

The client's `fake_client_send_file()`, step by step from the connection on, and
`VirusHandler` with one request. The composition ties the two: the handler can
receive only what the client has handed to `send()`, sees the end of the stream
when the client has closed and everything has been received, and a reset or a
failing `send()` only then. Integers are four bytes here, because the property is
about their order: `HV::write(header, value)` converts the header and not the
state. The client's `recv()` may return fewer bytes than asked for, and the client
then gives up. Either process may be killed between any two steps
(`ClientKilled`, `ServerKilled`); this is where `send()` and `recv()` fail.

### CachePart

`cache[c]` is the life of one `cache_t`. Bytes are pairs of cache and place, so
`FifoOrder` and `FileKept` can tell any byte from any other. A file's name is the
clock's value, and `CreateFile` empties a file of that name (`"wb"`): two files
of one tick (a millisecond on Windows, a microsecond on Linux) are one, and the
first loses its bytes. `FileKept` is therefore about files whose name was given
once (`OwnName`); without this condition TLC finds the clash at once. `FILE *` is
opened for writing only, so `cache_pop()` of a file never returns anything
(`Refused`). Each caller uses its own cache; a caller stops using it after
`leave_cache()`, which frees it.

## Runs

| Run | Checks | Result and bounds |
|---|---|---|
| `conn` | `Framing`, `AnswersInOrder`, `NoEarlyAnswer`, `ReadTerminates`, `EveryRequestAnswered`, `ImplementsChannel` | hold. Windows, four requests of 2, 3, 2 and 1 bytes, header 2, threshold 2 (the small one last, since nothing after it is decoded right), a disk of 7 bytes that is full before the last one: every cut of the stream outside headers, several requests in one `recv()`, queues of up to four answers |
| `conn_faults` | `TypeOK`, `BufferBounds` | hold with every fault: cut headers, garbage lengths, failing caches, resets, and a disk that fills up; `BufferBounds` ends where a cut header has left a pointer that is not the decoder's |
| `conn_small` | `NoEarlyAnswer` | **violated**: a request below the threshold leaves its cache in the decoder |
| `conn_split` | `OwnHeader` | **violated**: a header in two pieces is put together wrongly |
| `loop` | `TypeOK`, `HandlerOwnsSocket`, `NoStaleDispatch`, `ListenerStays`, `NoEventDropped`, `ImplementsReactor` | hold. Linux, two peers, three descriptors, the highest beyond the fd_set, every fault; with `"nofile"` `accept()` finds no descriptor, because cache files have them |
| `loop_live` | `EveryConnectionAccepted`, `EveryPeerServed`, `EveryResponseSent`, `NoAnswerDropped` | hold. Linux, two peers, every descriptor within the fd_set; nobody need read what it is sent. One peer sends up to two requests before it reads and the kernel has room for one answer, so that answers are lost and the condition of `NoAnswerDropped` decides |
| `loop_block` | `NoSocketLeaked`, `EveryConnectionAccepted` | hold. Windows, as `loop_live`, with peers that read. Without that assumption TLC finds the server waiting in `send()` for ever |
| `files` | `TypeOK`, `OneFilePerDisturbed`, `FullForAReason`, `EndNoticed` | hold. Two peers, three connections and two requests (1 or 2 bytes, threshold 2) in all, four descriptors: one aborted request or one leaked socket already makes the table run full under the two connections that follow |
| `connect` | `TypeOK`, `OwnedOnce`, `OrphansKnown`, `SuccessIsReal`, `ConnectNoticed` | hold. Linux, two objects, one server, two descriptors, so that numbers are reused and run out |
| `ferry` | `AnswerMatchesRequest`, `ClientEnds`, `HandlerCloses` | hold. One file of twelve bytes in pieces of up to four, either process killed at every point |
| `ferry_errcode` | `ReportedState` | **violated** when a cache fails: the state is sent in host order and read in network order. The client may also wait for ever here, for an answer the server had no memory for, so deadlock is not checked |
| `cache` | `TypeOK`, `FifoOrder`, `FileKept` | hold. Two caches of up to two bytes, three clock ticks, any number of files in one tick |

The bounds are small because the cases are: a decoder that mistakes one boundary
does so with two messages, a threshold needs lengths on both sides and at it, a
reused descriptor needs one socket that closes and one that is accepted, and the
order of events in a round needs two sockets besides the listener. Named bounds:
`MaxSend` (pieces of a peer it has read no answer to), `SendBuf`, `Backlog`, `NReq`,
`MaxCapacity`, `MaxTime`, `DiskSize`, `MaxFd`, `MaxRequest`, `MaxConnect`. One piece
per peer is enough for dispatching, since a piece may or may not end a request and
the end of the connection is an event of its own; losing an answer, or waiting in
`send()`, takes two pieces of one peer and room for one answer. `Ahead` is the set of
peers that send on before they have read the answer, `Urgent` of those that may send
urgent data; a run names the peers it needs for its question. An fd_set smaller than
the map on Windows is in no run; the safety theorems hold for every `FdSetSize`.

The violated runs show what the code does against its own comments; the quotes
are in `PROJECT.json` under `findings`. The passing runs say under which
circumstances the same properties do hold: `Framing` and `AnswersInOrder` name
these in `Undisturbed` (no header cut, no request given up, no small request
served), the others by the run's constants. `EveryRequestAnswered` holds for the
lengths of `conn`; a last request of length 0 is answered only when another byte
arrives, because `write_value()` returns at once when it is given nothing.
`ReadTerminates` and `EveryRequestAnswered` except a handler that stands before
a full disk (`StuckOnDisk`): `cache_push()` then returns 0, `handle_read()` waits
for progress or -1, and its `while (true)` never ends, with the server's only
thread in it. On Linux `cp_setblocking(sock, true)` keeps `O_NONBLOCK`
(`mode & O_NONBLOCK`), so accepted sockets never block and `send()` may cut a
response short: `VirusHandler` lets it (`SendResponse`), and `NoAnswerDropped` says
to whom it can happen.

### Fairness

`loop_live`: weak fairness of `Main`, everything the thread does by itself. The
thread is scheduled, `select()` returns when something is ready, and loop() runs
on. Nothing is assumed of the peers; `SelectNothing` may happen any number of
times but not for ever once `select()` has something to report. The run is on
Linux, where accepted sockets do not block. `EveryResponseSent` has one condition on
the response's own peer, that there is room in its send buffer again and again.

`loop_block`: on Windows `send()` to a peer that does not read stops the whole
server, so `ReadingSpec` adds weak fairness of every peer's reading. The code cannot
make peers read and has no timeout; the test client reads every answer.

`ferry`: weak fairness of either program. A `recv()` with nothing to return
blocks; that it ends is what `ClientEnds` says. No failure is
assumed to happen: a handler is closed by the end of the stream alone.

`files`: weak fairness of `handle_read()`'s loop once it is entered, and strong
fairness of the read event of each connection: other handlers run in between, but
`do_select()` comes to every ready socket in every round (`EveryPeerServed` of
`loop_live`). No peer is assumed to send or to go.

`connect`: weak fairness of the events of each socket, which is again what a round
does, and of the end of a TCP handshake, which the kernel's timeout guarantees.
Nothing is assumed of the program: `ConnectNoticed` speaks of a `loop()` without a
count that is running on the object's map.

`conn`: weak fairness of the handler's steps once it has been entered, and of
being called for writing while the queue is not empty. The second is what
`loop_live` shows of the loop. Nothing is assumed of `Recv`, `PeerClosed` or
`PeerReset`.

## Proofs

Everything here is checked by TLAPS for all values of the constants that satisfy
the named assumptions of the modules: `PlatformAssumption`, `HVAssumption`,
`StreamAssumption`, `LoopAssumption`, `CachePartAssumption`, `NoFileAssumption`
(the value of a file that does not exist is neither a time nor a content),
`DescriptorsAssumption` (a header is one element of the stream; a process meets
finitely many peers),
`BaseSocketAssumption` and `OneRequest` (the test client sends one file). Every
safety invariant that a passing run checks is a theorem, and so are both
refinements.

**SelectLoopProofs** (any finite set of descriptors, any set of peers, any
faults, both platforms): `TypeCorrect`, `OwnSocket`, `NoLeak`, `NoStale`,
`ListenerKept`, `NothingDropped`, `LoopIsReactor`, `NothingLost`.

* None of the first five invariants is inductive alone. `IInv` conjoins them
  with `RoundInv` (a socket still to be visited was polled with a handler; the one
  visited is not among them; there is no round outside `do_select()`; `select()`
  has not reported an exception on the listener; a thread that waits in `send()` has
  its handler in the map), `StartInv` and `Owed`. The argument for
  `NoStale`: a descriptor still to be visited can lose its handler only through its
  own visit, so it stays open, so the kernel cannot hand it out, so its handler is
  the one polled. It is the reason why `do_select()`, which keeps descriptors
  across callbacks, is right as long as callbacks close nothing but their own
  socket. For `ListenerKept`: only `Expt` could close the listener, and the
  listener never has an exception.
* `NothingDropped`: `CountInv` says at every program counter of the round that the
  events of the descriptors still to be visited, and those of the present one whose
  block has not been reached, number at most what is left of `select()`'s count. A
  count that reaches zero early would leave events behind; it cannot.
* `LoopIsReactor`: `RInv` adds to `IInv` that a peer is queued or has a socket, and
  that once (`OneConnection`), and that what `select()` saw is still true when it
  is delivered (`ReadyInv`): nobody but the socket's own handler reads its bytes,
  and a peer that has gone does not come back. `StepRefines` then maps every
  action to one of `Reactor` or to a stutter.
* `NothingLost` is an action property. `Owed` says that what a peer has sent and
  `recv()` has not returned, the answers queued for it and those it has not read
  number at most the pieces it has read no answer to. A `send()` without room for
  every queued answer therefore means more of these than the kernel holds.

**VirusHandlerProofs** (any number and lengths of requests, any sizes):
`TypeCorrect`, `BoundsKept`, `FramingKept`. `TInv` (types, bounds, a non-empty
queue inside `handle_write()`) is inductive and needs the lemmas on what `write`
returns, which are in **HVProofs** (`WriteHeadType`, `WriteValueType`,
`WriteType`) and shared with `DescriptorsProofs`. `FInv` adds that no
`recv()` ended inside a header and that the loop is entered with bytes left; the
central lemma is `WriteInMessage`: one call of `write()` in an undisturbed stream
stays within the next message, and completes it only at its end.

**ChannelProofs**: `Answers`, `NotEarlyYet`, `NotEarly`, `HandlerIsChannel`.
`OInv` says, where no cache fails, that the stream is past every request that has been answered and that the responses, sent and queued, are those of
the first `served` requests in order. `EInv` says less where caches may fail: each
response is `OK` for a request that was served (one that found no memory for its
own value is skipped, so that positions no longer count). `Answers` needs no
hypothesis. `NotEarlyYet` is `NoEarlyAnswer` in every state that is `Intact`: no
request was given up, no header is cut by `recv()`, and the requests served were at
least `MemoryCache` long, the last of the stream excepted. `NotEarly` and
`HandlerIsChannel` are proved under `Proper`, which keeps a connection intact: no
header is cut, `create_cache()` does not fail, and every request but the last is at
least `MemoryCache` long. The runs `conn_split` and `conn_small` show what the code
does without the first and the third of these.

**FerryProofs**: `AnswerIsOwn`, from `"split" \notin Faults` alone: the length of the
file and its cut behind the header are free, caches may fail, and either process may
be killed at any step. The invariants of the handler hold in the composition because
each joint step is a step of the handler or, when the server is killed, changes
nothing of it but `pc`; `ClientInv` says that the client is past its first `recv()`
only when something is on the wire.

**CachePartProofs** (any number of caches and capacities): `TypeCorrect`, `Fifo`,
`FilesKept`. `IInv` adds `SizeInv` (no capacity beyond what `create_cache()` was
asked for), `BufferInv` (a buffer holds below `widx` what was pushed, in its place,
and only a buffer is ever popped from) and `PathInv` (only a cache created with a
file has a name, and an object that `delete_cache()` emptied has one that was
removed: `leave_cache()` would otherwise make it look as if it had kept its file).

**DescriptorsProofs** (any finite set of peers, any table, any cut of the values):
`TypeCorrect`, `FilesAccounted`, `TableFull`. `DInv` conjoins `TypeOK`, `BoundInv`,
`TurnInv`, `CleanInv` and `Accounts`. The question is why `close()`, which drops a
decoder with its open cache, loses a FILE only on a disturbed peer. `CleanInv`
answers it with `Framed`: the bytes of an undisturbed peer that have not been
decoded are the rest of one value followed by whole requests of at least
`MemoryCache`, short at the end by what the peer still owes. `Framed` names the set
of header positions, so that it needs no recursion over the stream; the lemmas
`FramedDrop`, `FramedHeader`, `FramedRequest` and `FramedValue` say how decoding and
sending change it, and `CleanWrite` that one call of `write()` keeps it. A peer
that has gone and has been read to the end owes nothing, so its decoder is between
two requests and holds no cache. The lemmas on cardinalities say that every count
changes by the one peer that the step is about, and that each connection made has at
most one of a place in the queue, a handler, or a leaked socket.

**BaseSocketProofs** (any number of objects, servers and descriptors): `TypeCorrect`,
`Owned`, `Orphans`, `SuccessTrue`. `IInv` adds `ObjectInv` (the converse of
`OwnedOnce`: a live object with a socket is in the map it was made for), `ServerInv`,
`SocketInv` (the maker of an open socket still has it, or is gone in one of the three
known ways) and `ErrnoInv` (no `EISCONN` outlives the `connect()` that met it, so
the stale `errno` that `connect()` reads is never taken for a connection).

**Only model-checked:** the liveness properties (`ReadTerminates`,
`EveryRequestAnswered`, `EveryConnectionAccepted`, `EveryPeerServed`,
`EveryResponseSent`, `ClientEnds`, `HandlerCloses`, `EndNoticed`,
`ConnectNoticed`), because the prover has neither fairness nor `ENABLED`; and what
the three runs that expect a violation show.

## Not modelled

* `cp_send_all` and `cp_clear_recv_buffer` (no caller), `cp_inet_ntop` and the
  string conversions (they serve logging), UDP sockets (nothing in the code
  treats them differently), logging.
* The contents of documents and the virus check, a TODO of the code.
* Memory: only descriptors are counted.
* `server/test_server.cpp`, a sequential accept/recv/send loop with no state, and
  `socket_exception`, a copy of `cp_socket.cpp` with a trial `main()`; the
  language trials. Of the test client, `loop_send_recv()`, which is not called.
* `main.cpp` after `loop()` has returned but for the destructor of `TCPServer`,
  and its lines 25-199, which are disabled.

## Plan

1. The safety half of the liveness properties as action properties: a round of
   `do_select()` only shrinks what is left of it, and each call of `write()` in
   `handle_read()` moves the stream on, ends the loop or stands before a full disk.
2. The step simulation of `RequestChannel` for streams that are only `Intact` up to
   some point, instead of for connections that are `Proper` throughout.
