# TLA+ models of hbc-commons-c

Models of the stateful parts of hbc-commons-c, a C++ library of small utilities, checked
with TLC and, for the invariants that matter most, proved with TLAPS. Paths below are
relative to the library's source directory, so `thread/thread_queue.cpp` is the repository's
`src/thread/thread_queue.cpp`.

## The system

| component | state | operations | who else touches the state |
|---|---|---|---|
| `thread_queue` | a queue of runnables, an array of thread slots, one mutex | `push`, `pop`, `join`, destructor | one worker thread per slot: `run`, `detach` |
| `circular_buffer` | `m_buffer`, `m_start`, `m_size` | `write`, `read`, `peek`, `find`, `erase` | nobody; callers serialise |
| `curl_input_stream` | a deque of bytes, `stream_state`, two condition variables | `read`, destructor | a thread that runs `curl_easy_perform`, and libcurl's callback `buffer_input` in it |
| `socket` | a descriptor, a read buffer, an acknowledge callback | `write`, `read`, `disconnect` | any thread that holds the socket |
| `socket_server` and its pairs | a listening descriptor; a socket and a thread per pair | `start`, `accept_socket`, `start_pairing` | one thread per pair |
| `chunker` on `curler` | a chunk file, its number and size; a libcurl handle | `download`, `chunk_write`, `create_new_chunk` | libcurl's callback, same thread |
| `json_pull` and `json_enumeration` | a state and a stack of states, a lookahead buffer, the last string | `next` and what is built on it, `seek_in_object`, `has_more_elements` | nobody |
| `file_input_stream` | a `FILE`, a state, a mutex | `read`, destructor | several threads may read |
| helpers | none | `memtrim`, `trim_inplace`, `split`, base64, byte packing, `num_digits`, `milisleep` | |
| digests: `md5`, `CSHA1`, `CHMAC_SHA1` | a buffer of one block, a bit counter in two words, the digest so far | init, update, final | nobody |
| tinyxml: the tree | five links, kind and value per node | insert, replace, remove, clear, copy, navigate | the parser and the printers |
| tinyxml: attributes, strings | a ring of attributes with a sentinel; a buffer with size and capacity | set, remove, iterate; assign, append, reserve | elements, the parser |
| tinyxml: parser and printers | a place in the document; the nodes being parsed are on the call stack | `Parse`, `LoadFile`, `Accept`, `Print` | nobody |

Interactions: `curl_input_stream` and `file_input_stream` are the `input_stream`s that
`json_pull` reads one byte at a time; `chunker` is a `curler` whose libcurl callback writes
files; `socket_server` creates `socket_pair`s, which inherit `socket`'s framing, as
`socket_client` does; `socket` takes `num_digits` from the helpers; `CHMAC_SHA1` is a
`CSHA1`; tinyxml's parser builds its tree with the calls a client edits it with.
`thread_queue` and `circular_buffer` are used by clients only.

What is hard, and what makes each component correct:

- **thread_queue**: several workers and a client meet at one mutex, but decide on what they
  read under an earlier lock. Correct means: order of submission, no runnable lost, run
  twice or deleted twice, and that `join` means something.
- **circular_buffer**: ten branches of index arithmetic in `erase`, each of which a
  different history reaches. Correct means: it behaves as a plain sequence.
- **curl_input_stream**: two threads signal each other, and test outside the mutex what they
  wait for. Correct means: the end is reported once it is true and never before, neither
  waits for what will not come, reads return.
- **socket**: framing over a byte stream that splits and joins at will, partial reads, two
  threads writing. Correct means: what arrives is what was written.
- **socket_server**: descriptors are numbers the kernel gives out again at once; pairs are
  closed and deleted by several threads without a lock. Correct means: nobody reads or
  closes another client's connection, and a client that hangs up leaves nothing behind.
- **chunker**: a file boundary inside a block. Correct means: the chunks, one after the
  other, are the download. They are so only until a block first overflows.
- **json_pull**: the stack of states and the look-ahead must stay in step with the document,
  whatever a client skips. Correct means: the events are the document's, and no byte is read
  that is not needed.
- **file_input_stream**: the end is announced once and must be final, and a handle is opened
  late and closed early.
- **tinyxml**: every editing call sets up to eight links by hand; the parser returns errors
  as null pointers through all open elements. Correct means: the links are a forest with the
  right order, no node is lost, what is malformed is reported, and what is printed is what
  was read.
- **digests**: boundaries at a full block and the carry of the counter. Correct means: the
  blocks digested depend on the message only, not on how it was cut.

`PROJECT.json` lists every hazard at its line with the properties that watch it.

## Modules

| module | what it is |
|---|---|
| `TaskPool` | abstract: what a `thread_queue` promises its client |
| `ThreadQueue` | `thread_queue` with its workers and an owner; refines `TaskPool` |
| `ThreadQueueProofs` | theorems about `ThreadQueue` |
| `ByteWindow` | abstract: a sequence of at most Capacity bytes |
| `CircularBuffer` | `circular_buffer`; refines `ByteWindow` |
| `CircularBufferProofs` | theorems about `CircularBuffer` |
| `CurlInputStream` | `curl_input_stream`: reader, fetcher, lost signals |
| `CurlInputStreamProofs` | theorems about `CurlInputStream` |
| `SocketBurst` | `socket`'s framing: a writer, a connection, a reader |
| `SocketServer` | `socket_server`, `socket_pair`, `socket::disconnect` and the process's descriptors |
| `SocketProofs` | theorems about `SocketBurst` and `SocketServer` |
| `JsonPull` | `json_pull`, `json_enumeration`, a client, and a reference parser |
| `JsonPullProofs` | theorems about `JsonPull` |
| `FileInputStream` | `file_input_stream` |
| `Chunker` | `chunker` with `curler::download` |
| `Digest` | padding, buffering and counting of md5, SHA1 and HMAC |
| `Helpers` | the pure functions: strings, base64, integers |
| `Forest` | abstract: a DOM, each node with its sequence of children |
| `XmlTree` | `TiXmlNode`: links, editing, copying, navigation; refines `Forest` |
| `XmlTreeProofs` | theorems about `XmlTree`: types, links, navigation, and the refinement of `Forest` |
| `XmlAttributes` | `TiXmlAttributeSet` |
| `XmlString` | `TiXmlString` |
| `UtilitiesProofs` | theorems about `FileInputStream`, `Chunker`, `XmlString`, `XmlAttributes`, `Digest`, `Helpers` and UTF-8 in `XmlText` |
| `XmlText` | entities, UTF-8, line ends, row and column |
| `XmlParse`, which extends `XmlTree` | the `Parse` methods |
| `XmlParseProofs` | theorems about `XmlParse` |
| `XmlPrint`, which extends `XmlParse` | `TiXmlPrinter` and `Print` |
| `MCThreadQueue`, `MCCircularBuffer`, `MCCurlInputStream`, `MCSocketBurst`, `MCXmlParse` | values of the constants for TLC |
| `MCSockets`, `MCParsers`, `MCUtilities` | the same for several modules at once, of which one moves in a behaviour |

Operators named in a comment as a *mutant* are wrong variants of the operator that follows,
never used by the specification; with one in place of the original, TLC finds the property
named for it in `PROJECT.json` violated.

### ThreadQueue

A critical section of `mutex` is one step; what the code does between two critical sections
is a step of its own, so a worker that popped nothing (`Pop`) and a worker that gives its
slot back (`Leave`) are two steps, as in `run`. `slot` is the array `threads`: besides 0 and
the three places a worker can be in, a cell can be *wild* (the array comes from `malloc`,
and nothing clears it) or a *dud* (`pthread_create` failed and `push` does not look at the
result). `SlotFaults` says which of these a run allows. The owner is one client thread: it
pushes, pops, joins and destroys. A runnable in `Spawners` pushes from its `run()`. `join`
copies the slot's pointer under the lock and dereferences it later: in `JoinValid` it still
is the worker's, in `JoinStale` and `JoinRecycled` the cell was deleted in between and holds
an old id or another worker's, in `JoinCrash` the id is none. The destructor's `detach_all`
calls `detach` with the mutex held, so with a slot that is not 0 it stops for ever
(`DestroyStuck`); nobody can lock the mutex from there on. A runnable is pushed once;
pushing it again while it is queued would be the client's error. `pushed`, `popped` and
`outcome` are history, and never enable or disable anything but a second push of the same
runnable.

- `FifoOrder`: order.
- `RunnableHasOneHome`: a runnable is in one place at most (`AtMostOneHome`: once in the queue,
  in the hands of one worker, or ended), and exactly what was pushed is in one
  (`NoneAstray`): nothing is popped and forgotten.
- `JoinQuiesces`: when `join` returns and nobody pushed since it began, no worker is left.
- `WorkerDrains`: as long as some worker has not seen the queue empty, what is queued is
  taken.
- `JoinReturns`: `join` ends, unless a slot holds what is no thread or the process died.
- `ImplementsTaskPool`: the refinement, with `pending <- queue` and `busy <- holding`.
- `JoinDrains`, `JoinSeesNewThreads`: what the test and the comment in `join` expect, and
  the code does not do.

### CircularBuffer

Each action is a call. `erase` has one action per branch, with the branch's condition and
those of the branches before it as its guard, and `memmove` on a memory of `Capacity` cells.
Nothing is ever cleared, so cells outside the contents keep their old bytes, and the initial
memory is arbitrary. Three kinds of calls with an offset up to `m_size` are mishandled by
`erase` (see `Mishandled`); with `Careful` clients avoid them and the refinement of
`ByteWindow` is checked, without it `EraseRemovesRange` shows what goes wrong. Offsets above
`m_size` are a fourth kind that no client of the model uses (`Offsets`): the code does not
look for them, computes a negative length in `peek`, and may let `m_size` grow in `erase`. `peek` and `find` are operators, compared with
reference definitions on the contents in every reachable state. `find` never reports a match
at the very end of the contents; `FindIsFirst` states precisely that.

### CurlInputStream

The client's thread and the fetcher, one step per test, wait, and access to the deque. The
mutex protects only signal-and-wait, which is one step here because nobody holds it between
steps. A test and the wait it leads to are two steps, and a signal in between is lost. Waits
may end without a signal (`SpuriousRead`, `SpuriousWrite`). `read` ignores the result of
`pthread_create`; with `CreateFails` the thread may never come into being (`unborn`), and since
the state is OPEN by then, no later read tries again. The deque is used by both
threads without a lock; `DequeRace` marks overlapping accesses as `corrupt`, and the model
ends there: what a broken deque does is not modelled. `Destroy` is a client that was told
-1; the fetcher may then still have its last signal to give, through a mutex that is gone.
Bytes are counted, not named.

- `EndIsReal`, `EndIsFinal`: -1 means the end, and stays.
- `NoMutualWait`, `FetcherResumes`: the two sides never wait for each other, and a full
  buffer is no dead end.
- `ReadReturns`: a read returns, or waits for a signal that nobody is left to give. There are
  two such situations, both in the code: the fetcher has given its last signal, or it was
  never started.
- `StreamEnds`: what the documentation and the test's loop expect: the client is told -1. It
  fails.

### SocketBurst

`hbc::write` at one end of a connection and `socket::read` at the other. Each call of
`::write` is a step (`WriteHead`, `WriteBody`: a burst is two calls), and so is each
`::read` that does not complete a packet (`ReadSome`); the one that does is one step with
what `read` then does with the packet, because nothing in between waits or is seen by
anybody (`OneBurst`, `Announce`, `Chunk`, `LastChunk`). `stream` holds what was written and
not yet handled, the first `got` bytes of it in `read_buffer`. A byte is named by its
payload, burst and place, and `Value` is what the reader finds in it, so that a reader out
of frame really takes payload for headers. `Disconnect` lets what was written arrive,
`Reset` loses it. `ShortWrites` lets `::write` take fewer bytes than it is given, which the
code does not notice.

Left out: a payload of no bytes (sends nothing, as in the code's loop); how many digits a
length has: they take one byte here, and what follows them in the burst is 0. In the code
`sprintf` writes the terminating 0 one place behind the digits' buffer and the burst goes on
beyond it; the model takes the case in which that 0 is still there when `::write` reads it.
There is one writing thread and one reading thread, and the writer disconnects between
payloads only.

- `DeliveredIsSent`: acknak gets what `write` was given, in order and complete, wherever the
  connection broke off. Fails with short writes.
- `AssemblyFits`: the chunks never come to more than the announced length, which `read`
  compares only after it copied them all.
- `Arrives`: what was written arrives, unless a side ended the conversation or the
  connection was lost.

### SocketServer

`accept_socket`'s loop, a thread per pair (`socket_pair`'s `run`), the clients, and any
other threads of the program that disconnect or adopt a pair. `table` is the kernel's: the
lowest descriptor that is free is the one given out. `disconnect` is three steps for a
thread, test, `close` and `fd = 0`, since no lock joins them; a thread that is between them
is `inside`. What is not initialised (`adopted`, `create_pair`) has any value, and a pair
whose `pthread_create` failed is an `orphan` that nobody reads or deletes. Running out of
descriptors, and a `create_pair` that returns null, end the accept loop with an exception.
Descriptor 0, which stands for "none" in the code, is given out when the process was started
without a standard input, and never closed.

- `DescriptorsOwned`: between `accept` and `close` a pair's descriptor is its own
  connection's, and a connection does not outlive its pair without an owner. It is claimed
  until two threads meet in one pair's `disconnect`: from then on the second `close` may hit
  the next client's descriptor, which is a hazard of the code and the reason for `clash`.
- `HangUpReleases`: a client that hangs up has its descriptor released.

### JsonPull

`pull` has the parser's fields; `next` and its `*_state` functions are operators from parser
to parser, so that `seek_level` and the enumerations can repeat them within one call. The
client pulls events, or enumerates objects and arrays through nested `json_enumeration`s,
and goes back to an outer one whenever it likes. `Reference` is a one-pass parser of the
document with the events it should give. Reading the byte after the end and popping the
empty look-ahead are undefined in C++: the model stops there (`wild`), and the properties
say when that may happen: a document that is cut short, a number or literal (`return_value`
pops an empty deque), a string in an array (the same), three backslashes in a row.
`D_END_DOCUMENT` is declared but never returned.

- `EventsExact`: the events are the document's, whatever is skipped.
- `KeysExact`: every open enumeration has given the keys that its object has among the events
  read, in order, each once and none of an object inside; when it is over there are no more.
- `ReadsNoFurther`: the look-ahead is one byte at most, and nothing is read after the root's
  end.

The comments on `object_elements` and `array_elements` ask for a call right after the
opening event was read. They read that event themselves, and throw if it was taken before;
the model's client goes by the code.

### FileInputStream, Chunker, Digest, Helpers

`FileInputStream`: a `read` holds the mutex throughout and is one step; the constructor does
not set `file`, which the destructor tests, so it starts as `junk`. The end is announced by
0, when a read gets no byte, and by -1 from then on (the comment on `read` promises -1 at the
end of the file, and does not speak of the 0 before it). `FileExact` states this and when the
handle is open, but for the `junk` that a stream destroyed before its first read closes.

`Chunker`: `Download` to `Cleanup` around calls of `chunk_write`, one action per case of its
arithmetic. After an overflow the rest of the block is written to the `FILE` that was just
closed, starting with the block's first byte again: it is lost or, when `fopen` has reused
the structure, in the wrong file. A block above `chunk_size` makes the new chunk too large
and the count of the next write negative (`WriteWild`, where the model ends). `ChunksExact`
is what remains true: the counts always, the first chunk's bytes, and the limit as long as
blocks are no larger than chunks.

`Digest`: bytes are symbols and the block functions are not interpreted, so a digest *is*
the sequence of its padded blocks; `DigestExact` compares it with the standards' padding of
the whole message, for every way of cutting it. Words have one byte and blocks sixteen, so
that the bit counter carries within short messages. `HmacFits` is the client's: HMAC copies
its text into a buffer of 4096 bytes without looking at its length.

`Helpers`: functions on sequences. `HelpersExact` compares them with reference definitions.
Left out are three that nothing can be compared with: `memtrim`, which drops the last
character of its text; `decoded_length`, which multiplies by 3/4 in integers and is always 0;
and `num_digits`, which is a logarithm.

### Forest, XmlTree, XmlAttributes, XmlString, XmlText

`XmlTree` keeps the five links of `TiXmlNode` and its kind, value and error as functions on
addresses, and each call (`LinkEndChild`, `InsertEndChild`, `InsertBeforeChild`,
`InsertAfterChild`, `ReplaceChild`, `RemoveChild`, `Clear`, `Clone`, assignment, deletion)
is an operator that sets them one by one as the code does. Left to the client, as the code
leaves it: linking a node that is linked already, or below itself, corrupts the tree and is
not done. Nor is `LinkEndChild` given a document, which it would delete: its assertion allows
only the document that the parent itself is in, and deleting that one deletes the parent. The
calls that insert a copy of a document set an error and are modelled (`InsertDocument`). Assigning an element to itself clears its children and copies none; `AssignNode`
models that too.

- `LinksConsistent`: both directions, first and last, and parents agree, and nothing points
  at a deleted node.
- `NavigationExact`: the walks over the children agree in both directions (`WalksAgree`), and
  the searches by name and kind and the handles find the child they are asked for
  (`SearchesExact`).
- `ImplementsForest`: with `kids` as the refinement mapping, each call does to the forest
  what its name says and nothing else.

`XmlAttributes` is the ring with its sentinel; as in the code an attribute without name and
value is taken for the sentinel by `Next`. `AttributesListed` says what an iteration gives
in spite of that. `FindOrCreate` adds an attribute before it names it, so that the assertion
in `Add` fails when there is one with the empty name (`aborted`, where the model ends).
`XmlString` models buffers by size and capacity; `append` of a part of the string itself
reads the buffer it has freed, and `StringExact` excepts exactly that. `XmlText` has what
happens to characters: `EncodeString` and entities (a lone `&` is dropped, and "&#x" is
passed through unescaped up to a semicolon or the end), line ends, UTF-8 lengths, and
`Stamp`'s row and column; `TextSurvives` (in `MCUtilities`) says what a text keeps on its
way out and in. Its parts:

- `Escaped`: what `EncodeString` writes `ReadText` reads back, for texts without "&#x". One
  with "&#x" is not escaped up to the next semicolon, markup in it included, and does not
  come back; that is the code's, and excepted. Characters are whole here: at one that the end
  of the document cuts off, `GetChar` steps past the end, which is not modelled.
- `Normalized`, `Framed`, `Referenced`: line ends, the bytes of a code point, and the number
  that a reference writes. The code's `mult` has 32 bits and wraps behind eight hexadecimal
  or ten decimal digits; references are shorter here.
- `Located` is about `Stamp`, which alone goes over bytes, in UTF-8 or not. Of a text of whole
  characters, and of any bytes when they are not read as UTF-8, it counts rows and columns
  right. Characters that are cut off, at the end or by what follows them, have two effects.
  `Stamp` may step past the place it was to stop at, by three bytes at most, and the
  position it reports is then not promised. And in UTF-8 a byte 0xEF with fewer than two
  bytes behind it does not move the pointer, so that the loop never ends (`Endless`).
  `Located` says that this happens when such a byte follows whole characters, and for no
  text but those with 0xEF in the last two places. The test for 1874301 ("If it doesn't go
  into an infinite loop, all is well") ends in such a byte and passes, because nothing
  behind that byte is stamped in it; an error reported for a byte behind it is. `XmlParse`
  goes over tokens and has no positions, so nothing it shows is about that loop.

### XmlParse, XmlPrint

The `Parse` methods call each other; `stack` is the nodes whose `Parse` runs, and `phase`
what the innermost does. A node is linked when its `Parse` has returned, also when it
returned null (`Unwind`). A document is a sequence of tokens that is chosen while the parser
looks at it, so that documents are distinguished only as far as they are read. `Canonical`
is a one-pass reference: it says which documents are refused and what they consist of. Where
the code accepts what XML does not (text after the root, two roots, an unterminated comment
or unknown, an end tag at the top level) the reference does too. `XmlPrint` has `Accept`
with a `TiXmlPrinter`, and `Print`.

- `ErrorsReported`, `NoNodeLost`, `RoundTrip`: as the names say, in all documents.
- `OneNodePerToken`: the parser makes at most one node of a token, unless the document ends
  in a text inside an element.
- `ReadValueAdvances`: the same without the exception, as the comment on `ReadValue` has it.
  It fails: on `<a>text` `TiXmlText::Parse` returns the place of the last character,
  `ReadValue` finds a text there, and the parser makes nodes until memory is used up.

## Runs

| run | instance | result |
|---|---|---|
| `thread_queue` | 2 slots, 3 runnables, one of them a spawner, wild and dud slots | passes, 37,025 states |
| `thread_queue_join_drains` | 2 slots, 3 runnables, no faults, no nested pushes | `JoinDrains` is violated |
| `thread_queue_nested_push` | 2 slots, 3 runnables, one spawner, no faults | `JoinSeesNewThreads` is violated |
| `circular_buffer` | 7 cells, two byte values, writes of 1, 2, 7 and 9 bytes, careful clients | passes, 6,400 states |
| `circular_buffer_erase` | 5 cells, every call with an offset up to `m_size` | `EraseRemovesRange` is violated |
| `curl_input_stream` | buffer of 2, transfers of up to 5 bytes, reads of 1 and 3; `pthread_create` may fail | passes, 9,039 states |
| `curl_input_stream_ends` | buffer of 2, up to 3 bytes; `pthread_create` succeeds | `StreamEnds` is violated |
| `socket_burst` | PAYLOAD_MAX 2, two payloads of 1 to 5 bytes; or a server, 2 clients, descriptors 0 to 2 | passes, 38,243 states |
| `socket_burst_short_write` | the same payloads, with short writes, no server | `DeliveredIsSent` is violated |
| `parsers` | XML: 6 nodes, documents of up to 8 tokens from 6 vocabularies; or JSON: documents of up to two members or elements with values of depth 2, malformed ones, and all beginnings of one | passes, 1,990,918 states |
| `xml_parse_text` | XML, up to 5 tokens | `ReadValueAdvances` is violated |
| `utilities` | one of: a tree of 5 nodes, which are symmetric; 3 attributes; a string of up to 4 characters; conversions of texts of up to 4 characters, and positions in texts of up to 3 that are whole or cut off; a file of 3 bytes; chunks of 3, blocks of 1, 2, 3 and 5, transfers of 9; messages of up to 56 bytes in blocks of 16; samples of the helpers | passes, 21,770 states |

`socket_burst`, `parsers` and `utilities` put several components into one run each. They do
not use each other: which one moves is chosen in the initial state, the others stay in
theirs, and each property speaks of one of them.

Each property of a passing run has a mutant: a definition changed as a bug in the code might
change it, under which TLC finds the property violated (`PROJECT.json`, "mutants").

Why the bounds are enough. Two slots are the least with which `join` can pass one slot and
wait for another; three runnables let one run, one wait in the queue and one be pushed in
between. Seven cells are the least with which all branches of `erase` for the middle of
wrapped contents are taken, the two that move in two pieces included. A buffer of two bytes
and a transfer of five let the buffer fill, empty and fill again; a read of three is longer
than the buffer, one of one leaves bytes behind. With bursts of two bytes, payloads of one
to five bytes are in one burst that is full or not, or in up to three of which the last is
full or not; a second payload shows that the first left the reader in frame, and its bytes
include 0, 1 and 2, which are plausible headers. Two clients and three descriptors, of which
the server has one and standard input may have another, let a descriptor be given out again,
be 0, and be used up. Five nodes are a parent and three siblings with one to spare, or a
node and its copy with two levels each: every insertion at the front, in the middle and at
the end, and the removal of each. Eight tokens, of which the end is one, are an element with
an attribute and an empty child, or one with such a child and something that follows; what
is nested deeper is met in documents that end early. A JSON document is at most an object or
array of two with another in one of them, so that an enumeration can be left at each depth.
A transfer of nine bytes fills three chunks; a block of five is larger than one. Messages of
up to 56 bytes are more than three blocks and, with counters of one byte, carry once; keys
are shorter and longer than a block.

Bounds that are not the code's: `Runnables` (each pushed once), `Writes` (which sequences
clients write), `MaxBytes` (the length of a transfer), `Payloads` and `MaxMessages` (what
and how often `write` is called), `Conn` (each client connects once or until it is
accepted), `Docs`, `Lexicons` and `MaxDoc` (documents), `Node`, `Slot`, `Piece`, `Caps`,
`MaxText`, `Block`, `MaxChunks`, `Lengths`, `Pieces`, `MaxMessage`.

Fairness. `ThreadQueue`: weak fairness of each worker and of the steps of `join` once it was
called (threads are scheduled, mutexes are handed on, runnables return); none on which calls
the owner makes. `CurlInputStream`: weak fairness of both threads, transfers end (libcurl's
are bounded by its timeouts), and a client that goes on reading until it is told -1, as the
test's loop does. Spurious wakeups get no fairness. `SocketBurst`: weak fairness of the
writer inside a call and of the reader (threads are scheduled, acknak returns); none on when
the client writes or disconnects, or on the connection being lost. `SocketServer`: weak
fairness of the steps a pair's thread takes once its connection is over, and of whoever is
inside `disconnect` (threads are scheduled); none on clients, on the accept loop, or on
anybody calling `disconnect`.

Deadlock is checked where the system never stops by itself. `CHECK_DEADLOCK FALSE` stands in
the runs in which it really may: clients that stop calling, a transfer, document or stream
that is over, a server whose loop has ended, and the pure functions, which take no step.

## Proofs

All theorems hold for every value of the constants allowed by their `ASSUME`s (at least one
slot, one cell, one byte of buffer or burst, finitely many addresses of nodes and of
attributes, a sentinel and a null that are none of the things they are told from, words of
whole blocks of bits, documents that are finite sequences of characters, or of tokens; names
among which are those of the tags and the kinds of leaves; and types).

- `ThreadQueueProofs`: `TypeCorrect`; `Fifo`, which is inductive with the types; `OneHome`
  has two halves: that no runnable is in two places needs `HomeInv`, which adds that a worker
  holds a runnable exactly while it runs it; that none is lost (`AstrayStep`) follows from
  that and from what a pop leaves of the queue (`DequeuedOnly`);
  `Quiescence` needs `QuiescenceInv`, which says that while nobody pushed since `join`
  began, every slot the scan has passed is 0: without pushes slots only ever become 0.
  `Implementation` shows step by step that each action is a step of `TaskPool` or leaves its
  variables alone, from `HomeInv`.
- `CircularBufferProofs`: `StaysInBounds`, for careful clients: start and size stay in range
  and no `memmove` leaves the array. The lemmas on the branches of `erase` use what is left
  when the calls in `Mishandled` are excluded.
- `CurlInputStreamProofs`: `TypeCorrect`, with `CountInv`, which says that whoever is inside
  a loop has bytes to go; `NeverBothWait`, which is inductive: whoever starts to wait wakes
  the other first; `EndIsTrue` and `EndStays`, from `EndInv`, which says that the state is
  EOS only when the fetcher pushes no more.
- `SocketProofs`, on bursts, all for a `::write` that is never short: `FramingHolds` is the
  inductive invariant, and `TypeCorrect`, `Delivery` and `Assembly` follow from it. It has
  three parts. `Bursts`: the stream is whole bursts, each followed by the one that comes
  after it, cut off anywhere at the end. `WriterInv`: the writer goes on where the stream
  ends, or, when it is empty, where the reader is. `ReaderInv`: the first byte of the stream
  begins the burst the reader expects, and what was read of a payload is a prefix of it.
  `DeliveredIsSent` alone is not inductive: it says nothing of what is on its way. Without
  the restriction it is false, as the violated run shows.
- `CircularBufferProofs`, beyond `StaysInBounds`: the place of the i-th byte of the contents
  is (m_start + i) % Capacity, and lemmas on `%` (a sum shifted by a multiple, two places
  that are apart) carry everything else. `PeekReadsContents` and `FindReportsFirst` follow
  for every state in bounds. `Implementation` has one lemma per branch of `erase`: from the
  bytes the branch's `memmove`s leave where, the contents afterwards are the old ones with
  the range taken out (`GoneRemoves`); and two for `write`: what it leaves where, and what
  that makes of the contents. The least match of `find` exists because `<` on the naturals
  is well-founded. Careful clients are assumed (`Careful`), as they must be: without it the
  property is false.
- `SocketProofs`, on the server: `DescriptorsStayOwned`, from four parts. `TypeInv`; `ThreadInv`: who
  may be inside a pair's `disconnect` in which part of its life; `TableInv`: a connection
  has no descriptor but its pair's, and none once it was closed; `OwnInv`: until two threads
  meet, a pair's descriptor is its connection's from `accept` to `close`. `DescriptorsOwned`
  speaks only of readers and is not inductive without the threads about to close.
- `UtilitiesProofs`: `ChunksAreExact`, with `ChunkInv`: types, and that the file's number has
  grown exactly if a block has overflowed. `FileIsExact`, with `FileInv`: the end is
  remembered exactly as long as it was announced, and `file` is assigned once the stream has
  left its first state. `StringIsExact`; inductive with the types. `AttributesAreListed`
  needs more: `AttributesListed` speaks of walks, and says nothing of where `next` and
  `prev` lead to. `AttrIInv` says that there is a sequence of all attributes allocated that
  both links of every one of them and of the sentinel agree with (`Linked`), and of names
  and values what `given` remembers (`GivenKept`). `Add` appends to the sequence, `Remove`
  drops a member wherever it stands, the rest leave it; `RoundIs` shows that the walk is it.
  `DigestIsExact` holds for all sizes of blocks and words, so for those of the code as well.
  `BlocksExact` is not inductive: it says nothing of the counters, from which `Update` reads
  where in the buffer to go on. `DigestInv` adds that they are the message's length in bits
  (`Counts`, for both words and the carry between them). `OffsetIs` shows that the low word
  tells the place in the block even when it has overflowed, because words are whole blocks;
  `UpdateHolds`, that any piece leaves the message so far in blocks and buffer; `FinalIs`,
  that the zeros put in are the fewest that fit, one by one or in one piece. Of HMAC it is
  shown for any key and text that both digests are the standard's.
- `UtilitiesProofs`, on the pure functions, which have no steps: what `HelpersExact` and
  `TextSurvives` compare on samples holds of every argument. `TrimIsExact`: of every text of
  characters that are not the terminating zero, `trim` leaves what is from the first
  character that is not white space to the last, or nothing; `TextIs` shows where the zeros
  written while trimming and moving down end the string. `Base64IsExact`: for every sequence
  of bytes the encoding has the length foretold and decodes to it; `BlockIsExact` is one
  block, whole or short, and `FlattenPieces` (shared with `Digest`) puts blocks of one size
  together. `IntsAreExact`: of every int of 32 bits, negative ones too. `CodePointsAreFramed`:
  for every code point, the byte that `ConvertUTF32ToUTF8` writes in front is one of which
  the parser's table gives the number of bytes written.
- `XmlTreeProofs`: `TreeTypeOK` and `TreeLinksConsistent` follow from `TreeSound`, the
  inductive invariant. `Sound` adds to the types and `LinksConsistent` what that does not
  say: a node has a first child exactly if it has a last, and along `parent` and along `prev`
  there is no cycle (`Grounded`: one gets out of every set of nodes). Without the first, the
  second child would not be linked behind the first; without the other, a ring of siblings or
  a node below itself would be consistent, and `Under` would not be what hangs from a node.
  The calls that only set links are lemmas on any sound tree and any node that may be linked
  there (`MayLink`), and copying is one on any map that may be copied along (`MayCopy`), so
  that a call that copies, links and deletes is the three in a row. What comes between,
  a tree from which something was cut off but not yet deleted, is `Severed`.
- `XmlTreeProofs`, on what the links mean: in a sound tree the children of each node are a list that all links
  agree with (`ListOf`, `ChildrenListed`): it is the longest path from the first child, and
  misses none because `prev` is grounded. `TreeNavigationExact` has two parts: the walks are
  that list, and its reverse; a search from a node of the list finds the next member of the
  set it looks for, and a handle that repeats it `count` times finds the one with that
  number. `TreeImplementsForest` is the refinement, for every step: from what a call does to
  `parent` and `prev` follow the new lists (a member more, a member less, an exchange, none,
  or the image of a list along a copy), and from the lists `Forest`'s sequences. `Below`,
  a loop in `Forest`, and `Under`, the least closed set in `XmlTree`, are shown to be the
  same set. That there are finitely many nodes is used here: for the walks, the loops and
  `Below`, which are bounded by the number of nodes.

- `XmlParseProofs`, for all documents, however long and however deep: `NoNodeIsLost`,
  `AllErrorsReported` and `OneNodeEach`. None of the three is inductive.
  `NoNodeIsLost` needs that the tree is sound while it is built. It is not, for `XmlTree`'s
  `Sound`: a node has a parent before it is linked. It is, once the parents of the nodes on
  the stack are taken away (`Rooted`), and these nodes are each other's parents, but for a
  text (`Nested`). `Whole` is both. That a node is linked to the caller's node only then
  makes `LinkedWhole` an instance of the same lemma on `LinkEndChild` that `XmlTree`'s calls
  use, and errors find the document through the parents that are set early (`DocumentFound`).
  The other two follow from `ParserFollowsScan`, a simulation: the nested calls against the
  one pass of the reference. `ScanInv` says where they are. `Following`: the names on the
  stack are the scan's open elements (`Matches`), and the phase is the scan's mode
  (`ModeOf`); they differ for two kinds of token, the head that ends a text and the end of
  the document in a leaf, which the parser looks at twice. `Endless`: the document ends in a
  text inside an element, which is found again and again. `Failed`: null is on its way up; a
  declaration that is not closed returns it without an error, and then the document is
  refused exactly if an element is above, which reports one (`UnwindScan`). `Done`. As the
  reference is a function defined by recursion on the number of tokens, that it exists and
  goes step by step is proved too (`ScansLong`, `ScanSteps`), and that a longer document
  is scanned in the same way as far as the shorter goes (`ScanStays`).
- `JsonPullProofs`: `JsonInvariant`, from which `EventsAreExact` and `NothingIsReadAhead`
  follow, for all documents and however deep they are nested. Both properties compare the
  parser, which looks ahead and back and keeps a stack of states, with a scan that takes
  one character after the other (`ScanStep`). `JsonInv` says of a document the parser is
  defined for that there is a number c of characters after which the scan has just the
  events returned (`Core`) and, while the parser runs (`Match`), that these are the
  characters it has used, with at most one more that is not blank in its buffer (`Used`);
  that its state and stack are those of the open brackets (`Stacked`, `Tower`); and that
  the scan wants nothing that is in the middle of a string or key (`Between`). Once it has
  failed the document must be cut short. The enumerations have levels of at least 1, which
  is all this needs of them: `seek_level` then never passes the end of the root (`SeekIs`).
  `KeysAreExact` needs `NestInv` besides, which says what a level is: the number of brackets
  open after the enumeration's first event (`Nested`), so that an inner one has a higher
  level, and that nothing since has been outside its bracket unless it is over, in which
  case it is the innermost; an announced element is at its level (`Flagged`). The depth of
  events is counted (`Depth`) and the parser goes by the height of its stack: `HeightIs`
  says that these agree but for the one state that a key's value has on top. What
  `seek_level` passes over is deeper than the level it goes to (`SeekSkips`), so no key of
  that object or of one around it is passed, and what ends an enumeration closes its
  bracket (`EndIsNext`).
  `ParseStringIs` shows that a quote at which `index_of` stops, looking back two characters,
  is the one at which the scan, counting backslashes, sees the string end: fewer than three
  backslashes in a row are assumed (`odd`), and without that it is false. `NextEventIs`
  goes through every state and what may be in front, `BlankRun` over what `next_value`
  skips. That nothing is returned after the scan's last event rests on
  `OnlyAnEventEnds` and `Ending`: only an event leads to where nothing is wanted, and there
  is none after it.

Some of these need a function that is defined by recursion on a count, such as a walk. Where
it is enough to know one equation for each count, that the function exists is proved from the
library's fact that `<` on the naturals is well-founded (`IterExists`).

Only model-checked, and why:

- all liveness properties, and with them fairness: beyond the prover;
- `RoundTrip`: `XmlPrint` recurses over nesting and declares a `RECURSIVE` operator, with
  which the prover has no arithmetic;
- of `HelpersExact` the part on `split` (`SplitExact`), and of `TextSurvives` the parts on
  entities, line ends, rows and columns, and references: both sides are folds or recursive
  functions over a text. What such definitions compute for every input can only be proved by
  induction over data, which the installed provers cannot instantiate.

## Not modelled

- `tbxml`, `NSDataAdditions`, `NSData+Base64`: Objective-C, used by nothing else here.
- `TiXml...::StreamIn` and the rest of `TIXML_USE_STL`, which the build does not set;
  `SaveFile`'s and `LoadFile`'s file handles; numbers as text (`SetIntAttribute` and the
  like); the contents of declarations.
- `md5_process` and `CSHA1::Transform`: arithmetic on words, no control. `ReportHash`. A
  message longer than HMAC's buffer, which the code does not guard against.
- JSON: the characters of strings, and so the conversions of `get_*_value`. `seek_in_object`
  is a loop of the enumeration's two calls, which the client of the model makes (the code
  never frees the enumeration when it finds the key).
- tinyxml: `LinkEndChild` of a document, and characters that the end of a text cuts off (except
  in `Stamp`), as said above.
- `memtrim`, `decoded_length`, `num_digits`.
- `socket`: two threads writing at once (the class has no lock and promises nothing),
  `disconnect` in the middle of a `write`; `socket_client::open`, which connects once.
- `curler` and `http_request`: setters of libcurl options. `chunker`: failures of `fopen`
  and `fwrite`, which it does not look at.
- `time`: two wrappers. `milisleep` repeats `nanosleep` as long as it *succeeds*, with a
  remainder that is then not set; nobody calls it.
- The runner of the unit tests.

What could be added: two writers in `SocketBurst`, if the class is ever given a lock, and
the composition of `JsonPull` with `CurlInputStream`, whose reads of one byte it makes.
