# TLA+ models of the Emergency Service Platform

These modules model the STOMP server of this repository and its client: what
their threads do to the state they share, in every order the scheduler, the
sockets and the users allow, and what their readers and writers make of text. TLC
checks small instances of them; TLAPS proves the most important facts for any
number of connections, topics and messages. Paths below are relative to
`SPL251-Assignment3-student-template/SPL251-Assignment3-student-template/`,
`stomp/` is `server/src/main/java/bgu/spl/net/impl/stomp/`, `srv/` is
`server/src/main/java/bgu/spl/net/srv/`.

## 1. The system

| component | state it keeps | operations | modules |
|---|---|---|---|
| Connection registry, `stomp/StompConnections.java` | `clients` (id → handler), `subscriptions` (topic → CopyOnWriteArrayList of ids), `clientsTo_subscriptionsId` (id → topic → subscription id), `credentials`, `messageIDCounter` | `send` to one and to a topic, `disconnect`, `subscribe`, `unsubscribe`, `isSubscribed`, `handle_credentials` | `StompConnections` |
| STOMP protocol of a connection, `stomp/StompProtocol.java` | `shouldTerminate`, the id, the registry | `process` and its five handlers | `StompProtocol` |
| Thread-per-client server, `stomp/StompTPCServer.java`, `stomp/StompBlockingConnectionHandler.java` | `idClient`; per handler the socket, `connected`, the decoder | `serve`, `execute`; `run`, `send`, `close` | `StompTPCServer` |
| Actor thread pool, `stomp/StompActorThreadPool.java` (and its copy in `srv/`) | `acts`, `playingNow`, the executor | `submit`, `complete`, `shutdown` | `StompActorThreadPool` |
| Reactor, `stomp/StompReactor.java`, `stomp/StompNonBlockingConnectionsHandler.java` (and `srv/Reactor.java`, `srv/NonBlockingConnectionHandler.java`) | selector, `selectorTasks`, `connections`, `idUser`; per handler `writeQueue`, the channel | `serve`, `handleAccept`, `handleReadWrite`, `updateInterestedOps`; `continueRead`, `continueWrite`, `send` | `Reactor`, `StompReactor` |
| Frame codec, `stomp/StompEncoderDecoder.java` | the bytes of a frame so far | `decodeNextByte`, `encode` | `StompFrames`, `StompEncoderDecoder` |
| C++ client, `client/src` | the socket, the flag `isActive`, two counters | a keyboard thread that writes frames, a network thread that reads lines, `main` that joins both | `StompClient`, `StompClientServer` |
| Event parsing, `client/src/event.cpp` | none | the body of a message to an `Event`; a file to a list of them | `Event`, `EventsFile` |
| JSON library, `client/include/json.hpp` (vendored) | the lexer's, the parser's and the serializer's | what `parseEventsFile` runs of it: `scan`, `parse`, `dump` | `JsonLexer`, `JsonParser`, `JsonSerializer` |
| Samples of the course template (`echo`, `newsfeed`, `rci`), program entry | – | – | not modelled |

**How they interact.** `StompServer` starts one of two servers. In the
thread-per-client mode the accepting thread creates a handler, puts it into
`clients` of the one shared `StompConnections`, starts the protocol and the
handler's thread. That thread reads bytes, lets the codec assemble a frame and
calls `process`, which calls the registry, which calls `send` of *other*
connections' handlers: one thread writes into many sockets. In the reactor mode
one selector thread reads and writes all channels and hands what it reads to the
actor thread pool, as a task of the connection's handler. The client is one process
with two threads over one socket; what it writes is read by the server's codec, and
what the server writes it reads line by line.

**What is hard in it**, each at its line in `PROJECT.json` under `hazards`:

* every registry method is a sequence of operations on concurrent collections,
  none of which is atomic with the next; other threads run in between and see
  the lists, ids and handlers half way;
* a thread keeps a reference to a list that has left the map;
* a publisher iterates over a snapshot of a list while its members leave, are
  closed, or fail;
* blocking writes tie the thread of one client to the speed of another;
* exceptions (`null` headers, failed casts) end a thread, or silently drop an
  answer, between two steps;
* in the pool, the last task of an actor ends just while a new one is submitted;
* in the reactor, a pool thread adds an answer and asks for OP_WRITE while the
  selector thread finds the queue empty, takes OP_WRITE back, or closes the
  channel; frames and answers are split over reads and writes;
* the client ends a frame with a null *and* a newline, and reads up to a newline
  where the server ends a frame with a null;
* the client's threads stop for a flag which either of them may clear while the
  other waits in a call;
* a text format that is read by several layers, each of which accepts or drops
  something the next one cannot know of.

**What makes each part correct.** The registry: a list never names a connection
twice, a connection that left is in no list, whoever is subscribed has an id,
a subscription that was accepted stays. The protocol: after an ERROR nothing
follows but the close, and nothing is published for a connection that is not
subscribed. The server: a thread that reads is registered; every frame is
handled to the end; the thread of a dead client is given up. Together: each
client sees the messages of each publisher once and in order, under ids that
are unique. The pool: the tasks of one actor run one at a time, in order, and
none is forgotten. The reactor: a client is sent the answers to its frames whole
and in order, no answer waits without OP_WRITE being asked for, and the selector
thread goes on. The client: it ends when it has a reason to, and only then. The
readers of text: what they return is what the text means, and what they refuse
means nothing.

## 2. The modules

`StompConnections` ← `StompProtocol` ← `StompTPCServer` ← `MCStompTPCServer`
(each extends the one before it); `StompSession` is the abstract specification
of the server. `StompActorThreadPool` stands alone; `ActorQueues` is its
abstract specification. `StompReactor` extends `Reactor`, which takes the pool by
what `ActorQueues` promises; `MCReactor` and `MCStompReactor` are their instances.
`StompTPCServer_proofs` holds the theorems about the first group,
`StompActorThreadPool_proofs` those about the pool, `Reactor_proofs` those about the
reactor, `Texts_proofs` those about the codec, the events and the file of events,
`JsonSerializer_proofs` those about the characters the library's scanner reads and its writer writes,
`JsonParser_proofs` those about the values its parser builds and its writer takes apart;
`SequenceLemmas` holds what they share about sequences and numbers.

`StompFrames` ← `StompEncoderDecoder` is the codec. `StompFrames` ← `StompClient` is
the client; `StompClientServer` extends it and `StompTPCServer`,
`MCStompClient` is its instance, and `StompClientServer_proofs` holds the theorems. `JsonLexer` and `JsonParser` ← `JsonSerializer`
are the library's scanner, parser and writer; `Event` and `EventsFile` stand alone.
`MCTexts` instantiates all readers and writers of text at once, one of them at work
in each behaviour.

### `StompConnections`

One action per operation on a concurrent collection, named
`<method><operation>`; the sequence of a method is the sequence of its labels in
`pc` (`"subscribe.list"`, `"subscribe.add"`, `"subscribe.put"`). A
connection id stands for the id, the handler registered under it, its protocol
and its thread, which are created together and never exchanged.

* A `CopyOnWriteArrayList` has an identity: `lists[t][g]` is the `g`-th list ever
  made for topic `t`, `subscriptions[t]` the one in the map now, and `held[c]` the
  one whose reference the thread of `c` has read. So a thread that adds to a list
  another thread has dropped adds to a list nobody will look up.
* The for-each loop of `send(destination, …)` takes the array of the list when the
  loop starts (`PublishSnapshot`), then looks up (`PublishLookup`) and writes to
  (`PublishWrite`) each receiver in turn.
* `disconnect` walks over the values of a ConcurrentHashMap, whose iterator is
  weakly consistent: it goes through the topics in any order, and takes the list
  of a topic when it gets there (`DisconnectPurge`).
* `HandlerSend` is `StompBlockingConnectionHandler.send` with its error paths: the
  cast that fails for a String and is caught, the write that blocks while the
  socket is full, the IOException that clears `connected`.
* `computeIfAbsent`, `put`, `get`, `remove`, `add` and the AtomicInteger's
  increment are atomic, which is what the library classes give.
* The per-connection map of `clientsTo_subscriptionsId` is only used by the
  connection's own thread; an absent outer entry and an empty inner map read the
  same, so both are a row of `None`.
* `handleSend` builds the header from its own thread's entry before it sends;
  nobody else changes the entry, so `MessageFrame` may read it when it writes.
* Writes of several threads to one socket go through `BufferedOutputStream`,
  whose `write` of an array is synchronized, so frames do not mix.

### `StompProtocol`

`process` as a jump (`Handler`) to the first step of a handler, the handlers, and
the receipt. Every early return, refusal and exception is there: the missing
`accept-version` that raises NullPointerException after the credentials were
written, `handleConnect` going on to the version after it rejected the
credentials, the ERROR frames of SUBSCRIBE and UNSUBSCRIBE and the RECEIPT that
are handed over as Strings. A frame is a record of the headers the handlers read;
a header that is absent is `None`, an `id` that `parseInt` refuses `NotANumber`.
`shouldTerminate` is read by its own thread only, between frames, so setting it is
part of the step that calls `disconnect`.

### `StompTPCServer`

`Register`/`Execute` are the accepting thread (`clients.put`, then `start` and
`execute`); `Loop`, `ReadFrame`, `ReadEnd`, `Close` the read loop with its
`finally`; `PeerClose` and `ClientReceive` the other end of the socket, which may
vanish at any moment. `Script[c]` is the set of frames client `c` may send, in
any order and number up to `Budget[c]`. The bytes of a frame are one step, since
each but the last only fills the handler's own buffer.

`Close` leaves `clients` and the lists alone, as the code does: a client that
vanishes without DISCONNECT stays registered and listed. All properties below hold
with that.

### `StompSession`

What a client may rely on, without threads or lists: its stream grows by a
CONNECTED for each login, at most one ERROR, and messages, each publisher's in its order, each
once, each id used once; and a session that failed is closed. `StompTPCServer`
maps to it by `Phase`, `Seen` and `messageIDCounter`.

### `StompActorThreadPool` and `ActorQueues`

`submit` and `complete` under the actor's monitor, one step per operation on
`playingNow`, `acts` and the executor's queue, which threads of other actors
touch as well. `RunEnds` stands for a task that returns and for one that throws:
`complete` is in a `finally`. `Shutdown` may come at any moment; after it the
executor refuses tasks, and `submit` leaves the monitor by the exception. `acts` is
a WeakHashMap behind a read-write lock held for single operations, so each is one
step; an actor with a task in flight is strongly reachable, so its entry does not
vanish. `ActorQueues` counts, per actor, the tasks submitted, started and
finished: one at a time, in order, each once, and every one unless stopped.

### `Reactor`

`srv/Reactor.java` with `srv/NonBlockingConnectionHandler.java`. `spc` is the place
of the selector thread in its loop: `select`, the tasks other threads left
(`RunTask`), the selected keys in any order, and for each key `continueRead`, the
test of writability and `continueWrite`, whose loop (`ContinueWrite`), second look
at the queue (`WrittenIsEmpty`) and last decision (`Settle`) are steps of their
own, because pool threads add answers in between. `pc[c]` is the place of the
connection's task in the pool: decode, `process`, `writeQueue.add`, then the two
steps of `updateInterestedOps`, adding a task for the selector and waking it.
`tasks[c]` is the actor's queue, one task at a time, as `StompActorThreadPool`
provides.

Bytes are counted, not spelled. A read takes what there is up to `ReadLen`, so a
frame may come in several tasks and a task hold the end of one frame and the start
of the next; a socket takes `SockBuf` bytes, so an answer may be written in parts. A
byte on the wire is named by the frame whose answer it belongs to.

A task of the selector fixes its key when it is made; when the channel has been
closed since, setting the interest raises `CancelledKeyException` (or
`NullPointerException`, when `keyFor` has returned null), which `serve` does not
catch: `spc` becomes `"dead"`. A write that fails closes the channel and tries again
for ever: `ContinueWrite` on a closed channel changes nothing.

### `StompReactor`

The STOMP variant repeats that text with two changes: accepting submits a task that
registers the handler and starts the protocol (`RunStart`), and `process` answers
through the registry instead of by its return value (`ProcessThrows`,
`ProcessIgnores`). The field `connections` is null from the constructor on, so both
throw; the pool survives it, the buffer's rest is lost, nobody is answered.

### `StompFrames` and `StompEncoderDecoder`

A text is a sequence of tokens: the newline, the null, a word without a colon, or a
key and a value with one. `ParseFrame` and `Encode` are `parseFrame` and
`serializeFrame(Message)`; a `HashMap` gives its entries in any order, so a message has
several encodings. A key that has a colon of its own (`"message:"`) is read back as
what stands before it, with the colon in the value (`AsWritten`).
`StompEncoderDecoder` feeds `decodeNextByte` one token after the other: the array
that doubles, keeps its old bytes and is reused; the frame without a newline whose
exception leaves `run` and ends the connection.

### `StompClient` and `StompClientServer`

`main`, `keyboard` and `network` are the places of the three threads; one action per
call or test of each loop. `isActive` is a plain `bool` without a lock. Between two
tests of it each thread calls functions the compiler cannot look into, so each test
reads the memory and is one step; that is the only assumption made of the race.
`sendLine` is two writes, the frame with its null (`Write`) and the newline
(`WriteDelimiter`); each may fail once the server has closed. `GetLine` reads up to a
newline and drops nulls. A server that closes without having read the last newline
resets the connection, so `GetLineFails` may come although there is text left.

`StompClientServer` puts the program on connection 2 of the server. What the client
wrote reaches `process` through `ParseFrame` (`ReadTyped`), what the server wrote
reaches the client as text (`Stream`). Connection 1 was there before: it has subscribed
to the topic, and the passcodes it may have set are arbitrary, so a login may be
refused. It goes on as a scripted client and may publish to the topic.

### `Event` and `EventsFile`

`Event` is the constructor that reads the body of a message line by line; a line is the
sequence of the texts between its colons. `split_str` is declared nowhere in the
repository and is taken to return them. An entry of the section is named by `Tail` of its
key, as `substr(1)` cuts it: `"\tactive"` and `" active"` are one entry, of which the last line
counts, and `city` in the section is the entry `ity`. `EventsFile` is `parseEventsFile` on the value
the library made of a file, one step per event, with the conversions `operator[]`,
`items()`, `get<string>`, `get<int>` make or refuse; an integer is cut to the
ints, of which `IntMax` is the greatest, a float beyond an int is any int (undefined
behaviour).

### `JsonLexer`, `JsonParser`, `JsonSerializer`

`JsonLexer` is one call of `scan()`, a step per byte; the four digits of a `\u`
escape, which the code reads in one loop, are one step. The gotos of `scan_number`
are a relation (`Gotos`), the byte ranges of `scan_string` a function (`Ranges`). A
null byte counts as the end of the input, as it does in the code.
`JsonParser` cuts the loop of `sax_parse_internal` at its calls of `get_token()`. Values
are nodes and pointers their numbers, since `object_element` and `ref_stack` point into
a value that still grows. `JsonSerializer` is `dump()` as the client calls it: values to
tokens, the bytes of a string through `utf8d` and the buffer, the digits of an
integer; `ReadAgain` gives what was written of a string to the scanner.

## 3. What is checked

| run | instance | shows |
|---|---|---|
| `registry` | 2 connections, 1 topic, 3 frames each out of SUBSCRIBE, SEND, UNSUBSCRIBE, DISCONNECT with receipt, and a SEND that ends its thread | `IndInv` (the inductive invariant: `RegistryInv` and `StreamsInv`), `NoDuplicateSubscriber`, `NoNullHeader`, `MembersOnly`, `PerSenderOrder`, `UniqueMessageIds` |
| `session` | every kind of frame, refused and malformed ones included, beside a client that logs in, subscribes and publishes; 2 topics | `TypeOK`, `ReaderIsRegistered`, `ErrorEndsSession`, and the refinement `ImplementsSession` |
| `progress` | sockets of one frame, a publisher whose thread may end, a subscriber that may leave, fairness | `DisconnectedIsForgotten`; `SubscriptionHeld` when nobody unsubscribes; `FrameCompletes`, `DeadPeerReleasesThread`, `ImplementsFairSession` |
| `pool` | 2 submitters, 2 workers, 2 actors, 4 tasks each, shutdown at any time, fairness | `PoolInv` (the inductive invariant), `OneAtATime`, `NoTaskForgotten`, the refinement `ImplementsFairActorQueues` |
| `reactor` | 2 clients: two answered frames, and one that is answered and final; frames and answers of 2 bytes, reads and sockets of 3; clients that leave at any time; fairness | `ReactorInv` (the inductive invariant), `AnswersWhole`, `WriteAskedFor`, `RequestWakes`, `ServesOn`, `AnswersDelivered`, `TerminatedIsClosed` |
| `client` | the client, a user who types up to two of login, join, logout and a command that sends nothing, or ends the input; another connection that publishes once; fairness | `ClientTypeOK`, `FramesStayApart`, `EndsForAReason`, `CloseIsNoticed`, `EndOfInputEnds`, `FirstLogoutEnds` |
| `texts` | every reader and writer of text over all inputs of a bounded size | `ReadBack` (codec), `BuiltAsWritten` (`Event`), `FileAsWritten` (`parseEventsFile`), `NumberAsWritten`, `StringAsWritten`, `ParsedAsWritten`, `DumpedAsParsed`, `ScalarsReadBack` (what they run of the library; the last is `EscapedIsReadBack` for strings and `IntegerAsWritten` for integers) |

`texts` compares each algorithm with a definition of its result that is not
written step by step: the grammar of JSON with the value each text has, the ranges of
Unicode scalar values, the fields as the last lines of their keys.

Five more runs end in a counterexample: each checks one sentence a comment or the
README says of the program, which the code does not do.

| run | the sentence | what happens |
|---|---|---|
| `passcode` | "true:correct credentials/update credentials if the user is new" (`StompProtocol.java:84`) | two first CONNECTs of one login pass the check together; the second passcode replaces the first |
| `lost_subscription` | "subscribe returned true - calid SUBSCRIBE frame, connections.subscribed handled the subscription" (`StompProtocol.java:216`) | the list it adds to is dropped by an UNSUBSCRIBE that had found it empty |
| `reactor_final` | "The main loop of the server, Starts listening and handling new clients" (`srv/Server.java:11`) | the selector sees `shouldTerminate` before the last answer is queued and closes the channel; the request that follows ends the selector thread |
| `client_logout` | "**Logout**: Gracefully disconnect from the server" (`README.md:24`) | the newline behind the login's null costs the logout its command; the server neither answers nor closes, the network thread waits for ever |
| `stomp_reactor` | "server responds by sending a CONNECTED Message to registered Clients" (`StompProtocol.java:79`) | in reactor mode `connections` is null; every CONNECT ends in an exception |

Three more disagreements were met and need no model checker to see: a receipt is
handed over as a String, which the handler cannot cast, and dropped
(`StompProtocol.java:60`); after UNSUBSCRIBE a new SUBSCRIBE to the topic is refused,
because the topic stays in the connection's own map (`StompConnections.java:79`); a
message carries the subscription id of its sender (`StompProtocol.java:156`). The model
does all three as the code does.

**Bounds, and why they are enough.** `MaxConns`, `Topics` and `SubIds`: every
hazard above is between two threads on one topic, and a third only adds a
bystander. `Budget` (frames per client): three let a client
subscribe, leave and come back, or publish twice. `MaxLists`: lists created per
topic; a subscribe that needs one more would stop its thread for ever, which the
deadlock check and `FrameCompletes` would report: within the budgets it does not
happen. `SockBuf`: frames in a socket; 8 is more than any instance writes, so
writes never block there, and `progress` takes 1, where every second write may
block. In `registry` and `progress` one client also sends a SEND without a destination, in `progress` a
CONNECT without a version too: its thread ends and leaves its entries behind. `ClientReceive` acts only on a full socket, since what a client has read
makes no other difference. `MaxTasks`: tasks submitted per actor; four let the
queue of an actor hold two tasks while one runs and one is being submitted.
`FrameLen`, `AnswerLen`, `Segment`, `ReadLen`, `SockBuf` of the reactor: with 2, 2, 2,
3 and 3 a read takes a frame and a half, the second frame comes in two tasks, and
the second answer meets a socket with room for one byte of it. In `reactor` the session
that ends has no answer but the one to its final frame; the other case (`Hasty`), which
`ServesOn` and the liveness properties except, is the one `reactor_final` shows to go
wrong. The selector asks `shouldTerminate` only after it has written, so a session whose
final frame has no answer is never closed; `TerminatedIsClosed` speaks of the others. A client's bytes arrive in
segments, and a client reads when its socket is full.
In `client`: two typed lines make a first and a later frame of every kind, one
publication is several lines of text that end in the middle of a frame, and the
sockets never fill (`progress` is about those that do). `MaxLists` is 1, since the client
cannot unsubscribe.
In `texts`: `Size` 2, so the codec's array doubles several times within the first
frame; messages of up to two headers, bodies that hold empty lines and headers, and
what may stand between two frames. Event bodies of up to four lines, which lets a key
repeat inside and outside of the section, and two keys meet in one entry. Files of up to two events. Strings of
`MaxString` 2 bytes before the last character and `MaxNumber` 5 characters; the bytes
are the first and last of every range the code tests. `MaxTokens` 10: the shortest
object that repeats a key has nine tokens, and the end of the input follows.
`ULLMax`, `LLMax`, `IntMax` stand for 64-bit and 32-bit limits, small so that the inputs
cross them. `BufferSize` 16 (512 in the code), of which the code keeps 13 bytes free,
with `MaxBytes` 4, so the buffer is written out in the middle of a string. Integers of
-1001 to 1001 and around powers of ten, up to the least and the greatest (`IntegerMax` 99999): a
signed overflow gives any integer, as undefined behaviour may.

Deadlock is checked in the runs of the server, the pool and the reactor: the only
states without a further step there are the ones `Quiescent` describes, or a stopped
pool. It is not checked in `client`, `client_logout` and `texts`: the client ends, and a
reader stops at the end of its input.

**Fairness and its justification.** `FairSpec` of the server has weak fairness of
the accepting thread and of each connection's thread (the JVM runs every runnable
thread; a thread that waits for a frame or for room in a socket is not enabled, so
nothing is asked of it but what it can do), and of `ClientReceive`: a client that
stays connected goes on reading. That one is about the clients, not about the
server: without it a client that stops reading holds the threads of its
publishers, as blocking writes do. Nothing obliges a client to send or to close.
`FairSpec` of the pool has weak fairness of the steps inside `submit` and of each
worker; `RunEnds` is among them, so tasks are assumed to end. Nobody is obliged to
submit. `FairSpec` of the reactor has weak fairness of the selector thread, of each
connection's tasks (what `ImplementsFairActorQueues` gives) and of a client's reading.
`ClientServerSpec` has weak fairness of each thread of the client and of the server;
the user is obliged neither to type nor to end the input, which is why
`CloseIsNoticed` speaks of the network thread only, and `EndOfInputEnds` of a user who
ended it. No fairness is needed in `texts`, whose properties are invariants.

## 4. What is proved

With TLAPS, for all values of the constants that satisfy the named assumptions
(`ConnectionsAssumption`, `ServerAssumption`: any number of connections and lists,
any sets of topics and ids, any scripts, socket size at least one; `PoolAssumption`: any
sets of actors, submitters and workers, any number of tasks; `ReactorAssumption`: any
connections, any lengths of at least one byte, any answered and final frames;
`CodecAssumption`: an array of at least one byte; `EventsFileAssumption`: any greatest int, any
keys in any order; `LexerAssumption`: any characters of -1 to 255, any escapes of four
bytes, any limits of the integers, texts of any length; `ParserAssumption`: any scalars of which any
are strings, none with the type of an array, of an object or of another token, as `token_type` and
`value_t` keep them apart in the code, texts of any length; `SerializerAssumption`: any bytes, any
integers from the least `number_integer_t` to the greatest `number_unsigned_t` of any width, a
`string_buffer` of at least the 13 bytes the code keeps free;
`ClientAssumption`, `ClientServerAssumption`: two connections, any lines of the commands'
forms and any number of them, any topics, ids and passcodes, any text as the body of a
message):

| theorem (`StompTPCServer_proofs`) | says |
|---|---|
| `Invariance` | `Spec => []RegistryInv` |
| `TypeCorrect` | `Spec => []TypeOK` |
| `NeverTwiceInAList` | `Spec => []NoDuplicateSubscriber` |
| `HeaderIsNeverNull` | `Spec => []NoNullHeader` |
| `DisconnectForgets` | `Spec => []DisconnectedIsForgotten` |
| `ReaderStaysRegistered` | `Spec => []ReaderIsRegistered` |
| `StreamsInvariance` | `Spec => []IndInv`, where `IndInv` is `RegistryInv` and `StreamsInv` |
| `OnlyMembers` | `Spec => []MembersOnly` |
| `IdsNameMessages` | `Spec => []UniqueMessageIds` |
| `SendersOrder` | `Spec => []PerSenderOrder` |
| `ErrorIsLast` | `Spec => []ErrorEndsSession` |
| `ServerImplementsSession` | `Spec => ImplementsSession`, the refinement of `StompSession` |
| `SubscriptionsAreHeld` | `Spec => []SubscriptionHeld`, where no script has an UNSUBSCRIBE (`NobodyUnsubscribes`) |

| theorem (`StompActorThreadPool_proofs`) | says |
|---|---|
| `PoolInvariance` | `Spec => []PoolInv` |
| `OneTaskAtATime` | `Spec => []OneAtATime` |
| `NoTaskIsForgotten` | `Spec => []NoTaskForgotten` |
| `PoolImplementsQueues` | `Spec => ImplementsActorQueues`, the refinement of `ActorQueues` |

| theorem (`Reactor_proofs`) | says |
|---|---|
| `ReactorInvariance` | `Spec => []ReactorInv` |
| `AnswersAreAskedFor` | `Spec => []WriteAskedFor` |
| `NoRequestSleeps` | `Spec => []RequestWakes` |
| `SelectorServesOn` | `Spec => []ServesOn` |
| `AnswersAreWhole` | `Spec => []AnswersWhole` |

| theorem (`StompClientServer_proofs`) | says |
|---|---|
| `ServerKeepsInvariants` | `ClientServerSpec => []IndInv`, the invariant of the server |
| `ClientTypeCorrect` | `ClientServerSpec => []ClientTypeOK` |
| `FramesAreKeptApart` | `ClientServerSpec => []FramesStayApart` |
| `ClientEndsForAReason` | `ClientServerSpec => []EndsForAReason` |

| theorem (`Texts_proofs`) | says |
|---|---|
| `FramesAreReadBack` | `CodecSpec(W, K, V) => []ReadBack`, for messages over any words `W`, keys `K` and values `V` |
| `EventIsBuiltAsWritten` | `EventSpec(Text) => []BuiltAsWritten`, for bodies of any lines over any texts |
| `FileIsReadAsWritten` | `FileSpec(S) => []FileAsWritten`, for files of any values `S`, of any depth, and any width of an int |

| theorem (`JsonSerializer_proofs`) | says |
|---|---|
| `NumbersAsWritten` | `LexerSpec => []NumberAsWritten`, for inputs of any characters and any length, and integers of any width |
| `StringsAsWritten` | `LexerSpec => []StringAsWritten`, for inputs of any characters and any length |
| `StringsReadBack` | `SerializerSpec => []EscapedIsReadBack`, for strings of any bytes and any size of the buffer |
| `IntegersAsWritten` | `SerializerSpec => []IntegerAsWritten`, for any integer of any width |
| `ScalarsAreReadBack` | `SerializerSpec => []ScalarsReadBack`, both |

| theorem (`JsonParser_proofs`) | says |
|---|---|
| `ParserInvariance` | `ParserSpec => []ParseInv`, the invariant of the parser and the builder of values |
| `TextsParsedAsWritten` | `ParserSpec => []ParsedAsWritten`, for texts of any length over any scalars, nested to any depth |
| `ValuesDumpedAsParsed` | `ParserSpec => []DumpedAsParsed`, for the same texts |

**The argument for the registry.** None of the first theorems is inductive alone. `subscribe` asks the
connection's own map whether it is subscribed and then adds to a shared list, so
"no duplicates" needs `RecordsOK`: whoever is in *any* list, one that has left the
map included, has an id in its own map or is just between the two writes of
`subscribe`; and a thread on its way through `subscribe` has none yet. That uses
the very thing that makes a second SUBSCRIBE fail: an id, once recorded, is never
removed. `NoNullHeader` then follows from the same fact, because `isSubscribed`
says yes only to a member of a list. `DisconnectedIsForgotten` needs `ServedOK`
(only the connection's own thread takes it out of `clients`, and a thread that
runs a handler is registered, so a connection that is gone adds itself to nothing)
and `ListsOK` (a list created after the walk of `disconnect` starts empty).
`LocalsOK` says that the locals of a thread are what its next step needs. The step
proof has one lemma per action and one step per conjunct the action can disturb;
`RemoveFirstFacts` and its neighbours in `StompTPCServer_proofs` say what
`CopyOnWriteArrayList.remove` and `add` do to such lists.

**The argument for the streams.** A frame is in a stream because a thread wrote it, so the
invariant has to know what a publication under way has written so far. `PublishingOf` says
that it has an id nobody else has, that its sender has an id for the topic, and that the
receivers still to be served are recorded for it and each there once (that is where
`NoDuplicateSubscriber` is needed: the array the loop runs over is a list of the
registry). `StreamOf` says that the message in a stream under this id is the one being
published and is in no stream of a receiver still to come, and that all others of the
sender have smaller ids. So the next write is new in its stream and comes after all
earlier ones of its sender. `SessionOf` ties an ERROR to `shouldTerminate`, which the
thread reads before it reads another frame. The refinement follows: accepting a
connection is `Open`, a reply `Accept` or `Refuse`, drawing an id `Publish`, a write of the
loop `Deliver`, closing the socket `End`, and every other step leaves what the clients see
alone.

**The argument for subscriptions.** `SubscriptionsAreHeld` is the other side of the run
`lost_subscription`: an UNSUBSCRIBE of another client can lose a subscription, and nothing
else can. Without one, a list stays in the map from the moment it is put there (`HeldOf`),
so the list `subscribe` has looked up is still the topic's when it adds to it, and what
`disconnect` takes out of it is its own connection only.

**The argument for the pool.** `PoolInv` is inductive as it stands. `OneAtATime` alone is
not: a thread acts on what it read a step before, so `BranchOf` says that what it found
in its synchronized block (the actor plays or not, tasks are pending or not) is still so,
and `MonitorOf` why: one thread is in the blocks of an actor, and only they change its
membership and its pending tasks. `OrderOf` numbers the tasks: the pending ones are the
last submitted, without gaps, and the one with the executor comes right before them. From
it a worker that takes a task takes the next one of its actor after the one before has
ended, which is the step `Start` of `ActorQueues`. A step is about one thread and one
actor: `OtherThreads`, `HolderOthers` and `OtherActors` settle the rest once for all
actions.

**The argument for the reactor.** The selector thread takes the interest in writing back in
two steps, `WrittenIsEmpty` and `Settle`, so `WriteAskedFor` needs `SettledOf`: an answer
added between them has its request on the way, and requests are run outside of them only.
`WokenOK` is `RequestWakes` for every place of the selector but the loop that runs the
requests. `ServesOn` is about a request for a closed channel: a session that is not
`Hasty` has one answer, so by `RequestOf` it makes one request, and the selector writes
for it, and may close it, only after that request has been run (`ClosedOf`). That the
number of a frame grows by one as the last of its bytes is decoded is `FrameCount`, a
lemma on division. `AnswersWhole` speaks of all bytes a client was ever sent and of what
waits for it, which is a concatenation of what each queued buffer still holds. A write
moves bytes from the head of one to the end of the other, and a task appends one answer
whose number is that of the frame it decoded last. What a concatenation gains or loses when a sequence
grows at its end, or loses or changes its head, is an induction over the sequence. The
lemmas `Flattening...` of `SequenceLemmas` make it by the least index at which two sequences
differ, since the library's induction theorems are out of the provers' reach.

**The argument for the client.** The server's part of the state moves by steps of
`StompTPCServer`, whether the client or the script of the other connection typed the frame, so
`IndInv` carries over as it is, and with it every theorem about the server that follows
from it (`ServerKeepsInvariants`). `ClientInv` adds what relates the two programs. `WireOK` says what is
on the wire: the frames the server has not read, null by null, each but the very first
behind the newline `sendLine` wrote after its predecessor, and at the end the newline of the last one,
unless that is still to be written or a write has failed. The server cuts the wire at its first null;
a frame has none but its last, so what it cuts is one frame whole (`WireReads`). A frame's
lines are a command, headers and an empty line (`FrameIs`), from which the parser makes its
command and all headers, and behind a newline no command and the same headers
(`ReadLater`): this is `FramesStayApart`. `KeyboardOK` and `CountsOK` tie the frame a thread is
about to write to the line it was typed as, which the clause of `EndsForAReason` about a logout needs;
the one about an ERROR needs `HeardOK`: what the network thread holds is a line of the
stream, so an ERROR in it is one the server sent, or the text of a message that has the word.
TLC checked the parts of `ClientInv` on the instance of `client` before they were proved.

**The argument for the codec.** `CodecSpec` starts with any exchange of `ExchangesOf`: two
messages, each of a command without a colon, headers, and a body without a null, or none,
and between them nothing, a newline, or a frame without a newline. One thing is asked of a
message's headers, that no two have the same name up to their first colon: for two such keys
the one that `encode` happens to write last would win, and `ReadBack` is false.
`EncodeIs` says what `encode` writes, place by place (`Encoding`), for every order of the
headers. `EncodingReadAs` says what `parseFrame` makes of it, from the first place or behind a
newline: the first newline is the one of the command's line, and no two newlines follow each
other before the empty line, since each line of headers starts with a pair (`BeforeBlank`);
that fails for a message without headers, whose empty line is the command's own, so
of such a message only the command is promised. `SentMeans` puts the two frames
on the wire and finds its first two nulls. The invariant `CodecInv` is then about
the buffer alone: it holds the bytes since the last null (`Buffer`), whatever the size of the
array and however often it was doubled (`Pushed`), and at a null it is the frame (`Held`).

**The argument for the events.** `EventInv` says of the lines read so far what
`BuiltAsWritten` says of all: the last line of a key among them gives the field, those since
"general information" the entries (`FieldNext`, `DateNext`, `InformationNext` for one line
more), and none of them had to throw. A description takes the rest of the body, so the
lines it reads are not parsed. The constructor throws at the first unreadable line, and
the bodies with one are exactly those that `BuiltAsWritten` wants refused.

**The argument for the events file.** `Values(S)` says what a file may be made of: a set of
values that has a null and, with an object or an array, what is in it, under keys of `KeyOrder`
(`FilesAreValues` has TLC evaluate it of the files of `texts`). A loop over a value is one over a
sequence of values of `S` (`ElementsOf`), which for an object is that of all its members
(`KeysAre`). `FileInv` says that each event before `next` converts and is in `events` at its
place, and that the one at which the call threw does not. The rest relates `Converts`,
which asks what `operator[]` and `get` make of a value, to the form of a file:
an event of the right form converts and loses nothing (`EventFits`), its date in
range or else modulo the number of ints (`WrappedIs`), and a value converts exactly if the silent
conversions make it an event (`CoercedIs`), for `operator[]` on a null gives a null, which is no text.

**The argument for the scanner.** `ReadInv` says what the variables hold: what was read, what of
it `token_buffer` keeps, and the character that was put back. `NumberInv` adds, for each label of
`scan_number`, of which shape the text in front of it is: a minus, a zero, digits that do not
begin with a zero, a whole part and a point, a fraction, and so on. A number has one whole part and
one fraction (it is the longest run of digits behind the minus, and the one behind the point), so a
goto goes exactly where the grammar goes on, and the label without a goto is an end or an
error of the grammar. The value of an integer is computed digit by digit in the code and defined
by a recursive function in `NumberAsWritten`; that the two agree is an induction over
the digits (`Recursion`, `Stepwise`, `SameValue`), made by least counterexamples. `StringInv` says that
what was read is a sequence of whole characters and `token_buffer` their values joined, and then,
while a character is being read, that its part so far is the beginning of one: a reverse
solidus, an escape whose high surrogate waits for the low one, or the first bytes of an
encoding. `RangesAre` shows that the table of byte ranges allows exactly what may go on to a
Unicode scalar value, and `EncodingIsUtf8` that the bytes made of an escape, or of a pair of them,
are the encoding of what it stands for. An error is then at a beginning that no character has
(`StartsAs` and the lemmas `Bad...`).

**The argument for the serializer.** `DumpInv` says, while a string is dumped, that `output` and
`string_buffer` hold what is written of the code points read so far, and behind it the bytes
of one that is not complete (`Filling`), whose number `codepoint` is and whose missing bytes `utf8`
counts (`Pending`, `Decoding`). An exception means that the text is not well-formed because there is
one way only to cut a text into encodings: each cut falls where the decoder's do (`Boundary`), so
a byte the decoder refuses is refused by every other cut (`Clash`). The buffer grows by at most
six bytes in a step and is written out with less than 13 bytes left, so it never runs over. While the
string is read again, what is left of `output` stands for what is left of the text, at each place
the scanner can be in: before the quote, between characters, behind a reverse solidus, in the digits of an
escape, in an encoding (`BeingRead`). For an integer, `IntegerInv` says that `abs_value` times the
power of ten of the digits behind `buffer_ptr`, plus the value of these digits, is the size of the
integer, and that as many places are left as `abs_value` has digits. `count_digits` goes in
steps of four and `dump_integer` in steps of two, so this needs that a division by 100 takes two off
the count (`TwoFewer`), by an induction over the recursion of the one along the other.

**The argument for the parser.** `ParsedAsWritten` has two halves. For the first, that a value
is right, `Structured` says what the builder's pointers amount to: each array or object on
`ref_stack` begins at a place `P` of the text, and the tokens behind that place are items or members of
what the node holds so far (`Contents`), up to the value that is awaited, which is the next one on the
stack or the one `object_element` or the end of the array stands for. `D` gives each node that is
closed the value it is the root of, and `ClosedOK` says that these values solve the equations of
`ValueOf`. At the end the text is one value, that of the root, and `ValueAt` is the same one: a node's
children were made after it, so the equations have one solution, by an induction from the last
node down. The text of a value is in `Grammar` because a text's parts are shorter than it is. A key that comes
twice takes a new node; the old one is in nobody's members any more, and `Over` says the same of the text.
For the second half, that a refusal is right, where the loop is and what `states` holds depend on the
tokens alone: `StepAt` is that automaton, and what it has refused it never takes again (`Refused`). That
it takes every text of the grammar for what it is, under any `states` below it, is an induction over
the length of the text for values, items and members at once (`Read`). So no beginning of a sentence is
refused.

**The argument for dump.** What is written of a node is a text of its value, though in general not the
one that was read: the members come in the order of the map, and of two with one key
only the last is written. `Writes` therefore says, of each text of the grammar and each node that has its
value, that the tokens of the node are some text of the value, no longer than the first; this is
by induction over the length of the text, and the bound keeps what is written inside
`Grammar`, which ends at `MaxTokens`. That members in another order are members of the same object
needs that no key comes twice in it (`Distinct`), and that the keys can be put into
an order at all that they are finite: different keys lead to different nodes.

**Model-checked only.** Liveness and both refinements of fair specifications, since
temporal reasoning under fairness is out of the prover's reach; so the client's
`CloseIsNoticed`, `EndOfInputEnds` and `FirstLogoutEnds`. Every other property of the passing runs is proved.
The library's induction theorems take an operator and cannot be used here. Where an induction is
made (`AnswersWhole`, the codec, the digits of a number, the texts of the grammar), it is over the length
of a sequence or a number, for a set of numbers (`Induction`) or by a least counterexample, or by an
invariant that says what the part read so far amounts to.

## 5. What is not modelled

* `srv/BaseServer.java` and `srv/BlockingConnectionHandler.java`: a thread per client
  that shares nothing; the STOMP program has its own.
* `close()` of a whole server and a failing `bind` or `accept`: the server is run
  until it is killed, and nothing is kept across runs.
* The rest of `json.hpp`: 25,000 lines of which the client runs a small part. Not
  modelled are the binary formats, JSON pointers and patches, parsing with callbacks,
  pretty printing, comparison, and allocation. Floats are a kind of value here; the
  conversion of their digits (`strtod`, Grisu) is not modelled. A number above the
  limits of a float is a token the parser refuses.
* The lengths of words and values: the codec's tokens stand for texts of any length, so
  the encoding of characters in several bytes is not part of it.
* `client/src/echoClient.cpp`: the template's sample client, which the program does not use.
* The client does not build as it stands: the headers `keyboardInput.h` and
  `netWorkThread.h` are not in the repository. The model takes the two `.cpp` files for
  what they define, with `isActive` and the connection shared by reference.
  `parseEventsFile` and `Event(frame_body)` are not called yet: the commands `report`
  and `summary` have empty bodies. They are modelled as functions of their input.
* `activeUsers`, `registerConnection`, `parseMessage`: never used.
* `StompServer`, `StompServerInterface`: argument parsing and factories.
* The samples of the course template, which the STOMP program does not use.

## 6. What is left

1. **Two publishers on full sockets**: which clients must read for whom.
2. **The `report` command**, when the client has one: events from a file to messages and
   back through `Event`.
